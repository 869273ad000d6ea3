----------------------------- MODULE LedgerProofs -----------------------------
(***************************************************************************)
(* The findings layer for every number of findings, signers, processes and *)
(* events, in three parts.                                                 *)
(*                                                                         *)
(* 1. Facts about the merge rules that hold of every log: the replay order *)
(*    has a last element, the two-person rule really needs two persons,    *)
(*    and a derived dismissal always has someone behind it.                *)
(*                                                                         *)
(* 2. However the programs that write to the layer interleave and crash,   *)
(*    the log is well typed and free of duplicates, and no derived         *)
(*    dismissal is without a person -- two persons, against proof.         *)
(*                                                                         *)
(* 3. The layer implements Lifecycle.  A submitted event is stamped with   *)
(*    any time up to now, so it may take any place in the replay; the      *)
(*    argument is what one more event, anywhere in the order, can do to a  *)
(*    derivation: the last of a set of events is the old last or the new   *)
(*    event, and the re-assertions that count can only shrink when a proof *)
(*    arrives and only grow when a person dismisses.  From the same facts: *)
(*    refutations stay visible, dismissals end loudly, and a verification  *)
(*    report outranks every other word on the resolution.                  *)
(***************************************************************************)
EXTENDS Ledger, FiniteSetTheorems, WellFoundedInduction, NaturalsInduction, TLAPS

-----------------------------------------------------------------------------
(* 1. The merge rules.                                                     *)

\* Every non-empty set of naturals has a least element.
LEMMA NatLeast ==
  ASSUME NEW T \in SUBSET Nat, T # {}
  PROVE  \E x \in T : \A y \in T : x <= y
<1> DEFINE LT == {p \in Nat \X Nat : p[1] < p[2]}
<1>1. IsWellFoundedOn(LT, Nat)
  BY NatLessThanWellFounded DEF OpToRel
<1>2. \E x \in T : \A y \in T : ~ (<<y, x>> \in LT)
  <2> HIDE DEF LT
  <2> QED BY <1>1, WFMin
<1>3. \A x, y \in T : ~ (<<y, x>> \in LT) => x <= y
  <2> TAKE x \in T, y \in T
  <2>1. <<y, x>> \in Nat \X Nat
    OBVIOUS
  <2>2. <<y, x>>[1] = y /\ <<y, x>>[2] = x
    OBVIOUS
  <2> QED BY <2>1, <2>2
<1> HIDE DEF LT
<1>4. QED
  BY <1>2, <1>3

\* A non-empty bounded set of naturals has a greatest element.
LEMMA NatGreatest ==
  ASSUME NEW b \in Nat, NEW T \in SUBSET (0 .. b), T # {}
  PROVE  \E x \in T : \A y \in T : y <= x
<1> DEFINE U == {b - x : x \in T}
<1>1. U \in SUBSET Nat /\ U # {}
  <2>1. \A x \in T : x \in Nat /\ b - x \in Nat
    OBVIOUS
  <2>2. PICK x \in T : TRUE
    OBVIOUS
  <2> QED BY <2>1, <2>2
<1>2. PICK u \in U : \A v \in U : u <= v
  <2> HIDE DEF U
  <2> QED BY <1>1, NatLeast
<1>3. PICK x \in T : u = b - x
  BY <1>2
<1>4. \A y \in T : y <= x
  BY <1>2, <1>3
<1>5. QED
  BY <1>4

\* Latest is well defined on every non-empty set of positions: it is one of
\* them, and the replay puts every other one before it.
LEMMA LatestIsLast ==
  ASSUME NEW n \in Nat, NEW m \in Nat, NEW L,
         NEW S \in SUBSET (1 .. n), S # {},
         \A i \in S : L[i].at \in 0 .. m
  PROVE  /\ Latest(L, S) \in S
         /\ \A j \in S \ {Latest(L, S)} : Before(L, j, Latest(L, S))
<1> DEFINE Times == {L[i].at : i \in S}
<1>1. Times \in SUBSET (0 .. m) /\ Times # {}
  OBVIOUS
<1>2. PICK t \in Times : \A u \in Times : u <= t
  <2> HIDE DEF Times
  <2> QED BY <1>1, NatGreatest
<1> DEFINE Last == {i \in S : L[i].at = t}
<1>3. Last \in SUBSET (0 .. n) /\ Last # {}
  <2>1. S \in SUBSET (0 .. n)
    OBVIOUS
  <2>2. PICK i \in S : L[i].at = t
    BY <1>2
  <2> QED BY <2>1, <2>2
<1>4. PICK k \in Last : \A j \in Last : j <= k
  <2> HIDE DEF Last
  <2> QED BY <1>3, NatGreatest
<1>5. \A j \in S \ {k} : Before(L, j, k)
  <2> SUFFICES ASSUME NEW j \in S \ {k}
               PROVE  Before(L, j, k)
    OBVIOUS
  <2>1. L[j].at \in Nat /\ L[k].at = t /\ t \in Nat /\ j \in Nat /\ k \in Nat
    BY <1>1, <1>2, <1>4
  <2>2. L[j].at <= t
    BY <1>2
  <2>3. CASE L[j].at = t
    <3>1. j <= k
      BY <2>3, <1>4
    <3> QED BY <3>1, <2>1, <2>3 DEF Before
  <2>4. CASE L[j].at # t
    BY <2>1, <2>2, <2>4 DEF Before
  <2> QED BY <2>3, <2>4
<1>6. \E i \in S : \A j \in S \ {i} : Before(L, j, i)
  BY <1>4, <1>5
<1>7. QED
  BY <1>6 DEF Latest

\* A set of two or more has two different members.
LEMMA TwoMembers ==
  ASSUME NEW T, Cardinality(T) >= 2
  PROVE  \E x, y \in T : x # y
<1> SUFFICES ASSUME \A x, y \in T : x = y
             PROVE  FALSE
  OBVIOUS
<1>1. CASE T = {}
  BY <1>1, FS_EmptySet
<1>2. CASE T # {}
  <2>1. PICK x \in T : T = {x}
    BY <1>2
  <2>2. Cardinality(T) = 1
    BY <2>1, FS_Singleton
  <2> QED BY <2>2
<1>3. QED
  BY <1>1, <1>2

-----------------------------------------------------------------------------
\* Whoever asserts a decisive word, it is not a dismissal.
LEMMA DecisiveIsNoDismissal ==
  ASSUME NEW n \in Nat, NEW m \in Nat, NEW L,
         NEW S \in SUBSET (1 .. n),
         \A i \in S : L[i].at \in 0 .. m,
         Decisive(L, S) # {}
  PROVE  LastWord(L, Decisive(L, S)) # "false_positive"
<1>1. Decisive(L, S) \in SUBSET S
  BY DEF Decisive, Class, Spoken
<1>4. Decisive(L, S) \in SUBSET (1 .. n) /\ \A i \in Decisive(L, S) : L[i].at \in 0 .. m
  BY <1>1
<1>2. Latest(L, Decisive(L, S)) \in Decisive(L, S)
  BY <1>4, LatestIsLast
<1>3. QED
  BY <1>1, <1>2 DEF Decisive, Saying, LastWord

\* A dismissal against proof rests on two different verified signers, each
\* of whom dismissed the finding later than every execution that decided it.
LEMMA TwoSigners ==
  ASSUME NEW n \in Nat, NEW m \in Nat, NEW L, NEW base,
         NEW S \in SUBSET (1 .. n),
         \A i \in S : L[i].at \in 0 .. m,
         Validity(base, L, S) = "false_positive",
         Decisive(L, S) # {}
  PROVE  \E i, k \in Reassertions(L, S) :
            /\ L[i].who # L[k].who
            /\ L[i].verified /\ L[k].verified
            /\ \A j \in Decisive(L, S) : L[j].at < L[i].at /\ L[j].at < L[k].at
<1>1. TwoPersonRule(L, S)
  BY DecisiveIsNoDismissal DEF Validity
<1>2. PICK x, y \in PostProofSigners(L, S) : x # y
  BY <1>1, TwoMembers DEF TwoPersonRule
<1>3. PICK i \in Reassertions(L, S) : L[i].verified /\ L[i].who = x
  BY <1>2 DEF PostProofSigners
<1>4. PICK k \in Reassertions(L, S) : L[k].verified /\ L[k].who = y
  BY <1>2 DEF PostProofSigners
<1>5. ASSUME NEW p \in Reassertions(L, S), NEW j \in Decisive(L, S)
      PROVE  L[j].at < L[p].at
  <2> DEFINE d == Latest(L, Decisive(L, S))
  <2>1. Decisive(L, S) \in SUBSET S /\ Reassertions(L, S) \in SUBSET S
    BY DEF Decisive, Class, Spoken, Reassertions, HumanDismissals
  <2>2. d \in Decisive(L, S) /\ \A q \in Decisive(L, S) \ {d} : Before(L, q, d)
    <3>1. Decisive(L, S) \in SUBSET (1 .. n) /\ \A q \in Decisive(L, S) : L[q].at \in 0 .. m
      BY <2>1
    <3> QED BY <3>1, LatestIsLast
  <2>3. L[d].at < L[p].at
    BY DEF Reassertions
  <2> HIDE DEF d
  <2>5. L[j].at \in 0 .. m /\ L[d].at \in 0 .. m /\ L[p].at \in 0 .. m
    BY <2>1, <2>2
  <2>4. L[j].at <= L[d].at
    <3>1. CASE j = d
      BY <2>5, <3>1
    <3>2. CASE j # d
      BY <2>2, <2>5, <3>2 DEF Before
    <3> QED BY <3>1, <3>2
  <2> QED BY <2>3, <2>4, <2>5
<1>6. QED
  BY <1>2, <1>3, <1>4, <1>5

\* Without proof, a derived dismissal rests on a human one, or on an
\* auto-accepted machine one.
LEMMA SomeoneDismissed ==
  ASSUME NEW n \in Nat, NEW m \in Nat, NEW L,
         NEW base, base # "false_positive",
         NEW S \in SUBSET (1 .. n),
         \A i \in S : L[i].at \in 0 .. m,
         Validity(base, L, S) = "false_positive",
         Decisive(L, S) = {}
  PROVE  \/ HumanDismissals(L, S) # {}
         \/ \E i \in S : L[i].validity = "false_positive" /\ L[i].auto
<1> DEFINE human   == Class(L, S, 2)
           machine == Class(L, S, 3)
           last    == L[Latest(L, machine)]
<1>1. human \in SUBSET S /\ machine \in SUBSET S
  BY DEF Class, Spoken
<1>2. StaticValidity(base, L, S) = "false_positive"
  BY DEF Validity
<1>3. CASE human # {}
  <2>1. LastWord(L, human) = "false_positive"
    BY <1>2, <1>3 DEF StaticValidity
  <2>2. Latest(L, human) \in human
    <3>1. human \in SUBSET (1 .. n) /\ \A i \in human : L[i].at \in 0 .. m
      BY <1>1
    <3> QED BY <1>3, <3>1, LatestIsLast
  <2>3. Latest(L, human) \in HumanDismissals(L, S)
    BY <1>1, <2>1, <2>2 DEF HumanDismissals, Saying, LastWord
  <2> QED BY <2>3
<1>4. CASE human = {} /\ machine # {}
  <2>1. Latest(L, machine) \in machine
    BY <1>1, <1>4, LatestIsLast
  <2>2. last.validity = "false_positive" /\ last.auto
    BY <1>2, <1>4 DEF StaticValidity
  <2> QED BY <1>1, <2>1, <2>2
<1>5. CASE human = {} /\ machine = {}
  BY <1>2, <1>5 DEF StaticValidity
<1>6. QED
  BY <1>3, <1>4, <1>5

-----------------------------------------------------------------------------
(* 2. The log.                                                             *)

\* Who can say what: only a signer with a verified token speaks on validity
\* as a human, and only triage carries the auto-accept mark.
Attributed(e) ==
  /\ e.kind = "human" /\ e.validity # NoValue => e.who \in Humans /\ e.verified
  /\ e.auto => e.src = "triage_report"

AllAttributed ==
  /\ \A i \in DOMAIN log : Attributed(log[i])
  /\ \A r \in Runs : run[r].step # "idle" => Attributed(run[r].ev)

IInv == TypeOK /\ AllAttributed /\ NoDuplicateEvents

-----------------------------------------------------------------------------
\* Each kind of run builds well-formed, attributable events.
LEMMA TriageBuilds ==
  ASSUME NEW f \in Findings, NEW v \in TriageVerdicts, NEW t \in 0 .. MaxTime
  PROVE  TriageEvent(f, v, t) \in Event /\ Attributed(TriageEvent(f, v, t))
<1>1. TriageValidity[v] \in Validities
  BY VocabularyAssumption DEF TriageValidity, Validities
<1>2. (v = "auto_false_positive") \in BOOLEAN
  OBVIOUS
<1>3. QED
  BY <1>1, <1>2 DEF TriageEvent, MachineEvent, Event, Attributed, Authors, Machines,
     NoValue, SourceTypes

LEMMA ValidationBuilds ==
  ASSUME NEW d \in Reports, NEW f \in Findings, NEW v, NEW t \in 0 .. MaxTime
  PROVE  ValidationEvent(d, f, v, t) \in Event /\ Attributed(ValidationEvent(d, f, v, t))
BY BoundsAssumption
   DEF ValidationEvent, MachineEvent, Event, Attributed, Authors, Machines,
       NoValue, Validities, SourceTypes, Grades

LEMMA VerificationBuilds ==
  ASSUME NEW d \in Reports, NEW f \in Findings, NEW t \in 0 .. MaxTime,
         NEW v \in DOMAIN VerdictResolution \cup {"false_positive"}
  PROVE  VerificationEvent(d, f, v, t) \in Event /\ Attributed(VerificationEvent(d, f, v, t))
<1>1. v # "false_positive" => VerdictResolution[v] \in Resolutions
  BY DEF VerdictResolution, Resolutions
<1>2. CASE v = "false_positive"
  BY <1>2, BoundsAssumption DEF VerificationEvent, MachineEvent, Event, Attributed, Authors,
     Machines, NoValue, Validities, SourceTypes
<1>3. CASE v # "false_positive"
  BY <1>1, <1>3, BoundsAssumption DEF VerificationEvent, MachineEvent, Event, Attributed,
     Authors, Machines, NoValue, SourceTypes
<1>4. QED
  BY <1>2, <1>3

LEMMA JiraBuilds ==
  ASSUME NEW d \in Reports, NEW f \in Findings, NEW t \in 0 .. MaxTime
  PROVE  JiraEvent(d, f, t) \in Event /\ Attributed(JiraEvent(d, f, t))
BY BoundsAssumption
   DEF JiraEvent, MachineEvent, Event, Attributed, Authors, Machines,
       NoValue, Resolutions, SourceTypes

LEMMA SignatureBuilds ==
  ASSUME NEW h \in Humans, NEW f \in Findings, NEW d \in Decisions, NEW t \in 0 .. MaxTime
  PROVE  SignedEvent(h, f, d, t) \in Event /\ Attributed(SignedEvent(h, f, d, t))
<1>1. t \div DayLength \in Nat
  BY DayAssumption
<1>2. QED
  BY <1>1 DEF SignedEvent, MachineEvent, Event, Attributed, Authors, Machines,
     NoValue, Validities, Severities, SourceTypes

-----------------------------------------------------------------------------
LEMMA InitEstablishes == Init => IInv
<1> SUFFICES ASSUME Init PROVE IInv
  OBVIOUS
<1> USE DEF Init
<1>1. TypeOK
  BY BoundsAssumption DEF TypeOK, RunState
<1>2. AllAttributed
  BY DEF AllAttributed, Idle
<1>3. NoDuplicateEvents
  BY DEF NoDuplicateEvents
<1>4. QED
  BY <1>1, <1>2, <1>3 DEF IInv

\* Starting a run with a well-formed, attributable event.
LEMMA StartPreserves ==
  ASSUME IInv, NEW r \in Runs, NEW e \in Event, Attributed(e), Start(r, e)
  PROVE  IInv'
<1> USE DEF Start, IInv
<1>1. run' \in [Runs -> RunState]
  BY DEF TypeOK, RunState, Built
<1>2. TypeOK'
  BY <1>1 DEF TypeOK
<1>3. AllAttributed'
  BY DEF AllAttributed, TypeOK, Built, Attributed
<1>4. NoDuplicateEvents'
  BY DEF NoDuplicateEvents, EventId
<1>5. QED
  BY <1>2, <1>3, <1>4

LEMMA RestampPreserves ==
  ASSUME IInv, NEW r \in Runs, Restamp(r)
  PROVE  IInv'
<1> USE DEF IInv
<1>1. PICK t \in StampsWith(run[r].ev) :
         run' = [run EXCEPT ![r] = Stamped([run[r].ev EXCEPT !.at = t])]
  BY DEF Restamp
<1>2. run[r].ev \in Event /\ Attributed(run[r].ev)
  BY DEF Restamp, TypeOK, RunState, Idle, AllAttributed
<1>3. t \in 0 .. MaxTime
  <2>1. \A i \in DOMAIN log : log[i].at \in 0 .. MaxTime
    <3>1. \A i \in DOMAIN log : log[i] \in Event
      BY DEF TypeOK
    <3> QED BY <3>1 DEF Event
  <2>2. run[r].ev.at \in 0 .. MaxTime
    BY <1>2 DEF Event
  <2> QED BY <2>1, <2>2 DEF StampsWith
<1>4. [run[r].ev EXCEPT !.at = t] \in Event /\ Attributed([run[r].ev EXCEPT !.at = t])
  BY <1>2, <1>3 DEF Event, Attributed
<1>5. TypeOK'
  BY <1>1, <1>4 DEF TypeOK, RunState, Stamped, Restamp
<1>6. AllAttributed'
  BY <1>1, <1>4 DEF AllAttributed, TypeOK, Stamped, Restamp, Attributed
<1>7. NoDuplicateEvents'
  BY DEF NoDuplicateEvents, EventId, Restamp
<1>8. QED
  BY <1>5, <1>6, <1>7

LEMMA SubmitPreserves ==
  ASSUME IInv, NEW r \in Runs, Submit(r)
  PROVE  IInv'
<1> USE DEF IInv
<1> DEFINE e == run[r].ev
<1>1. e \in Event /\ Attributed(e)
  BY DEF Submit, TypeOK, RunState, Idle, AllAttributed
<1>2. run' = [run EXCEPT ![r] = Idle] /\ now' = now
  BY DEF Submit
<1>3. run' \in [Runs -> RunState]
  BY <1>2 DEF TypeOK, RunState
<1>4. word' \in [Findings -> [Authors -> Event \cup {Nothing}]]
  BY <1>1 DEF Submit, TypeOK, Event
<1>5. \A q \in Runs : run'[q].step # "idle" => Attributed(run'[q].ev)
  BY <1>2 DEF AllAttributed, TypeOK, Idle
<1>6. CASE Fresh(e)
  <2>1. log' = Append(log, e)
    BY <1>6 DEF Submit
  <2>2. log \in Seq(Event)
    BY DEF TypeOK
  <2>3. /\ Len(log') = Len(log) + 1
        /\ DOMAIN log' = DOMAIN log \cup {Len(log) + 1}
        /\ \A i \in DOMAIN log : log'[i] = log[i]
        /\ log'[Len(log) + 1] = e
        /\ log' \in Seq(Event)
    <3> HIDE DEF e
    <3> QED BY <1>1, <2>1, <2>2
  <2>4. TypeOK'
    BY <1>2, <1>3, <1>4, <2>3 DEF TypeOK
  <2>5. AllAttributed'
    <3> HIDE DEF e
    <3> QED BY <1>1, <1>5, <2>3 DEF AllAttributed, Attributed
  <2>6. NoDuplicateEvents'
    <3> HIDE DEF e
    <3>1. \A i \in DOMAIN log : EventId(log'[i]) = EventId(log[i])
      BY <2>3
    <3>2. \A i \in DOMAIN log : EventId(log'[i]) # EventId(log'[Len(log) + 1])
      BY <1>6, <2>3, <3>1 DEF Fresh
    <3>3. SUFFICES ASSUME NEW i \in DOMAIN log', NEW j \in DOMAIN log',
                          EventId(log'[i]) = EventId(log'[j])
                   PROVE  i = j
      BY DEF NoDuplicateEvents, EventId
    <3>4. CASE i \in DOMAIN log /\ j \in DOMAIN log
      BY <3>1, <3>3, <3>4 DEF NoDuplicateEvents
    <3>5. CASE i = Len(log) + 1 \/ j = Len(log) + 1
      BY <2>3, <3>2, <3>3, <3>5
    <3> QED BY <2>3, <3>4, <3>5
  <2> QED BY <2>4, <2>5, <2>6
<1>7. CASE ~ Fresh(e)
  <2>1. log' = log
    BY <1>7 DEF Submit
  <2>2. TypeOK'
    BY <1>2, <1>3, <1>4, <2>1 DEF TypeOK
  <2>3. AllAttributed'
    BY <1>5, <2>1 DEF AllAttributed, Attributed
  <2>4. NoDuplicateEvents'
    BY <2>1 DEF NoDuplicateEvents, EventId
  <2> QED BY <2>2, <2>3, <2>4
<1>8. QED
  BY <1>6, <1>7

LEMMA CrashPreserves ==
  ASSUME IInv, NEW r \in Runs, Crash(r)
  PROVE  IInv'
<1> USE DEF IInv, Crash
<1>1. TypeOK'
  BY DEF TypeOK, RunState
<1>2. AllAttributed'
  BY DEF AllAttributed, TypeOK, Idle, Attributed
<1>3. NoDuplicateEvents'
  BY DEF NoDuplicateEvents, EventId
<1>4. QED
  BY <1>1, <1>2, <1>3

LEMMA TickPreserves ==
  ASSUME IInv, Tick
  PROVE  IInv'
BY BoundsAssumption
   DEF IInv, Tick, TypeOK, AllAttributed, Attributed, NoDuplicateEvents, EventId

LEMMA StepPreserves == IInv /\ [Next]_vars => IInv'
<1> SUFFICES ASSUME IInv, [Next]_vars PROVE IInv'
  OBVIOUS
<1>t. now \in 0 .. MaxTime
  BY DEF IInv, TypeOK
<1>1. CASE Tick
  BY <1>1, TickPreserves
<1>2. ASSUME NEW r \in Runs, Triage(r) PROVE IInv'
  BY <1>t, <1>2, TriageBuilds, StartPreserves DEF Triage
<1>3. ASSUME NEW r \in Runs, Validate(r) PROVE IInv'
  BY <1>t, <1>3, ValidationBuilds, StartPreserves DEF Validate
<1>4. ASSUME NEW r \in Runs, Verify(r) PROVE IInv'
  BY <1>t, <1>4, VerificationBuilds, StartPreserves DEF Verify
<1>5. ASSUME NEW r \in Runs, IngestJira(r) PROVE IInv'
  BY <1>t, <1>5, JiraBuilds, StartPreserves DEF IngestJira
<1>6. ASSUME NEW r \in Runs, Countersign(r) PROVE IInv'
  BY <1>t, <1>6, SignatureBuilds, StartPreserves DEF Countersign
<1>7. ASSUME NEW r \in Runs, Restamp(r) PROVE IInv'
  BY <1>7, RestampPreserves
<1>8. ASSUME NEW r \in Runs, Submit(r) PROVE IInv'
  BY <1>8, SubmitPreserves
<1>9. ASSUME NEW r \in Runs, Crash(r) PROVE IInv'
  BY <1>9, CrashPreserves
<1>10. CASE UNCHANGED vars
  BY <1>10 DEF vars, IInv, TypeOK, AllAttributed, Attributed, NoDuplicateEvents, EventId
<1>11. QED
  BY <1>1, <1>2, <1>3, <1>4, <1>5, <1>6, <1>7, <1>8, <1>9, <1>10 DEF Next

-----------------------------------------------------------------------------
\* What the invariant says of one finding's events, in the terms of
\* the lemmas on the merge rules.
LEMMA PositionsOf ==
  ASSUME IInv, NEW f \in Findings
  PROVE  /\ Len(log) \in Nat
         /\ Of(f) \in SUBSET (1 .. Len(log))
         /\ \A i \in Of(f) : log[i] \in Event /\ Attributed(log[i])
         /\ \A i \in Of(f) : log[i].at \in 0 .. MaxTime
<1>1. log \in Seq(Event)
  BY DEF IInv, TypeOK
<1>2. DOMAIN log = 1 .. Len(log) /\ Len(log) \in Nat
  BY <1>1
<1>3. \A i \in DOMAIN log : log[i] \in Event
  BY <1>1
<1>4. \A i \in DOMAIN log : log[i].at \in 0 .. MaxTime
  BY <1>3 DEF Event
<1>5. QED
  BY <1>2, <1>3, <1>4 DEF Of, EventsOf, IInv, AllAttributed

\* A human word on validity is a verified signer's.
LEMMA HumanWordIsSigned ==
  ASSUME IInv, NEW f \in Findings, NEW i \in HumanDismissals(log, Of(f))
  PROVE  /\ i \in Of(f)
         /\ log[i].who \in Humans
         /\ log[i].verified
         /\ log[i].validity = "false_positive"
<1>1. i \in Of(f) /\ log[i].validity = "false_positive" /\ EventClass(log[i]) = 2
  BY DEF HumanDismissals, Class, Spoken, Saying
<1>2. log[i].kind = "human"
  BY <1>1 DEF EventClass
<1>3. QED
  BY <1>1, <1>2, PositionsOf DEF Attributed, NoValue

LEMMA Accountable == IInv => DismissalIsAccountable
<1> SUFFICES ASSUME IInv, NEW f \in Findings, Dismissed(f)
             PROVE  \/ \E i \in Of(f) : /\ log[i].who \in Humans /\ log[i].verified
                                        /\ log[i].validity = "false_positive"
                    \/ /\ Decisive(log, Of(f)) = {}
                       /\ \E i \in Of(f) : log[i].src = "triage_report" /\ log[i].auto
  BY DEF DismissalIsAccountable
<1>1. MaxTime \in Nat /\ Base # "false_positive"
  BY BoundsAssumption, BaseAssumption
<1>2. CASE Decisive(log, Of(f)) = {}
  <2>1. \/ HumanDismissals(log, Of(f)) # {}
        \/ \E i \in Of(f) : log[i].validity = "false_positive" /\ log[i].auto
    BY <1>1, <1>2, PositionsOf, SomeoneDismissed DEF Dismissed
  <2>2. CASE HumanDismissals(log, Of(f)) # {}
    BY <2>2, HumanWordIsSigned
  <2>3. CASE \E i \in Of(f) : log[i].auto
    BY <1>2, <2>3, PositionsOf DEF Attributed
  <2> QED BY <2>1, <2>2, <2>3
<1>3. CASE Decisive(log, Of(f)) # {}
  <2>1. PICK i \in Reassertions(log, Of(f)) : TRUE
    BY <1>1, <1>3, PositionsOf, TwoSigners DEF Dismissed
  <2>2. i \in HumanDismissals(log, Of(f))
    BY DEF Reassertions
  <2> QED BY <2>2, HumanWordIsSigned
<1>4. QED
  BY <1>2, <1>3

LEMMA Outranked == IInv => ProofOutranksOnePerson
<1> SUFFICES ASSUME IInv, NEW f \in Findings, Dismissed(f), Decisive(log, Of(f)) # {}
             PROVE  \E h, g \in Humans : h # g /\ \A p \in {h, g} :
                       \E i \in Of(f) : /\ log[i].who = p
                                       /\ log[i].validity = "false_positive"
                                       /\ \A j \in Decisive(log, Of(f)) : log[j].at < log[i].at
  BY DEF ProofOutranksOnePerson
<1>1. MaxTime \in Nat
  BY BoundsAssumption
<1>2. PICK i \in Reassertions(log, Of(f)), k \in Reassertions(log, Of(f)) :
         /\ log[i].who # log[k].who
         /\ \A j \in Decisive(log, Of(f)) : log[j].at < log[i].at /\ log[j].at < log[k].at
  BY <1>1, PositionsOf, TwoSigners DEF Dismissed
<1>3. i \in HumanDismissals(log, Of(f)) /\ k \in HumanDismissals(log, Of(f))
  BY DEF Reassertions
<1>4. QED
  BY <1>2, <1>3, HumanWordIsSigned

-----------------------------------------------------------------------------
\* However the writers interleave and crash, the layer stays well typed.
THEOREM TypeCorrect == Spec => []TypeOK
<1>1. Spec => []IInv
  BY InitEstablishes, StepPreserves, PTL DEF Spec
<1>2. IInv => TypeOK
  BY DEF IInv
<1>3. QED
  BY <1>1, <1>2, PTL

\* Re-ingesting is idempotent: no event_id is ever in the layer twice.
THEOREM Idempotence == Spec => []NoDuplicateEvents
<1>1. Spec => []IInv
  BY InitEstablishes, StepPreserves, PTL DEF Spec
<1>2. IInv => NoDuplicateEvents
  BY DEF IInv
<1>3. QED
  BY <1>1, <1>2, PTL

\* Machines never dismiss on their own authority, the auto-accept bar of
\* triage excepted.
THEOREM Accountability == Spec => []DismissalIsAccountable
<1>1. Spec => []IInv
  BY InitEstablishes, StepPreserves, PTL DEF Spec
<1>2. QED
  BY <1>1, Accountable, PTL

\* The two-person rule: a finding proven by execution is dismissed only by
\* two different people who both spoke after the proof.
THEOREM TwoPersons == Spec => []ProofOutranksOnePerson
<1>1. Spec => []IInv
  BY InitEstablishes, StepPreserves, PTL DEF Spec
<1>2. QED
  BY <1>1, Outranked, PTL

-----------------------------------------------------------------------------
(* 3. The layer implements Lifecycle.                                      *)

\* M is L with one more event at position n + 1, seen from the events S of
\* one finding.
Extends(n, m, L, M, S) ==
  /\ n \in Nat /\ m \in Nat /\ S \in SUBSET (1 .. n)
  /\ \A i \in S : M[i] = L[i]
  /\ \A i \in S \cup {n + 1} : M[i].at \in 0 .. m

\* What the writers of this repository put in an event.
Shaped(e) ==
  /\ EventClass(e) = 1 => e.validity \in {NoValue, "confirmed", "false_positive"}
  /\ EventClass(e) = 2 /\ e.validity # NoValue =>
       e.verified /\ e.who \in Humans /\ e.validity \in {"confirmed", "false_positive"}
  /\ EventClass(e) = 3 /\ e.src # "triage_report" => e.validity \in {NoValue, "confirmed"}
  /\ e.auto => /\ e.validity = "false_positive" /\ EventClass(e) = 3
               /\ EventId(e) = <<"triage_report", 0, "triage_report", e.ref,
                                 "false_positive", NoValue, NoValue>>

StaticallyDismissed(L, S) ==
  \/ /\ Class(L, S, 2) # {}
     /\ L[Latest(L, Class(L, S, 2))].validity = "false_positive"
  \/ /\ Class(L, S, 2) = {} /\ Class(L, S, 3) # {}
     /\ L[Latest(L, Class(L, S, 3))].validity = "false_positive"
     /\ L[Latest(L, Class(L, S, 3))].auto

\* Two people re-asserted the dismissal.
TwoVoices(L, S) ==
  \E i, k \in Reassertions(L, S) : L[i].who # L[k].who

-----------------------------------------------------------------------------
(* The last event of a set, and of the set with one more.                  *)

LEMMA LatestIsUnique ==
  ASSUME NEW n \in Nat, NEW m \in Nat, NEW L, NEW S \in SUBSET (1 .. n),
         \A i \in S : L[i].at \in 0 .. m,
         NEW x \in S, \A j \in S \ {x} : Before(L, j, x)
  PROVE  Latest(L, S) = x
<1> DEFINE y == Latest(L, S)
<1>1. y \in S /\ \A j \in S \ {y} : Before(L, j, y)
  BY LatestIsLast
<1> HIDE DEF y
<1>2. SUFFICES ASSUME y # x PROVE FALSE
  BY DEF y
<1>3. Before(L, x, y) /\ Before(L, y, x)
  BY <1>1, <1>2
<1>4. x \in Nat /\ y \in Nat /\ L[x].at \in Nat /\ L[y].at \in Nat
  BY <1>1
<1>5. QED
  BY <1>3, <1>4 DEF Before

LEMMA LatestAgrees ==
  ASSUME NEW n \in Nat, NEW m \in Nat, NEW L, NEW M, NEW Q \in SUBSET (1 .. n), Q # {},
         \A i \in Q : M[i] = L[i], \A i \in Q : L[i].at \in 0 .. m
  PROVE  Latest(M, Q) = Latest(L, Q)
<1>1. Latest(L, Q) \in Q /\ \A j \in Q \ {Latest(L, Q)} : Before(L, j, Latest(L, Q))
  BY LatestIsLast
<1> DEFINE x == Latest(L, Q)
<1> HIDE DEF x
<1>2. x \in Q /\ \A j \in Q \ {x} : Before(M, j, x)
  BY <1>1 DEF x, Before
<1>3. \A i \in Q : M[i].at \in 0 .. m
  OBVIOUS
<1>4. Latest(M, Q) = x
  BY <1>2, <1>3, LatestIsUnique
<1>5. QED
  BY <1>4 DEF x

LEMMA LatestGrows ==
  ASSUME NEW n, NEW m, NEW L, NEW M, NEW S, Extends(n, m, L, M, S),
         NEW Q \in SUBSET S
  PROVE  LET y == Latest(M, Q \cup {n + 1})
         IN  /\ y = n + 1 \/ (Q # {} /\ y = Latest(L, Q) /\ y \in Q)
             /\ Q # {} => L[Latest(L, Q)].at <= M[y].at
<1> DEFINE P == Q \cup {n + 1}
           y == Latest(M, P)
           x == Latest(L, Q)
<1>1. n \in Nat /\ m \in Nat /\ n + 1 \in Nat /\ n + 1 \notin S /\ n + 1 \notin Q
  BY DEF Extends
<1>2. P \in SUBSET (1 .. n + 1) /\ P # {} /\ \A i \in P : M[i].at \in 0 .. m
  BY <1>1 DEF Extends
<1>3. y \in P /\ \A j \in P \ {y} : Before(M, j, y)
  <2> HIDE DEF P
  <2> QED BY <1>1, <1>2, LatestIsLast
<1>4. Q \in SUBSET (1 .. n) /\ \A i \in Q : M[i] = L[i] /\ L[i].at \in 0 .. m
  BY DEF Extends
<1>5. Q # {} => x \in Q
  BY <1>1, <1>4, LatestIsLast
<1>6. y # n + 1 => y \in Q /\ y = x
  <2> SUFFICES ASSUME y # n + 1 PROVE y \in Q /\ y = x
    OBVIOUS
  <2>1. y \in Q
    BY <1>3
  <2>2. \A j \in Q \ {y} : Before(M, j, y)
    BY <1>3
  <2> HIDE DEF y
  <2>3. \A j \in Q \ {y} : Before(L, j, y)
    BY <1>4, <2>1, <2>2 DEF Before
  <2>4. QED
    BY <1>1, <1>4, <2>1, <2>3, LatestIsUnique
<1>7. Q # {} => L[x].at <= M[y].at
  <2> SUFFICES ASSUME Q # {} PROVE L[x].at <= M[y].at
    OBVIOUS
  <2>1. x \in Q /\ x \in P /\ M[x] = L[x] /\ M[x].at \in 0 .. m /\ M[y].at \in 0 .. m
    BY <1>2, <1>3, <1>4, <1>5
  <2>2. CASE x = y
    BY <2>1, <2>2
  <2>3. CASE x # y
    <3>1. Before(M, x, y)
      BY <1>3, <2>1, <2>3
    <3> HIDE DEF x, y
    <3>2. QED BY <2>1, <3>1 DEF Before
  <2>4. QED BY <2>2, <2>3
<1>8. QED
  BY <1>3, <1>6, <1>7

-----------------------------------------------------------------------------
(* The sets of a derivation, with one more event.                          *)

LEMMA SetsAgree ==
  ASSUME NEW n, NEW m, NEW L, NEW M, NEW S, Extends(n, m, L, M, S)
  PROVE  /\ \A c : Class(M, S, c) = Class(L, S, c)
         /\ Decisive(M, S) = Decisive(L, S)
         /\ HumanDismissals(M, S) = HumanDismissals(L, S)
         /\ {M[i].who : i \in HumanDismissals(M, S)} = {L[i].who : i \in HumanDismissals(L, S)}
<1>1. \A i \in S : M[i] = L[i]
  BY DEF Extends
<1>2. Spoken(M, S) = Spoken(L, S)
  BY <1>1 DEF Spoken
<1>3. \A v : Saying(M, S, v) = Saying(L, S, v)
  BY <1>1 DEF Saying
<1>4. \A c : Class(M, S, c) = Class(L, S, c)
  BY <1>1, <1>2 DEF Class, Spoken
<1>5. Decisive(M, S) = Decisive(L, S)
  BY <1>3, <1>4 DEF Decisive
<1>6. HumanDismissals(M, S) = HumanDismissals(L, S)
  BY <1>3, <1>4 DEF HumanDismissals
<1>7. HumanDismissals(L, S) \subseteq S
  BY DEF HumanDismissals, Saying
<1>8. QED
  BY <1>1, <1>4, <1>5, <1>6, <1>7

LEMMA SetsGrow ==
  ASSUME NEW n, NEW m, NEW L, NEW M, NEW S, Extends(n, m, L, M, S),
         NEW e, e = M[n + 1], NEW T, T = S \cup {n + 1}
  PROVE  /\ \A c \in {2, 3} :
               /\ EventClass(e) = c /\ e.validity # NoValue =>
                    Class(M, T, c) = Class(L, S, c) \cup {n + 1}
               /\ ~(EventClass(e) = c /\ e.validity # NoValue) =>
                    Class(M, T, c) = Class(L, S, c)
         /\ EventClass(e) = 1 /\ e.validity \notin {NoValue, "false_positive"} =>
              Decisive(M, T) = Decisive(L, S) \cup {n + 1}
         /\ ~(EventClass(e) = 1 /\ e.validity \notin {NoValue, "false_positive"}) =>
              Decisive(M, T) = Decisive(L, S)
         /\ EventClass(e) = 2 /\ e.validity = "false_positive" =>
              HumanDismissals(M, T) = HumanDismissals(L, S) \cup {n + 1}
         /\ ~(EventClass(e) = 2 /\ e.validity = "false_positive") =>
              HumanDismissals(M, T) = HumanDismissals(L, S)
<1> DEFINE spoken == e.validity # NoValue
           fp == e.validity = "false_positive"
<1>1. n + 1 \notin S
  BY DEF Extends
<1>2. /\ \A c : Class(M, S, c) = Class(L, S, c)
      /\ Decisive(M, S) = Decisive(L, S)
      /\ HumanDismissals(M, S) = HumanDismissals(L, S)
  BY SetsAgree
<1>3. \A c : Class(M, T, c) = Class(M, S, c) \cup
                 (IF spoken /\ EventClass(e) = c THEN {n + 1} ELSE {})
  BY DEF Class, Spoken
<1>4. Saying(M, T, "false_positive") = Saying(M, S, "false_positive") \cup
                 (IF fp THEN {n + 1} ELSE {})
  BY DEF Saying
<1>5. fp => spoken
  BY DEF NoValue
<1>6. Class(M, S, 1) \subseteq S /\ Class(M, S, 2) \subseteq S
      /\ Saying(M, S, "false_positive") \subseteq S
  BY DEF Class, Spoken, Saying
<1> HIDE DEF spoken, fp
<1>7. Decisive(M, T) = Decisive(M, S) \cup
                 (IF spoken /\ EventClass(e) = 1 /\ ~fp THEN {n + 1} ELSE {})
  BY <1>1, <1>3, <1>4, <1>6 DEF Decisive
<1>8. HumanDismissals(M, T) = HumanDismissals(M, S) \cup
                 (IF EventClass(e) = 2 /\ fp THEN {n + 1} ELSE {})
  BY <1>1, <1>3, <1>4, <1>5, <1>6 DEF HumanDismissals
<1>9. \A c \in {2, 3} :
        /\ EventClass(e) = c /\ spoken => Class(M, T, c) = Class(L, S, c) \cup {n + 1}
        /\ ~(EventClass(e) = c /\ spoken) => Class(M, T, c) = Class(L, S, c)
  BY <1>2, <1>3
<1>10. /\ EventClass(e) = 1 /\ spoken /\ ~fp => Decisive(M, T) = Decisive(L, S) \cup {n + 1}
       /\ ~(EventClass(e) = 1 /\ spoken /\ ~fp) => Decisive(M, T) = Decisive(L, S)
  BY <1>2, <1>7
<1>11. /\ EventClass(e) = 2 /\ fp => HumanDismissals(M, T) = HumanDismissals(L, S) \cup {n + 1}
       /\ ~(EventClass(e) = 2 /\ fp) => HumanDismissals(M, T) = HumanDismissals(L, S)
  BY <1>2, <1>8
<1>12. QED
  BY <1>9, <1>10, <1>11 DEF spoken, fp

-----------------------------------------------------------------------------
(* When a finding is dismissed.                                            *)

LEMMA WhoIsFinite ==
  ASSUME NEW L, NEW R, IsFiniteSet(R)
  PROVE  IsFiniteSet({L[i].who : i \in R})
<1> DEFINE T == {L[i].who : i \in R}
           f == [i \in R |-> L[i].who]
<1>1. f \in Surjection(R, T)
  BY DEF Surjection
<1> HIDE DEF T, f
<1>2. QED
  BY <1>1, FS_Surjection DEF T

LEMMA PairHasTwo ==
  ASSUME NEW a, NEW b, a # b
  PROVE  Cardinality({a, b}) = 2
<1>1. IsFiniteSet({a}) /\ Cardinality({a}) = 1
  BY FS_Singleton
<1>2. {a, b} = {a} \cup {b} /\ b \notin {a}
  OBVIOUS
<1>3. Cardinality({a} \cup {b}) = 1 + 1
  BY <1>1, <1>2, FS_AddElement
<1>4. QED
  BY <1>2, <1>3

LEMMA SignersAreTwo ==
  ASSUME NEW n \in Nat, NEW L, NEW S \in SUBSET (1 .. n),
         \A i \in S : Shaped(L[i])
  PROVE  TwoPersonRule(L, S) <=> TwoVoices(L, S)
<1> DEFINE R == Reassertions(L, S)
<1>1. R \in SUBSET S /\ \A i \in R : EventClass(L[i]) = 2 /\ L[i].validity = "false_positive"
  BY DEF Reassertions, HumanDismissals, Class, Spoken, Saying
<1>2. \A i \in R : L[i].verified
  BY <1>1 DEF Shaped, NoValue
<1>3. PostProofSigners(L, S) = {L[i].who : i \in R}
  BY <1>2, Zenon DEF PostProofSigners
<1>4. ASSUME TwoPersonRule(L, S) PROVE TwoVoices(L, S)
  <2>1. PICK x, y \in PostProofSigners(L, S) : x # y
    BY <1>4, TwoMembers DEF TwoPersonRule
  <2>2. QED BY <1>3, <2>1 DEF TwoVoices
<1>5. ASSUME TwoVoices(L, S) PROVE TwoPersonRule(L, S)
  <2>1. PICK i \in R, k \in R : L[i].who # L[k].who
    BY <1>5 DEF TwoVoices
  <2>2. IsFiniteSet(R)
    <3>1. R \in SUBSET (1 .. n)
      BY <1>1
    <3>2. IsFiniteSet(1 .. n)
      BY FS_Interval
    <3> HIDE DEF R
    <3> QED BY <3>1, <3>2, FS_Subset
  <2>3. IsFiniteSet({L[j].who : j \in R})
    <3> HIDE DEF R
    <3>1. QED BY <2>2, WhoIsFinite
  <2>4. {L[i].who, L[k].who} \in SUBSET {L[j].who : j \in R}
    BY <2>1
  <2>5. Cardinality({L[i].who, L[k].who}) = 2
    BY <2>1, PairHasTwo
  <2>6. Cardinality({L[j].who : j \in R}) >= 2
    <3> HIDE DEF R
    <3>1. Cardinality({L[i].who, L[k].who}) <= Cardinality({L[j].who : j \in R})
      BY <2>3, <2>4, FS_Subset
    <3>2. Cardinality({L[j].who : j \in R}) \in Nat
      BY <2>3, FS_CardinalityType
    <3> QED BY <2>5, <3>1, <3>2
  <2>7. QED BY <1>3, <2>6 DEF TwoPersonRule
<1>6. QED
  BY <1>4, <1>5

LEMMA DismissedMeans ==
  ASSUME NEW n \in Nat, NEW m \in Nat, NEW L, NEW base, base # "false_positive",
         NEW S \in SUBSET (1 .. n),
         \A i \in S : Shaped(L[i]), \A i \in S : L[i].at \in 0 .. m
  PROVE  /\ Decisive(L, S) = {} =>
              (Validity(base, L, S) = "false_positive" <=> StaticallyDismissed(L, S))
         /\ Decisive(L, S) # {} =>
              (Validity(base, L, S) = "false_positive" <=> TwoVoices(L, S))
<1>1. ASSUME Decisive(L, S) = {}
      PROVE  Validity(base, L, S) = "false_positive" <=> StaticallyDismissed(L, S)
  <2>1. Validity(base, L, S) = StaticValidity(base, L, S)
    BY <1>1 DEF Validity
  <2>2. CASE Class(L, S, 2) # {}
    BY <2>1, <2>2 DEF StaticValidity, StaticallyDismissed, LastWord
  <2>3. CASE Class(L, S, 2) = {} /\ Class(L, S, 3) = {}
    BY <2>1, <2>3 DEF StaticValidity, StaticallyDismissed
  <2>4. CASE Class(L, S, 2) = {} /\ Class(L, S, 3) # {}
    <3>1. CASE L[Latest(L, Class(L, S, 3))].validity = "false_positive"
                 /\ L[Latest(L, Class(L, S, 3))].auto
      BY <2>1, <2>4, <3>1, Zenon DEF StaticValidity, StaticallyDismissed
    <3>2. CASE L[Latest(L, Class(L, S, 3))].validity = "false_positive"
                 /\ ~L[Latest(L, Class(L, S, 3))].auto
      BY <2>1, <2>4, <3>2, Zenon DEF StaticValidity, StaticallyDismissed
    <3>3. CASE L[Latest(L, Class(L, S, 3))].validity # "false_positive"
      BY <2>1, <2>4, <3>3, Zenon DEF StaticValidity, StaticallyDismissed
    <3>4. QED BY <3>1, <3>2, <3>3
  <2>5. QED BY <2>2, <2>3, <2>4
<1>2. ASSUME Decisive(L, S) # {}
      PROVE  Validity(base, L, S) = "false_positive" <=> TwoVoices(L, S)
  <2>1. Decisive(L, S) \in SUBSET (1 .. n) /\ \A i \in Decisive(L, S) : L[i].at \in 0 .. m
    BY DEF Decisive, Class, Spoken
  <2>2. Latest(L, Decisive(L, S)) \in Decisive(L, S)
    BY <1>2, <2>1, LatestIsLast
  <2>3. \A i \in Decisive(L, S) : L[i].validity = "confirmed"
    BY DEF Decisive, Class, Spoken, Saying, Shaped
  <2>4. LastWord(L, Decisive(L, S)) = "confirmed"
    BY <2>2, <2>3 DEF LastWord
  <2>5. Proven(L, S)
    BY <1>2, <2>4 DEF Proven
  <2>6. Validity(base, L, S) = "false_positive" <=> TwoPersonRule(L, S)
    BY <1>2, <2>4, <2>5 DEF Validity
  <2>7. QED BY <2>6, SignersAreTwo
<1>3. QED
  BY <1>1, <1>2

-----------------------------------------------------------------------------
(* What one more event does.                                               *)

LEMMA LastAgrees ==
  ASSUME NEW n, NEW m, NEW L, NEW M, NEW S, Extends(n, m, L, M, S),
         NEW Q \in SUBSET S, Q # {}
  PROVE  /\ Latest(M, Q) = Latest(L, Q)
         /\ Latest(L, Q) \in Q
         /\ M[Latest(L, Q)] = L[Latest(L, Q)]
<1>1. /\ n \in Nat /\ m \in Nat /\ Q \in SUBSET (1 .. n)
      /\ \A i \in Q : M[i] = L[i] /\ L[i].at \in 0 .. m
  BY DEF Extends
<1>2. Latest(L, Q) \in Q
  BY <1>1, LatestIsLast
<1>3. (\A i \in Q : M[i] = L[i]) /\ (\A i \in Q : L[i].at \in 0 .. m)
  BY <1>1
<1>4. Latest(M, Q) = Latest(L, Q)
  <2>1. PICK nn \in Nat, mm \in Nat : nn = n /\ mm = m
    BY <1>1
  <2>2. /\ Q \in SUBSET (1 .. nn)
        /\ \A i \in Q : M[i] = L[i]
        /\ \A i \in Q : L[i].at \in 0 .. mm
    BY <1>1, <2>1
  <2>3. QED BY <2>2, LatestAgrees
<1>5. QED
  BY <1>2, <1>3, <1>4

LEMMA DissentsAreEvents ==
  ASSUME NEW L, NEW S
  PROVE  /\ HumanDismissals(L, S) \subseteq S /\ Decisive(L, S) \subseteq S
         /\ Class(L, S, 2) \subseteq S /\ Class(L, S, 3) \subseteq S
         /\ Reassertions(L, S) \subseteq HumanDismissals(L, S)
BY DEF HumanDismissals, Decisive, Class, Spoken, Saying, Reassertions

LEMMA ReassertionsGrow ==
  ASSUME NEW n, NEW m, NEW L, NEW M, NEW S, Extends(n, m, L, M, S),
         Decisive(L, S) # {}, Decisive(M, S \cup {n + 1}) = Decisive(L, S),
         NEW new, HumanDismissals(M, S \cup {n + 1}) = HumanDismissals(L, S) \cup new,
         new \subseteq {n + 1}
  PROVE  /\ Reassertions(L, S) \subseteq Reassertions(M, S \cup {n + 1})
         /\ Reassertions(M, S \cup {n + 1}) \subseteq Reassertions(L, S) \cup new
<1> DEFINE T == S \cup {n + 1}
           D == Decisive(L, S)
           d == Latest(L, D)
<1>1. d = Latest(M, D) /\ M[d] = L[d]
  BY LastAgrees, DissentsAreEvents
<1>2. \A i \in S : M[i] = L[i]
  BY DEF Extends
<1>3. Reassertions(M, T) = {i \in HumanDismissals(L, S) \cup new : M[i].at > L[d].at}
  BY <1>1 DEF Reassertions
<1>4. Reassertions(L, S) = {i \in HumanDismissals(L, S) : L[i].at > L[d].at}
  BY DEF Reassertions
<1> HIDE DEF d, D, T
<1>5. QED
  BY <1>2, <1>3, <1>4, DissentsAreEvents DEF T

LEMMA ReassertionsShrink ==
  ASSUME NEW n, NEW m, NEW L, NEW M, NEW S, Extends(n, m, L, M, S),
         Decisive(L, S) # {}, Decisive(M, S \cup {n + 1}) = Decisive(L, S) \cup {n + 1},
         HumanDismissals(M, S \cup {n + 1}) = HumanDismissals(L, S)
  PROVE  Reassertions(M, S \cup {n + 1}) \subseteq Reassertions(L, S)
<1> DEFINE T == S \cup {n + 1}
           D == Decisive(L, S)
           d == Latest(L, D)
           y == Latest(M, D \cup {n + 1})
<1>1. D \in SUBSET S /\ D # {}
  BY DissentsAreEvents
<1>2. L[d].at <= M[y].at /\ y \in D \cup {n + 1}
  <2> HIDE DEF D
  <2> QED BY <1>1, LatestGrows
<1>3. /\ \A i \in S : M[i] = L[i] /\ M[i].at \in 0 .. m /\ L[i].at \in 0 .. m
      /\ M[n + 1].at \in 0 .. m /\ m \in Nat
  BY DEF Extends
<1>4. d \in D
  <2> HIDE DEF D
  <2> QED BY <1>1, LastAgrees
<1>5. Reassertions(M, T) = {i \in HumanDismissals(L, S) : M[i].at > M[y].at}
  BY DEF Reassertions
<1>6. Reassertions(L, S) = {i \in HumanDismissals(L, S) : L[i].at > L[d].at}
  BY DEF Reassertions
<1>7. HumanDismissals(L, S) \subseteq S
  BY DissentsAreEvents
<1> HIDE DEF d, y, D, T
<1>8. ASSUME NEW i \in HumanDismissals(L, S), M[i].at > M[y].at
      PROVE  L[i].at > L[d].at
  <2>1. M[i] = L[i] /\ M[i].at \in 0 .. m /\ M[y].at \in 0 .. m /\ L[d].at \in 0 .. m
    BY <1>1, <1>2, <1>3, <1>4, <1>7
  <2>2. QED BY <1>2, <1>8, <2>1
<1>9. QED
  BY <1>5, <1>6, <1>8 DEF T

\* Nothing that decides and no dismissal: against proof, nothing changes.
LEMMA ProvenStays ==
  ASSUME NEW n, NEW m, NEW L, NEW M, NEW S, Extends(n, m, L, M, S),
         Decisive(L, S) # {}, Decisive(M, S \cup {n + 1}) = Decisive(L, S),
         HumanDismissals(M, S \cup {n + 1}) = HumanDismissals(L, S)
  PROVE  TwoVoices(M, S \cup {n + 1}) <=> TwoVoices(L, S)
<1>1. Reassertions(M, S \cup {n + 1}) = Reassertions(L, S)
  <2>1. HumanDismissals(M, S \cup {n + 1}) = HumanDismissals(L, S) \cup {} /\ {} \subseteq {n + 1}
    OBVIOUS
  <2>2. /\ Reassertions(L, S) \subseteq Reassertions(M, S \cup {n + 1})
        /\ Reassertions(M, S \cup {n + 1}) \subseteq Reassertions(L, S) \cup {}
    BY <2>1, ReassertionsGrow
  <2>3. QED BY <2>2
<1>2. \A i \in Reassertions(L, S) : M[i] = L[i]
  BY DissentsAreEvents DEF Extends
<1>3. QED
  BY <1>1, <1>2 DEF TwoVoices

\* The same human and static words: without proof, nothing changes.
LEMMA StaticStays ==
  ASSUME NEW n, NEW m, NEW L, NEW M, NEW S, Extends(n, m, L, M, S),
         Class(M, S \cup {n + 1}, 2) = Class(L, S, 2),
         \/ Class(L, S, 2) # {}
         \/ Class(M, S \cup {n + 1}, 3) = Class(L, S, 3)
  PROVE  StaticallyDismissed(M, S \cup {n + 1}) <=> StaticallyDismissed(L, S)
<1> DEFINE T == S \cup {n + 1}
           H == Class(L, S, 2)
           K == Class(L, S, 3)
<1>1. CASE H # {}
  <2>1. Latest(M, H) = Latest(L, H) /\ M[Latest(L, H)] = L[Latest(L, H)]
    BY <1>1, LastAgrees, DissentsAreEvents
  <2>2. QED BY <1>1, <2>1 DEF StaticallyDismissed
<1>2. CASE H = {} /\ K # {} /\ Class(M, T, 3) = K
  <2>1. Latest(M, K) = Latest(L, K) /\ M[Latest(L, K)] = L[Latest(L, K)]
    BY <1>2, LastAgrees, DissentsAreEvents
  <2>2. QED BY <1>2, <2>1 DEF StaticallyDismissed
<1>3. CASE H = {} /\ K = {} /\ Class(M, T, 3) = K
  BY <1>3 DEF StaticallyDismissed
<1>4. QED
  BY <1>1, <1>2, <1>3

-----------------------------------------------------------------------------
(* The five kinds of event.  A finding's events S, with an event more, are  *)
(* T; fp says whether they derive a dismissal.                             *)

LEMMA Meanings ==
  ASSUME NEW n, NEW m, NEW L, NEW M, NEW S, Extends(n, m, L, M, S),
         NEW T, T = S \cup {n + 1},
         NEW base, base # "false_positive",
         \A i \in T : Shaped(M[i])
  PROVE  /\ Decisive(L, S) = {} =>
              (Validity(base, L, S) = "false_positive" <=> StaticallyDismissed(L, S))
         /\ Decisive(L, S) # {} =>
              (Validity(base, L, S) = "false_positive" <=> TwoVoices(L, S))
         /\ Decisive(M, T) = {} =>
              (Validity(base, M, T) = "false_positive" <=> StaticallyDismissed(M, T))
         /\ Decisive(M, T) # {} =>
              (Validity(base, M, T) = "false_positive" <=> TwoVoices(M, T))
<1>1. PICK nn \in Nat, mm \in Nat : nn = n /\ mm = m
  BY DEF Extends
<1>2. /\ S \in SUBSET (1 .. nn)
      /\ \A i \in S : Shaped(L[i])
      /\ \A i \in S : L[i].at \in 0 .. mm
  BY <1>1 DEF Extends
<1> DEFINE U == T
<1>3. /\ nn + 1 \in Nat
      /\ U \in SUBSET (1 .. nn + 1)
      /\ \A i \in U : M[i].at \in 0 .. mm
      /\ \A i \in U : Shaped(M[i])
  BY <1>1, <1>2 DEF Extends
<1>4. /\ Decisive(L, S) = {} =>
            (Validity(base, L, S) = "false_positive" <=> StaticallyDismissed(L, S))
      /\ Decisive(L, S) # {} =>
            (Validity(base, L, S) = "false_positive" <=> TwoVoices(L, S))
  BY <1>2, DismissedMeans
<1> HIDE DEF U
<1>5. /\ Decisive(M, U) = {} =>
            (Validity(base, M, U) = "false_positive" <=> StaticallyDismissed(M, U))
      /\ Decisive(M, U) # {} =>
            (Validity(base, M, U) = "false_positive" <=> TwoVoices(M, U))
  BY <1>3, DismissedMeans
<1>6. QED
  BY <1>4, <1>5 DEF U

\* An event that says nothing of validity, or a refutation by execution.
LEMMA SilentEvent ==
  ASSUME NEW n, NEW m, NEW L, NEW M, NEW S, Extends(n, m, L, M, S),
         NEW T, T = S \cup {n + 1}, NEW e, e = M[n + 1],
         NEW base, base # "false_positive",
         \A i \in T : Shaped(M[i]),
         \/ e.validity = NoValue
         \/ EventClass(e) = 1 /\ e.validity = "false_positive"
  PROVE  /\ Decisive(M, T) = Decisive(L, S)
         /\ HumanDismissals(M, T) = HumanDismissals(L, S)
         /\ Validity(base, M, T) = "false_positive" <=>
              Validity(base, L, S) = "false_positive"
<1>1. Decisive(M, T) = Decisive(L, S) /\ HumanDismissals(M, T) = HumanDismissals(L, S)
  BY SetsGrow DEF NoValue
<1>2. Class(M, T, 2) = Class(L, S, 2) /\ Class(M, T, 3) = Class(L, S, 3)
  BY SetsGrow
<1>3. StaticallyDismissed(M, T) <=> StaticallyDismissed(L, S)
  BY <1>2, StaticStays
<1>4. Decisive(L, S) # {} => (TwoVoices(M, T) <=> TwoVoices(L, S))
  BY <1>1, ProvenStays
<1>5. QED
  BY <1>1, <1>3, <1>4, Meanings

\* A proof.
LEMMA ProvingEvent ==
  ASSUME NEW n, NEW m, NEW L, NEW M, NEW S, Extends(n, m, L, M, S),
         NEW T, T = S \cup {n + 1}, NEW e, e = M[n + 1],
         NEW base, base # "false_positive",
         \A i \in T : Shaped(M[i]),
         EventClass(e) = 1,
         e.validity \notin {NoValue, "false_positive"}
  PROVE  /\ Decisive(M, T) # {}
         /\ HumanDismissals(M, T) = HumanDismissals(L, S)
         /\ Validity(base, M, T) = "false_positive" =>
              /\ \E i, k \in HumanDismissals(L, S) : L[i].who # L[k].who
              /\ Decisive(L, S) # {} => Validity(base, L, S) = "false_positive"
<1>1. /\ Decisive(M, T) = Decisive(L, S) \cup {n + 1}
      /\ HumanDismissals(M, T) = HumanDismissals(L, S)
  BY SetsGrow
<1>2. \A i \in HumanDismissals(L, S) : M[i] = L[i]
  BY DissentsAreEvents DEF Extends
<1>3. Reassertions(M, T) \subseteq HumanDismissals(L, S)
  <2>1. Reassertions(M, T) \subseteq HumanDismissals(M, T)
    BY DissentsAreEvents
  <2>2. QED BY <1>1, <2>1
<1>4. TwoVoices(M, T) => \E i, k \in HumanDismissals(L, S) : L[i].who # L[k].who
  BY <1>2, <1>3 DEF TwoVoices
<1>5. Decisive(L, S) # {} /\ TwoVoices(M, T) => TwoVoices(L, S)
  <2> SUFFICES ASSUME Decisive(L, S) # {}, TwoVoices(M, T) PROVE TwoVoices(L, S)
    OBVIOUS
  <2>1. Reassertions(M, T) \subseteq Reassertions(L, S)
    BY <1>1, ReassertionsShrink
  <2>2. QED BY <1>2, <1>3, <2>1 DEF TwoVoices
<1>6. QED
  BY <1>1, <1>4, <1>5, Meanings

\* A person dismisses.
LEMMA DissentingEvent ==
  ASSUME NEW n, NEW m, NEW L, NEW M, NEW S, Extends(n, m, L, M, S),
         NEW T, T = S \cup {n + 1}, NEW e, e = M[n + 1],
         NEW base, base # "false_positive",
         \A i \in T : Shaped(M[i]),
         EventClass(e) = 2, e.validity = "false_positive"
  PROVE  /\ Decisive(M, T) = Decisive(L, S)
         /\ HumanDismissals(M, T) = HumanDismissals(L, S) \cup {n + 1}
         /\ Validity(base, L, S) = "false_positive" => Validity(base, M, T) = "false_positive"
         /\ /\ Validity(base, M, T) = "false_positive"
            /\ Validity(base, L, S) # "false_positive"
            /\ Decisive(L, S) # {}
            => \E i \in HumanDismissals(L, S) : L[i].who # e.who
<1> DEFINE H == Class(L, S, 2)
<1>1. /\ Decisive(M, T) = Decisive(L, S)
      /\ HumanDismissals(M, T) = HumanDismissals(L, S) \cup {n + 1}
      /\ Class(M, T, 2) = H \cup {n + 1}
  BY SetsGrow DEF NoValue
<1>2. \A i \in S : M[i] = L[i]
  BY DEF Extends
<1>3. Decisive(L, S) = {} /\ StaticallyDismissed(L, S) => StaticallyDismissed(M, T)
  <2> SUFFICES ASSUME StaticallyDismissed(L, S) PROVE StaticallyDismissed(M, T)
    OBVIOUS
  <2> DEFINE y == Latest(M, H \cup {n + 1})
  <2>1. y = n + 1 \/ (H # {} /\ y = Latest(L, H) /\ y \in H)
    <3>1. H \in SUBSET S
      BY DissentsAreEvents
    <3> HIDE DEF H
    <3>2. QED BY <3>1, LatestGrows
  <2>2. y # n + 1 => M[y] = L[y] /\ y = Latest(L, H) /\ H # {}
    BY <1>2, <2>1, DissentsAreEvents
  <2>3. M[y].validity = "false_positive"
    <3> HIDE DEF y
    <3>1. CASE y = n + 1
      BY <3>1
    <3>2. CASE y # n + 1
      BY <2>2, <3>2 DEF StaticallyDismissed
    <3>3. QED BY <3>1, <3>2
  <2>4. QED
    BY <1>1, <2>3 DEF StaticallyDismissed
<1>4. Decisive(L, S) # {} =>
        /\ Reassertions(L, S) \subseteq Reassertions(M, T)
        /\ Reassertions(M, T) \subseteq Reassertions(L, S) \cup {n + 1}
  <2> HIDE DEF H
  <2>1. /\ Decisive(M, S \cup {n + 1}) = Decisive(L, S)
        /\ HumanDismissals(M, S \cup {n + 1}) = HumanDismissals(L, S) \cup {n + 1}
    BY <1>1
  <2>2. Decisive(L, S) # {} =>
          /\ Reassertions(L, S) \subseteq Reassertions(M, S \cup {n + 1})
          /\ Reassertions(M, S \cup {n + 1}) \subseteq Reassertions(L, S) \cup {n + 1}
    <3> SUFFICES ASSUME Decisive(L, S) # {}
                 PROVE  /\ Reassertions(L, S) \subseteq Reassertions(M, S \cup {n + 1})
                        /\ Reassertions(M, S \cup {n + 1}) \subseteq Reassertions(L, S) \cup {n + 1}
      OBVIOUS
    <3> QED BY <2>1, ReassertionsGrow
  <2>3. QED BY <2>2
<1>5. \A i \in Reassertions(L, S) : M[i] = L[i] /\ i \in HumanDismissals(L, S)
  BY <1>2, DissentsAreEvents
<1>6. Decisive(L, S) # {} /\ TwoVoices(L, S) => TwoVoices(M, T)
  BY <1>4, <1>5 DEF TwoVoices
<1>7. Decisive(L, S) # {} /\ TwoVoices(M, T) /\ ~TwoVoices(L, S) =>
        \E i \in HumanDismissals(L, S) : L[i].who # e.who
  <2> SUFFICES ASSUME Decisive(L, S) # {}, TwoVoices(M, T), ~TwoVoices(L, S)
               PROVE  \E i \in HumanDismissals(L, S) : L[i].who # e.who
    OBVIOUS
  <2>1. PICK i \in Reassertions(M, T), k \in Reassertions(M, T) : M[i].who # M[k].who
    BY DEF TwoVoices
  <2>2. ~(i \in Reassertions(L, S) /\ k \in Reassertions(L, S))
    BY <1>5, <2>1 DEF TwoVoices
  <2>3. \/ i = n + 1 /\ k \in Reassertions(L, S)
        \/ k = n + 1 /\ i \in Reassertions(L, S)
    BY <1>4, <2>1, <2>2
  <2>4. QED BY <1>5, <2>1, <2>3
<1>8. CASE Decisive(L, S) = {}
  <2>1. Validity(base, L, S) = "false_positive" <=> StaticallyDismissed(L, S)
    BY <1>8, Meanings
  <2>2. Validity(base, M, T) = "false_positive" <=> StaticallyDismissed(M, T)
    BY <1>1, <1>8, Meanings
  <2>3. Validity(base, L, S) = "false_positive" => Validity(base, M, T) = "false_positive"
    BY <1>3, <1>8, <2>1, <2>2
  <2>4. QED
    BY <1>1, <1>8, <2>3
<1>9. CASE Decisive(L, S) # {}
  <2>1. /\ Validity(base, L, S) = "false_positive" <=> TwoVoices(L, S)
        /\ Validity(base, M, T) = "false_positive" <=> TwoVoices(M, T)
    BY <1>1, <1>9, Meanings
  <2>2. QED
    BY <1>1, <1>6, <1>7, <1>9, <2>1
<1>10. QED
  BY <1>8, <1>9

\* A person upholds.
LEMMA UpholdingEvent ==
  ASSUME NEW n, NEW m, NEW L, NEW M, NEW S, Extends(n, m, L, M, S),
         NEW T, T = S \cup {n + 1}, NEW e, e = M[n + 1],
         NEW base, base # "false_positive",
         \A i \in T : Shaped(M[i]),
         EventClass(e) = 2, e.validity \notin {NoValue, "false_positive"}
  PROVE  /\ Decisive(M, T) = Decisive(L, S)
         /\ HumanDismissals(M, T) = HumanDismissals(L, S)
         /\ Validity(base, M, T) = "false_positive" => Validity(base, L, S) = "false_positive"
         /\ Decisive(L, S) # {} =>
              (Validity(base, M, T) = "false_positive" <=> Validity(base, L, S) = "false_positive")
<1> DEFINE H == Class(L, S, 2)
           y == Latest(M, H \cup {n + 1})
<1>1. /\ Decisive(M, T) = Decisive(L, S)
      /\ HumanDismissals(M, T) = HumanDismissals(L, S)
      /\ Class(M, T, 2) = H \cup {n + 1}
  BY SetsGrow
<1>2. y = n + 1 \/ (H # {} /\ y = Latest(L, H) /\ y \in H)
  <2>1. H \in SUBSET S
    BY DissentsAreEvents
  <2> HIDE DEF H
  <2>2. QED BY <2>1, LatestGrows
<1>3. y # n + 1 => M[y] = L[y]
  BY <1>2, DissentsAreEvents DEF Extends
<1>4. StaticallyDismissed(M, T) => StaticallyDismissed(L, S)
  <2> SUFFICES ASSUME StaticallyDismissed(M, T) PROVE StaticallyDismissed(L, S)
    OBVIOUS
  <2>1. M[y].validity = "false_positive"
    BY <1>1 DEF StaticallyDismissed
  <2>2. y # n + 1
    <3> HIDE DEF y
    <3> QED BY <2>1
  <2>3. H # {} /\ L[Latest(L, H)].validity = "false_positive"
    BY <1>2, <1>3, <2>1, <2>2
  <2>4. QED BY <2>3 DEF StaticallyDismissed
<1>5. Decisive(L, S) # {} => (TwoVoices(M, T) <=> TwoVoices(L, S))
  BY <1>1, ProvenStays
<1>6. QED
  BY <1>1, <1>4, <1>5, Meanings

\* A machine's static word.
LEMMA StaticEvent ==
  ASSUME NEW n, NEW m, NEW L, NEW M, NEW S, Extends(n, m, L, M, S),
         NEW T, T = S \cup {n + 1}, NEW e, e = M[n + 1],
         NEW base, base # "false_positive",
         \A i \in T : Shaped(M[i]),
         EventClass(e) = 3, e.validity # NoValue
  PROVE  /\ Decisive(M, T) = Decisive(L, S)
         /\ HumanDismissals(M, T) = HumanDismissals(L, S)
         /\ Decisive(L, S) # {} =>
              (Validity(base, M, T) = "false_positive" <=> Validity(base, L, S) = "false_positive")
         /\ ~e.auto /\ Validity(base, M, T) = "false_positive" =>
              Validity(base, L, S) = "false_positive"
         /\ (\A i \in S : ~L[i].auto) /\ Validity(base, L, S) = "false_positive" =>
              Validity(base, M, T) = "false_positive"
<1> DEFINE H == Class(L, S, 2)
           K == Class(L, S, 3)
           y == Latest(M, K \cup {n + 1})
<1>1. /\ Decisive(M, T) = Decisive(L, S)
      /\ HumanDismissals(M, T) = HumanDismissals(L, S)
      /\ Class(M, T, 2) = H
      /\ Class(M, T, 3) = K \cup {n + 1}
  BY SetsGrow
<1>2. Decisive(L, S) # {} => (TwoVoices(M, T) <=> TwoVoices(L, S))
  BY <1>1, ProvenStays
<1>3. H # {} => (StaticallyDismissed(M, T) <=> StaticallyDismissed(L, S))
  BY <1>1, StaticStays
<1>4. y = n + 1 \/ (K # {} /\ y = Latest(L, K) /\ y \in K)
  <2>1. K \in SUBSET S
    BY DissentsAreEvents
  <2> HIDE DEF K
  <2>2. QED BY <2>1, LatestGrows
<1>5. y # n + 1 => M[y] = L[y]
  BY <1>4, DissentsAreEvents DEF Extends
<1>6. ~e.auto /\ StaticallyDismissed(M, T) => StaticallyDismissed(L, S)
  <2> SUFFICES ASSUME ~e.auto, StaticallyDismissed(M, T), H = {}
               PROVE  StaticallyDismissed(L, S)
    BY <1>3
  <2>1. M[y].validity = "false_positive" /\ M[y].auto
    BY <1>1 DEF StaticallyDismissed
  <2>2. y # n + 1
    <3> HIDE DEF y
    <3> QED BY <2>1
  <2>3. /\ K # {} /\ L[Latest(L, K)].validity = "false_positive"
        /\ L[Latest(L, K)].auto
    BY <1>4, <1>5, <2>1, <2>2
  <2>4. QED BY <2>3 DEF StaticallyDismissed
<1>7. (\A i \in S : ~L[i].auto) /\ StaticallyDismissed(L, S) => StaticallyDismissed(M, T)
  <2> SUFFICES ASSUME \A i \in S : ~L[i].auto, StaticallyDismissed(L, S)
               PROVE  H # {}
    BY <1>3
  <2> SUFFICES ASSUME H = {} PROVE FALSE
    OBVIOUS
  <2>1. K # {} /\ L[Latest(L, K)].auto
    BY DEF StaticallyDismissed
  <2>2. K \in SUBSET S
    BY DissentsAreEvents
  <2>3. Latest(L, K) \in K
    <3> HIDE DEF K
    <3> QED BY <2>1, <2>2, LastAgrees
  <2>4. QED BY <2>1, <2>2, <2>3
<1>8. QED
  BY <1>1, <1>2, <1>3, <1>6, <1>7, Meanings
\* The events of the other findings: a longer log derives what it did.
LEMMA ValidityAgrees ==
  ASSUME NEW n, NEW m, NEW L, NEW M, NEW S, Extends(n, m, L, M, S), NEW base
  PROVE  Validity(base, M, S) = Validity(base, L, S)
<1> DEFINE H == Class(L, S, 2)
           K == Class(L, S, 3)
           D == Decisive(L, S)
<1>1. /\ Class(M, S, 2) = H /\ Class(M, S, 3) = K
      /\ Decisive(M, S) = D
      /\ HumanDismissals(M, S) = HumanDismissals(L, S)
  BY SetsAgree
<1>2. H # {} => LastWord(M, H) = LastWord(L, H)
  BY LastAgrees, DissentsAreEvents DEF LastWord
<1>3. K # {} => M[Latest(M, K)] = L[Latest(L, K)]
  BY LastAgrees, DissentsAreEvents
<1>4. D # {} => M[Latest(M, D)] = L[Latest(L, D)]
  BY LastAgrees, DissentsAreEvents
<1>5. CASE D = {}
  <2>1. StaticValidity(base, M, S) = StaticValidity(base, L, S)
    <3>1. CASE H # {}
      BY <1>1, <1>2, <3>1 DEF StaticValidity
    <3>2. CASE H = {} /\ K # {}
      <4> DEFINE x == L[Latest(L, K)]
                 w == IF x.validity = "false_positive" => x.auto THEN x.validity ELSE base
      <4>1. StaticValidity(base, M, S) = w
        BY <1>1, <1>3, <3>2, Zenon DEF StaticValidity
      <4>2. StaticValidity(base, L, S) = w
        BY <3>2, Zenon DEF StaticValidity
      <4> HIDE DEF w
      <4>3. QED BY <4>1, <4>2
    <3>3. CASE H = {} /\ K = {}
      BY <1>1, <3>3 DEF StaticValidity
    <3>4. QED BY <3>1, <3>2, <3>3
  <2>2. QED BY <1>1, <1>5, <2>1 DEF Validity
<1>6. CASE D # {}
  <2>1. \A i \in S : M[i] = L[i]
    BY DEF Extends
  <2>2. Reassertions(M, S) = Reassertions(L, S)
    BY <1>1, <1>4, <1>6, <2>1, DissentsAreEvents DEF Reassertions
  <2>3. PostProofSigners(M, S) = PostProofSigners(L, S)
    <3>1. \A i \in Reassertions(L, S) : M[i] = L[i]
      BY <2>1, DissentsAreEvents
    <3>2. QED BY <2>2, <3>1, Zenon DEF PostProofSigners
  <2>4. LastWord(M, D) = LastWord(L, D)
    BY <1>4, <1>6 DEF LastWord
  <2>5. QED
    BY <1>1, <1>6, <2>3, <2>4 DEF Validity, Proven, TwoPersonRule
<1>7. QED
  BY <1>5, <1>6

-----------------------------------------------------------------------------
(* The events of a layer are shaped.                                       *)

AllShaped ==
  /\ \A i \in DOMAIN log : Shaped(log[i])
  /\ \A r \in Runs : run[r].step # "idle" => Shaped(run[r].ev)

LInv == IInv /\ AllShaped

LEMMA MachinesAreShaped ==
  ASSUME NEW d, NEW f, NEW v, NEW t
  PROVE  /\ v \in TriageVerdicts => Shaped(TriageEvent(f, v, t))
         /\ Shaped(ValidationEvent(d, f, v, t))
         /\ Shaped(VerificationEvent(d, f, v, t))
         /\ Shaped(JiraEvent(d, f, t))
<1>1. v \in TriageVerdicts => Shaped(TriageEvent(f, v, t))
  <2> SUFFICES ASSUME v \in TriageVerdicts PROVE Shaped(TriageEvent(f, v, t))
    OBVIOUS
  <2> DEFINE e == TriageEvent(f, v, t)
  <2>1. /\ e.src = "triage_report" /\ e.kind = "machine" /\ e.grade = NoValue
        /\ e.doc = 0 /\ e.ref = f /\ e.resolution = NoValue /\ e.severity = NoValue
        /\ e.validity = TriageValidity[v]
    BY DEF TriageEvent, MachineEvent
  <2>2. e.auto <=> v = "auto_false_positive"
    BY Zenon DEF TriageEvent, MachineEvent
  <2>3. v = "auto_false_positive" => TriageValidity[v] = "false_positive"
    BY DEF TriageValidity
  <2> HIDE DEF e
  <2>4. EventClass(e) = 3
    BY <2>1 DEF EventClass, ExecSourceTypes, NoValue
  <2>5. e.auto => EventId(e) = <<"triage_report", 0, "triage_report", e.ref,
                                 "false_positive", NoValue, NoValue>>
    BY <2>1, <2>2, <2>3 DEF EventId
  <2>6. e.auto => e.validity = "false_positive"
    BY <2>1, <2>2, <2>3
  <2>7. QED BY <2>1, <2>4, <2>5, <2>6 DEF Shaped, e
<1>2. Shaped(ValidationEvent(d, f, v, t))
  <2> DEFINE e == ValidationEvent(d, f, v, t)
  <2>1. /\ e.validity \in {"confirmed", "false_positive"} /\ e.kind = "machine"
        /\ e.grade \in {"E2", "E0"} /\ e.src = "validation_report"
        /\ e.grade = "E2" => e.validity = "confirmed"
    BY DEF ValidationEvent, MachineEvent
  <2>2. ~e.auto
    BY Zenon DEF ValidationEvent, MachineEvent
  <2> HIDE DEF e
  <2>3. EventClass(e) # 2 /\ (EventClass(e) = 3 => e.grade = "E2")
    BY <2>1 DEF EventClass, ExecSourceTypes
  <2>4. QED BY <2>1, <2>2, <2>3 DEF Shaped, e
<1>3. Shaped(VerificationEvent(d, f, v, t))
  <2> DEFINE e == VerificationEvent(d, f, v, t)
  <2>1. /\ e.validity \in {NoValue, "false_positive"} /\ e.kind = "machine"
        /\ e.grade = NoValue /\ e.src = "verification_report"
    BY DEF VerificationEvent, MachineEvent
  <2>2. ~e.auto
    BY Zenon DEF VerificationEvent, MachineEvent
  <2> HIDE DEF e
  <2>3. EventClass(e) = 1
    BY <2>1 DEF EventClass, ExecSourceTypes, NoValue
  <2>4. QED BY <2>1, <2>2, <2>3 DEF Shaped, e
<1>4. Shaped(JiraEvent(d, f, t))
  <2> DEFINE e == JiraEvent(d, f, t)
  <2>1. e.validity = NoValue
    BY DEF JiraEvent, MachineEvent
  <2>2. ~e.auto
    BY Zenon DEF JiraEvent, MachineEvent
  <2> HIDE DEF e
  <2>3. QED BY <2>1, <2>2 DEF Shaped, e
<1>5. QED
  BY <1>1, <1>2, <1>3, <1>4

LEMMA SignaturesAreShaped ==
  ASSUME NEW h \in Humans, NEW f, NEW d, NEW t
  PROVE  Shaped(SignedEvent(h, f, d, t))
<1> DEFINE e == SignedEvent(h, f, d, t)
<1>1. /\ e.kind = "human" /\ e.who = h /\ e.grade = NoValue
      /\ e.validity \in {NoValue, "confirmed", "false_positive"}
  BY DEF SignedEvent, MachineEvent
<1>2. e.verified /\ ~e.auto
  BY Zenon DEF SignedEvent, MachineEvent
<1> HIDE DEF e
<1>3. EventClass(e) = 2
  BY <1>1 DEF EventClass, NoValue
<1>4. QED
  BY <1>1, <1>2, <1>3 DEF Shaped, e

LEMMA StartShapes ==
  ASSUME LInv, NEW r \in Runs, NEW e, Shaped(e), Start(r, e)
  PROVE  AllShaped'
BY DEF Start, LInv, IInv, AllShaped, TypeOK, Built, Shaped, EventClass, EventId

LEMMA RestampShapes ==
  ASSUME LInv, NEW r \in Runs, Restamp(r)
  PROVE  AllShaped'
<1>1. PICK t \in StampsWith(run[r].ev) :
         run' = [run EXCEPT ![r] = Stamped([run[r].ev EXCEPT !.at = t])]
  BY DEF Restamp
<1> DEFINE e == run[r].ev
           x == [e EXCEPT !.at = t]
<1>2. e \in Event /\ Shaped(e)
  BY DEF Restamp, LInv, IInv, TypeOK, RunState, Idle, AllShaped
<1>3. /\ x.grade = e.grade /\ x.kind = e.kind /\ x.src = e.src /\ x.validity = e.validity
      /\ x.verified = e.verified /\ x.who = e.who /\ x.auto = e.auto /\ x.doc = e.doc
      /\ x.ref = e.ref /\ x.resolution = e.resolution /\ x.severity = e.severity
  BY <1>2, Zenon DEF Event
<1>4. EventClass(x) = EventClass(e) /\ EventId(x) = EventId(e)
  <2> HIDE DEF x, e
  <2> QED BY <1>3 DEF EventClass, EventId
<1>5. Shaped(x)
  <2> HIDE DEF x, e
  <2> QED BY <1>2, <1>3, <1>4, Zenon DEF Shaped
<1> HIDE DEF x
<1>6. QED
  BY <1>1, <1>5 DEF x, LInv, IInv, AllShaped, TypeOK, Stamped, Restamp

LEMMA SubmitShapes ==
  ASSUME LInv, NEW r \in Runs, Submit(r)
  PROVE  AllShaped'
<1> DEFINE e == run[r].ev
<1>1. e \in Event /\ Shaped(e)
  BY DEF Submit, LInv, IInv, TypeOK, RunState, Idle, AllShaped
<1>2. \A q \in Runs : run'[q].step # "idle" => Shaped(run'[q].ev)
  BY DEF Submit, LInv, IInv, AllShaped, TypeOK, Idle
<1>3. log \in Seq(Event) /\ (log' = Append(log, e) \/ log' = log)
  BY DEF Submit, LInv, IInv, TypeOK
<1> HIDE DEF e
<1>4. \A i \in DOMAIN log' : Shaped(log'[i])
  <2>1. CASE log' = log
    BY <2>1 DEF LInv, AllShaped
  <2>2. CASE log' = Append(log, e)
    <3>1. \A i \in DOMAIN log' : log'[i] = e \/ (i \in DOMAIN log /\ log'[i] = log[i])
      BY <1>1, <1>3, <2>2
    <3>2. QED BY <1>1, <3>1 DEF LInv, AllShaped
  <2>3. QED BY <1>3, <2>1, <2>2
<1>5. QED
  BY <1>2, <1>4, Zenon DEF AllShaped, Shaped, EventClass, EventId

LEMMA CrashShapes ==
  ASSUME LInv, NEW r \in Runs, Crash(r)
  PROVE  AllShaped'
BY DEF Crash, LInv, IInv, AllShaped, TypeOK, Idle, Shaped, EventClass, EventId

LEMMA LInvIsInductive == LInv /\ [Next]_vars => LInv'
<1> SUFFICES ASSUME LInv, [Next]_vars PROVE AllShaped'
  BY StepPreserves DEF LInv
<1>1. ASSUME NEW r \in Runs, Triage(r) PROVE AllShaped'
  BY <1>1, MachinesAreShaped, StartShapes DEF Triage
<1>2. ASSUME NEW r \in Runs, Validate(r) PROVE AllShaped'
  BY <1>2, MachinesAreShaped, StartShapes DEF Validate
<1>3. ASSUME NEW r \in Runs, Verify(r) PROVE AllShaped'
  BY <1>3, MachinesAreShaped, StartShapes DEF Verify
<1>4. ASSUME NEW r \in Runs, IngestJira(r) PROVE AllShaped'
  BY <1>4, MachinesAreShaped, StartShapes DEF IngestJira
<1>5. ASSUME NEW r \in Runs, Countersign(r) PROVE AllShaped'
  BY <1>5, SignaturesAreShaped, StartShapes DEF Countersign
<1>6. ASSUME NEW r \in Runs, Restamp(r) PROVE AllShaped'
  BY <1>6, RestampShapes
<1>7. ASSUME NEW r \in Runs, Submit(r) PROVE AllShaped'
  BY <1>7, SubmitShapes
<1>8. ASSUME NEW r \in Runs, Crash(r) PROVE AllShaped'
  BY <1>8, CrashShapes
<1>9. CASE Tick
  BY <1>9 DEF Tick, LInv, AllShaped, Shaped, EventClass, EventId
<1>10. CASE UNCHANGED vars
  BY <1>10 DEF vars, LInv, AllShaped, Shaped, EventClass, EventId
<1>11. QED
  BY <1>1, <1>2, <1>3, <1>4, <1>5, <1>6, <1>7, <1>8, <1>9, <1>10 DEF Next

LEMMA LInvInitially == Init => LInv
BY InitEstablishes DEF LInv, AllShaped, Init, Idle

-----------------------------------------------------------------------------
(* One submission, seen by each finding.                                   *)

IsProved(f)   == Decisive(log, Of(f)) # {}
IsAccepted(f) == \E i \in Of(f) : log[i].auto
Dissenters(f) == {log[i].who : i \in HumanDismissals(log, Of(f))}

LEMMA AppendExtends ==
  ASSUME LInv, NEW r \in Runs, Submit(r), Fresh(run[r].ev), NEW f \in Findings
  PROVE  /\ Extends(Len(log), MaxTime, log, log', Of(f))
         /\ log'[Len(log) + 1] = run[r].ev
         /\ run[r].ev.ref = f => Of(f)' = Of(f) \cup {Len(log) + 1}
         /\ run[r].ev.ref # f => Of(f)' = Of(f)
         /\ \A i \in Of(f) \cup {Len(log) + 1} : Shaped(log'[i])
<1> DEFINE e == run[r].ev
           n == Len(log)
<1>1. e \in Event /\ Shaped(e)
  BY DEF Submit, LInv, IInv, TypeOK, RunState, Idle, AllShaped
<1>2. log \in Seq(Event) /\ log' = Append(log, e)
  BY DEF Submit, LInv, IInv, TypeOK
<1> HIDE DEF e
<1>3. /\ n \in Nat /\ DOMAIN log = 1 .. n /\ DOMAIN log' = 1 .. n + 1
      /\ \A i \in 1 .. n : log'[i] = log[i] /\ log[i] \in Event
      /\ log'[n + 1] = e
  BY <1>1, <1>2
<1>4. Of(f) = {i \in 1 .. n : log[i].ref = f} /\ Of(f)' = {i \in 1 .. n + 1 : log'[i].ref = f}
  BY <1>3 DEF Of, EventsOf
<1> HIDE DEF n
<1>5. (e.ref = f => Of(f)' = Of(f) \cup {n + 1}) /\ (e.ref # f => Of(f)' = Of(f))
  BY <1>3, <1>4
<1>6. \A i \in Of(f) \cup {n + 1} : log'[i] \in Event /\ Shaped(log'[i])
  BY <1>1, <1>3, <1>4 DEF LInv, AllShaped
<1>7. \A i \in Of(f) \cup {n + 1} : log'[i].at \in 0 .. MaxTime
  BY <1>6 DEF Event
<1>8. Extends(n, MaxTime, log, log', Of(f))
  BY <1>3, <1>4, <1>7, BoundsAssumption DEF Extends
<1>9. QED
  BY <1>3, <1>5, <1>6, <1>8 DEF n, e

LEMMA OthersStay ==
  ASSUME LInv, NEW r \in Runs, Submit(r), Fresh(run[r].ev),
         NEW g \in Findings, run[r].ev.ref # g
  PROVE  /\ Dismissed(g)' <=> Dismissed(g)
         /\ IsProved(g)' <=> IsProved(g)
         /\ IsAccepted(g)' <=> IsAccepted(g)
         /\ Dissenters(g)' = Dissenters(g)
<1>1. PICK L, M, n, m, S :
        /\ L = log /\ M = log' /\ n = Len(log) /\ m = MaxTime
        /\ S = Of(g)
  OBVIOUS
<1>2. Of(g)' = S /\ Extends(n, m, L, M, S)
  BY <1>1, AppendExtends
<1>3. Validity(Base, M, S) = Validity(Base, L, S)
  BY <1>2, ValidityAgrees
<1>4. /\ Decisive(M, S) = Decisive(L, S)
      /\ HumanDismissals(M, S) = HumanDismissals(L, S)
  BY <1>2, SetsAgree
<1>5. \A i \in S : M[i] = L[i]
  BY <1>2 DEF Extends
<1>6. \A i \in HumanDismissals(L, S) : M[i] = L[i]
  BY <1>5, DissentsAreEvents
<1>7. Dismissed(g)' <=> Dismissed(g)
  BY <1>1, <1>2, <1>3 DEF Dismissed
<1>8. IsProved(g)' <=> IsProved(g)
  BY <1>1, <1>2, <1>4 DEF IsProved
<1>9. IsAccepted(g)' <=> IsAccepted(g)
  BY <1>1, <1>2, <1>5, Zenon DEF IsAccepted
<1>10. Dissenters(g)' = Dissenters(g)
  <2>1. /\ Dissenters(g) = {L[i].who : i \in HumanDismissals(L, S)}
        /\ Dissenters(g)' = {M[i].who : i \in HumanDismissals(M, S)}
    BY <1>1, <1>2, Zenon DEF Dissenters
  <2>2. QED BY <1>4, <1>6, <2>1
<1>11. QED
  BY <1>7, <1>8, <1>9, <1>10

\* What its own finding may become.
Stutters(f) ==
  /\ Dismissed(f)' <=> Dismissed(f)
  /\ IsProved(f)' <=> IsProved(f)
  /\ IsAccepted(f)' <=> IsAccepted(f)
  /\ Dissenters(f)' = Dissenters(f)

IsReconsidered(f) ==
  /\ ~IsProved(f) /\ ~IsProved(f)'
  /\ ~Dismissed(f)'
  /\ IsAccepted(f)' <=> IsAccepted(f)
  /\ Dissenters(f)' = Dissenters(f)

GetsProved(f) ==
  /\ IsProved(f)'
  /\ Dismissed(f)' => /\ \E g, h \in Dissenters(f) : g # h
                      /\ IsProved(f) => Dismissed(f)
  /\ IsAccepted(f)' <=> IsAccepted(f)
  /\ Dissenters(f)' = Dissenters(f)

GetsDismissed(f, h) ==
  /\ h \in Humans
  /\ Dissenters(f)' = Dissenters(f) \cup {h}
  /\ Dismissed(f) => Dismissed(f)'
  /\ Dismissed(f)' /\ ~Dismissed(f) /\ IsProved(f) => \E g \in Dissenters(f) : g # h
  /\ IsProved(f)' <=> IsProved(f)
  /\ IsAccepted(f)' <=> IsAccepted(f)

GetsAccepted(f) ==
  /\ ~IsAccepted(f) /\ IsAccepted(f)'
  /\ Dismissed(f) => Dismissed(f)'
  /\ Dismissed(f)' /\ ~Dismissed(f) => ~IsProved(f)
  /\ IsProved(f)' <=> IsProved(f)
  /\ Dissenters(f)' = Dissenters(f)

LEMMA OneChanges ==
  ASSUME LInv, NEW r \in Runs, Submit(r), Fresh(run[r].ev),
         NEW f \in Findings, run[r].ev.ref = f
  PROVE  \/ Stutters(f) \/ IsReconsidered(f) \/ GetsProved(f)
         \/ GetsDismissed(f, run[r].ev.who) \/ GetsAccepted(f)
<1>0. PICK L, M, n, m, S, T, e :
        /\ L = log /\ M = log' /\ n = Len(log) /\ m = MaxTime
        /\ S = Of(f) /\ T = Of(f)' /\ e = run[r].ev
  OBVIOUS
<1> DEFINE D == Decisive(L, S)
           H == HumanDismissals(L, S)
<1>1. /\ Extends(n, m, L, M, S)
      /\ T = S \cup {n + 1}
      /\ M[n + 1] = e
      /\ \A i \in T : Shaped(M[i])
  BY <1>0, AppendExtends
<1>2. Base # "false_positive"
  BY BaseAssumption
<1>3. Shaped(e) /\ \A i \in S : M[i] = L[i] /\ Shaped(L[i])
  BY <1>1 DEF Extends
<1>4. (Dismissed(f) <=> Validity(Base, L, S) = "false_positive")
      /\ (Dismissed(f)' <=> Validity(Base, M, T) = "false_positive")
  BY <1>0 DEF Dismissed
<1>5. (IsProved(f) <=> D # {}) /\ (IsProved(f)' <=> Decisive(M, T) # {})
  BY <1>0 DEF IsProved
<1>6. (IsAccepted(f) <=> \E i \in S : L[i].auto) /\ (IsAccepted(f)' <=> \E i \in T : M[i].auto)
  BY <1>0, Zenon DEF IsAccepted
<1>7. IsAccepted(f)' <=> IsAccepted(f) \/ e.auto
  BY <1>1, <1>3, <1>6, Zenon
<1>8. H \subseteq S
  BY DissentsAreEvents
<1>9. /\ Dissenters(f) = {L[i].who : i \in H}
      /\ Dissenters(f)' = {M[i].who : i \in HumanDismissals(M, T)}
  BY <1>0, Zenon DEF Dissenters
<1>10. HumanDismissals(M, T) = H => Dissenters(f)' = Dissenters(f)
  BY <1>3, <1>8, <1>9
<1>11. HumanDismissals(M, T) = H \cup {n + 1} => Dissenters(f)' = Dissenters(f) \cup {e.who}
  <2> HIDE DEF H
  <2>1. \A i \in H : M[i] = L[i]
    BY <1>3, <1>8
  <2>2. {M[i].who : i \in H \cup {n + 1}} = {L[i].who : i \in H} \cup {e.who}
    BY <1>1, <2>1
  <2>3. QED BY <1>9, <2>2, Zenon
<1>12. EventClass(e) \in {1, 2, 3}
  BY DEF EventClass
<1> HIDE DEF D, H
<1>13. CASE e.validity = NoValue \/ (EventClass(e) = 1 /\ e.validity = "false_positive")
  <2>1. /\ Decisive(M, T) = D /\ HumanDismissals(M, T) = H
        /\ Validity(Base, M, T) = "false_positive" <=> Validity(Base, L, S) = "false_positive"
    BY <1>1, <1>2, <1>13, SilentEvent DEF D, H
  <2>2. ~e.auto
    BY <1>3, <1>13 DEF Shaped, NoValue
  <2>3. IsAccepted(f)' <=> IsAccepted(f)
    BY <1>7, <2>2
  <2>4. QED BY <1>4, <1>5, <1>10, <2>1, <2>3 DEF Stutters
<1>14. CASE EventClass(e) = 1 /\ e.validity \notin {NoValue, "false_positive"}
  <2>1. /\ Decisive(M, T) # {} /\ HumanDismissals(M, T) = H
        /\ Validity(Base, M, T) = "false_positive" =>
             /\ \E i, k \in H : L[i].who # L[k].who
             /\ D # {} => Validity(Base, L, S) = "false_positive"
    BY <1>1, <1>2, <1>14, ProvingEvent DEF D, H
  <2>2. ~e.auto
    BY <1>3, <1>14 DEF Shaped
  <2>3. IsAccepted(f)' <=> IsAccepted(f)
    BY <1>7, <2>2
  <2>4. Dismissed(f)' => \E g, h \in Dissenters(f) : g # h
    BY <1>4, <1>9, <2>1
  <2>5. QED BY <1>4, <1>5, <1>10, <2>1, <2>3, <2>4 DEF GetsProved
<1>15. CASE EventClass(e) = 2 /\ e.validity = "false_positive"
  <2>1. /\ Decisive(M, T) = D /\ HumanDismissals(M, T) = H \cup {n + 1}
        /\ Validity(Base, L, S) = "false_positive" => Validity(Base, M, T) = "false_positive"
        /\ /\ Validity(Base, M, T) = "false_positive"
           /\ Validity(Base, L, S) # "false_positive"
           /\ D # {}
           => \E i \in H : L[i].who # e.who
    BY <1>1, <1>2, <1>15, DissentingEvent DEF D, H
  <2>2. ~e.auto
    BY <1>3, <1>15 DEF Shaped
  <2>3. IsAccepted(f)' <=> IsAccepted(f)
    BY <1>7, <2>2
  <2>4. e.who \in Humans
    BY <1>3, <1>15 DEF Shaped, NoValue
  <2>5. Dismissed(f)' /\ ~Dismissed(f) /\ IsProved(f) => \E g \in Dissenters(f) : g # e.who
    BY <1>4, <1>5, <1>9, <2>1
  <2>6. GetsDismissed(f, e.who)
    BY <1>4, <1>5, <1>11, <2>1, <2>3, <2>4, <2>5 DEF GetsDismissed
  <2>7. QED BY <1>0, <2>6
<1>16. CASE EventClass(e) = 2 /\ e.validity \notin {NoValue, "false_positive"}
  <2>1. /\ Decisive(M, T) = D /\ HumanDismissals(M, T) = H
        /\ Validity(Base, M, T) = "false_positive" => Validity(Base, L, S) = "false_positive"
        /\ D # {} => (Validity(Base, M, T) = "false_positive"
                        <=> Validity(Base, L, S) = "false_positive")
    BY <1>1, <1>2, <1>16, UpholdingEvent DEF D, H
  <2>2. ~e.auto
    BY <1>3, <1>16 DEF Shaped
  <2>3. IsAccepted(f)' <=> IsAccepted(f)
    BY <1>7, <2>2
  <2>4. QED BY <1>4, <1>5, <1>10, <2>1, <2>3 DEF Stutters, IsReconsidered
<1>17. CASE EventClass(e) = 3 /\ e.validity # NoValue
  <2>1. /\ Decisive(M, T) = D /\ HumanDismissals(M, T) = H
        /\ D # {} => (Validity(Base, M, T) = "false_positive"
                        <=> Validity(Base, L, S) = "false_positive")
        /\ ~e.auto /\ Validity(Base, M, T) = "false_positive" =>
             Validity(Base, L, S) = "false_positive"
        /\ (\A i \in S : ~L[i].auto) /\ Validity(Base, L, S) = "false_positive" =>
             Validity(Base, M, T) = "false_positive"
    BY <1>1, <1>2, <1>17, StaticEvent DEF D, H
  <2>2. CASE e.auto
    <3>1. ~IsAccepted(f)
      <4> SUFFICES ASSUME NEW i \in S, L[i].auto PROVE FALSE
        BY <1>6, Zenon
      <4>1. L[i].ref = f /\ e.ref = f /\ i \in DOMAIN L
        BY <1>0 DEF Of, EventsOf
      <4>2. EventId(L[i]) = EventId(e)
        BY <1>3, <2>2, <4>1 DEF Shaped
      <4>3. QED BY <1>0, <4>1, <4>2 DEF Fresh
    <3>2. IsAccepted(f)'
      BY <1>7, <2>2
    <3>3. \A i \in S : ~L[i].auto
      BY <1>6, <3>1, Zenon
    <3>4. Validity(Base, L, S) = "false_positive" => Validity(Base, M, T) = "false_positive"
      BY <2>1, <3>3, Zenon
    <3>5. QED BY <1>4, <1>5, <1>10, <2>1, <3>1, <3>2, <3>4 DEF GetsAccepted
  <2>3. CASE ~e.auto
    <3>1. IsAccepted(f)' <=> IsAccepted(f)
      BY <1>7, <2>3
    <3>2. Validity(Base, M, T) = "false_positive" => Validity(Base, L, S) = "false_positive"
      BY <2>1, <2>3, Zenon
    <3>3. QED BY <1>4, <1>5, <1>10, <2>1, <3>1, <3>2 DEF Stutters, IsReconsidered
  <2>4. QED BY <2>2, <2>3
<1>18. QED
  BY <1>12, <1>13, <1>14, <1>15, <1>16, <1>17

-----------------------------------------------------------------------------
(* The refinement.                                                         *)

LEMMA SameLogStutters ==
  ASSUME log' = log
  PROVE  UNCHANGED Promise!vars
BY DEF Promise!vars, Verdicted, Proved, Accepted, Dissented, Dismissed,
       Of, EventsOf

\* The functions that Lifecycle sees, and how they change at one finding.
LEMMA ViewsAre ==
  ASSUME NEW f \in Findings
  PROVE  /\ Verdicted[f] = IF Dismissed(f) THEN "dismissed" ELSE "live"
         /\ Proved[f] = IsProved(f)
         /\ Accepted[f] = IsAccepted(f)
         /\ Dissented[f] = Dissenters(f)
BY DEF Verdicted, Proved, Accepted, Dissented, IsProved, IsAccepted, Dissenters

LEMMA ViewsChangeAt ==
  ASSUME LInv, NEW r \in Runs, Submit(r), Fresh(run[r].ev),
         NEW f \in Findings, run[r].ev.ref = f
  PROVE  /\ Verdicted' = [Verdicted EXCEPT ![f] =
                            IF Dismissed(f)' THEN "dismissed" ELSE "live"]
         /\ Proved' = [Proved EXCEPT ![f] = IsProved(f)']
         /\ Accepted' = [Accepted EXCEPT ![f] = IsAccepted(f)']
         /\ Dissented' = [Dissented EXCEPT ![f] = Dissenters(f)']
<1>1. ASSUME NEW g \in Findings, g # f
      PROVE  /\ Dismissed(g)' <=> Dismissed(g)
             /\ IsProved(g)' <=> IsProved(g)
             /\ IsAccepted(g)' <=> IsAccepted(g)
             /\ Dissenters(g)' = Dissenters(g)
  BY <1>1, OthersStay
<1>2. Verdicted' = [Verdicted EXCEPT ![f] = IF Dismissed(f)' THEN "dismissed" ELSE "live"]
  <2>1. /\ Verdicted = [g \in Findings |-> IF Dismissed(g) THEN "dismissed" ELSE "live"]
        /\ Verdicted' = [g \in Findings |-> IF Dismissed(g)' THEN "dismissed" ELSE "live"]
    BY DEF Verdicted
  <2>2. QED BY <1>1, <2>1
<1>3. Proved' = [Proved EXCEPT ![f] = IsProved(f)']
  <2>1. /\ Proved = [g \in Findings |-> IsProved(g)]
        /\ Proved' = [g \in Findings |-> IsProved(g)']
    BY DEF Proved, IsProved
  <2>2. \A g \in Findings : g # f => IsProved(g)' = IsProved(g)
    BY <1>1, Zenon DEF IsProved
  <2>3. QED BY <2>1, <2>2
<1>4. Accepted' = [Accepted EXCEPT ![f] = IsAccepted(f)']
  <2>1. /\ Accepted = [g \in Findings |-> IsAccepted(g)]
        /\ Accepted' = [g \in Findings |-> IsAccepted(g)']
    BY DEF Accepted, IsAccepted
  <2>2. \A g \in Findings : g # f => IsAccepted(g)' = IsAccepted(g)
    BY <1>1, Zenon DEF IsAccepted
  <2>3. QED BY <2>1, <2>2
<1>5. Dissented' = [Dissented EXCEPT ![f] = Dissenters(f)']
  <2>1. /\ Dissented = [g \in Findings |-> Dissenters(g)]
        /\ Dissented' = [g \in Findings |-> Dissenters(g)']
    BY DEF Dissented, Dissenters
  <2>2. QED BY <1>1, <2>1
<1>6. QED
  BY <1>2, <1>3, <1>4, <1>5

LEMMA SubmitImplements ==
  ASSUME LInv, NEW r \in Runs, Submit(r)
  PROVE  [Promise!Next]_(Promise!vars)
<1> DEFINE e == run[r].ev
<1>1. CASE ~Fresh(e)
  BY <1>1, SameLogStutters DEF Submit
<1>2. CASE Fresh(e)
  <2>1. PICK f \in Findings : e.ref = f
    <3>1. e \in Event
      BY DEF Submit, LInv, IInv, TypeOK, RunState, Idle
    <3>2. QED BY <3>1 DEF Event
  <2>2. /\ Verdicted' = [Verdicted EXCEPT ![f] =
                            IF Dismissed(f)' THEN "dismissed" ELSE "live"]
        /\ Proved' = [Proved EXCEPT ![f] = IsProved(f)']
        /\ Accepted' = [Accepted EXCEPT ![f] = IsAccepted(f)']
        /\ Dissented' = [Dissented EXCEPT ![f] = Dissenters(f)']
    BY <1>2, <2>1, ViewsChangeAt
  <2>3. /\ Verdicted[f] = IF Dismissed(f) THEN "dismissed" ELSE "live"
        /\ Proved[f] = IsProved(f)
        /\ Accepted[f] = IsAccepted(f)
        /\ Dissented[f] = Dissenters(f)
    BY <2>1, ViewsAre
  <2>4. \/ Stutters(f) \/ IsReconsidered(f) \/ GetsProved(f)
        \/ GetsDismissed(f, e.who) \/ GetsAccepted(f)
    BY <1>2, <2>1, OneChanges
  <2>f. /\ Verdicted = [g \in Findings |-> Verdicted[g]]
        /\ Proved = [g \in Findings |-> Proved[g]]
        /\ Accepted = [g \in Findings |-> Accepted[g]]
        /\ Dissented = [g \in Findings |-> Dissented[g]]
    BY DEF Verdicted, Proved, Accepted, Dissented
  <2>p. Proved[f] \in BOOLEAN /\ Accepted[f] \in BOOLEAN
    BY <2>1 DEF Proved, Accepted
  <2>u. /\ (IsProved(f)' <=> IsProved(f)) => Proved' = Proved
        /\ (IsAccepted(f)' <=> IsAccepted(f)) => Accepted' = Accepted
        /\ Dissenters(f)' = Dissenters(f) => Dissented' = Dissented
    <3>1. (IsProved(f)' <=> IsProved(f)) => IsProved(f)' = IsProved(f)
      BY Zenon DEF IsProved
    <3>2. (IsAccepted(f)' <=> IsAccepted(f)) => IsAccepted(f)' = IsAccepted(f)
      BY Zenon DEF IsAccepted
    <3>3. QED BY <2>1, <2>2, <2>3, <2>f, <3>1, <3>2
  <2> HIDE DEF e
  <2>5. CASE Stutters(f)
    <3>1. Verdicted' = Verdicted
      BY <2>1, <2>2, <2>3, <2>5, <2>f DEF Stutters
    <3>2. QED BY <2>5, <2>u, <3>1 DEF Stutters, Promise!vars
  <2>6. CASE IsReconsidered(f)
    <3>1. Promise!Reconsider(f)
      <4>1. ~Proved[f] /\ Verdicted' = [Verdicted EXCEPT ![f] = "live"]
        BY <2>2, <2>3, <2>6 DEF IsReconsidered
      <4>2. QED BY <2>6, <2>u, <4>1 DEF IsReconsidered, Promise!Reconsider, Promise!Becomes
    <3>2. QED BY <2>1, <3>1 DEF Promise!Next
  <2>7. CASE GetsProved(f)
    <3>1. Proved' = [Proved EXCEPT ![f] = TRUE]
      <4>1. IsProved(f)' = TRUE
        BY <2>7, Zenon DEF GetsProved, IsProved
      <4>2. QED BY <2>2, <4>1
    <3>2. \/ Promise!Becomes(f, "live")
          \/ /\ Promise!Becomes(f, "dismissed")
             /\ Promise!Two(f)
             /\ Proved[f] => Verdicted[f] = "dismissed"
      <4>1. CASE ~Dismissed(f)'
        BY <2>2, <4>1 DEF Promise!Becomes
      <4>2. CASE Dismissed(f)'
        <5>1. Promise!Becomes(f, "dismissed")
          BY <2>2, <4>2 DEF Promise!Becomes
        <5>2. Promise!Two(f)
          BY <2>3, <2>7, <4>2 DEF GetsProved, Promise!Two, Promise!Seconded
        <5>3. Proved[f] => Verdicted[f] = "dismissed"
          BY <2>3, <2>7, <4>2 DEF GetsProved
        <5>4. QED BY <5>1, <5>2, <5>3
      <4>3. QED BY <4>1, <4>2
    <3>3. Promise!Prove(f)
      BY <2>7, <2>u, <3>1, <3>2 DEF GetsProved, Promise!Prove
    <3>4. QED BY <2>1, <3>3 DEF Promise!Next
  <2>8. CASE GetsDismissed(f, e.who)
    <3>1. Dissented' = [Dissented EXCEPT ![f] = Dissented[f] \cup {e.who}]
      BY <2>2, <2>3, <2>8 DEF GetsDismissed
    <3>2. \/ Promise!Becomes(f, Verdicted[f])
          \/ Promise!Becomes(f, "dismissed") /\ (Proved[f] => Promise!Seconded(f, e.who))
      <4>1. CASE Dismissed(f)' <=> Dismissed(f)
        BY <2>2, <2>3, <4>1 DEF Promise!Becomes
      <4>2. CASE Dismissed(f)' /\ ~Dismissed(f)
        <5>1. Promise!Becomes(f, "dismissed")
          BY <2>2, <4>2 DEF Promise!Becomes
        <5>2. Proved[f] => Promise!Seconded(f, e.who)
          BY <2>3, <2>8, <4>2 DEF GetsDismissed, Promise!Seconded
        <5>3. QED BY <5>1, <5>2
      <4>3. QED BY <2>8, <4>1, <4>2 DEF GetsDismissed
    <3>3. Promise!Dismiss(f, e.who)
      BY <2>8, <2>u, <3>1, <3>2 DEF GetsDismissed, Promise!Dismiss
    <3>4. QED BY <2>1, <2>8, <3>3 DEF GetsDismissed, Promise!Next
  <2>9. CASE GetsAccepted(f)
    <3>1. ~Accepted[f] /\ Accepted' = [Accepted EXCEPT ![f] = TRUE]
      <4>1. IsAccepted(f)' = TRUE
        BY <2>9, Zenon DEF GetsAccepted, IsAccepted
      <4>2. QED BY <2>2, <2>3, <2>9, <4>1 DEF GetsAccepted
    <3>2. \/ Promise!Becomes(f, Verdicted[f])
          \/ Promise!Becomes(f, "dismissed") /\ ~Proved[f]
      <4>1. CASE Dismissed(f)' <=> Dismissed(f)
        BY <2>2, <2>3, <4>1 DEF Promise!Becomes
      <4>2. CASE Dismissed(f)' /\ ~Dismissed(f)
        BY <2>2, <2>3, <2>9, <4>2 DEF GetsAccepted, Promise!Becomes
      <4>3. QED BY <2>9, <4>1, <4>2 DEF GetsAccepted
    <3>3. Promise!Accept(f)
      BY <2>9, <2>u, <3>1, <3>2 DEF GetsAccepted, Promise!Accept
    <3>4. QED BY <2>1, <3>3 DEF Promise!Next
  <2>10. QED BY <2>4, <2>5, <2>6, <2>7, <2>8, <2>9
<1>3. QED
  BY <1>1, <1>2

LEMMA StepImplements == LInv /\ [Next]_vars => [Promise!Next]_(Promise!vars)
<1> SUFFICES ASSUME LInv, [Next]_vars PROVE [Promise!Next]_(Promise!vars)
  OBVIOUS
<1>1. CASE \E r \in Runs : Submit(r)
  BY <1>1, SubmitImplements
<1>2. CASE ~\E r \in Runs : Submit(r)
  <2>1. log' = log
    BY <1>2 DEF Next, vars, Tick, Triage, Validate, Verify, IngestJira, Countersign,
       Start, Restamp, Crash
  <2>2. QED BY <2>1, SameLogStutters
<1>3. QED
  BY <1>1, <1>2

LEMMA InitImplements == Init => Promise!Init
<1> SUFFICES ASSUME Init PROVE Promise!Init
  OBVIOUS
<1>1. \A f \in Findings : Of(f) = {}
  BY DEF Init, Of, EventsOf
<1>2. \A f \in Findings : /\ Decisive(log, Of(f)) = {} /\ HumanDismissals(log, Of(f)) = {}
                          /\ Validity(Base, log, Of(f)) = Base
  BY <1>1 DEF Decisive, HumanDismissals, Validity, StaticValidity, Class, Spoken
<1>3. Base # "false_positive"
  BY BaseAssumption
<1>4. QED
  BY <1>1, <1>2, <1>3 DEF Promise!Init, Verdicted, Proved, Accepted, Dissented, Dismissed

\* The findings layer keeps the promise of Lifecycle: whatever the writers
\* interleave, however they crash, and wherever in the replay an event lands,
\* a finding is dismissed and brought back only as that specification says.
THEOREM LedgerImplementsLifecycle == Spec => LifecycleHolds
<1>1. Spec => []LInv
  BY LInvInitially, LInvIsInductive, PTL DEF Spec
<1>2. QED
  BY <1>1, InitImplements, StepImplements, PTL DEF Spec, LifecycleHolds, Promise!Spec

-----------------------------------------------------------------------------
(* What the shapes say of a machine refutation.                            *)

LEMMA Visible == LInv => RefutationIsVisible
<1> SUFFICES ASSUME LInv, NEW f \in Findings,
                    MachineRefutations(log, Of(f)) # {}, ~Dismissed(f),
                    ~Conflict(log, Of(f))
             PROVE  RefutedAwaitingSignoff(Base, log, Of(f))
  BY DEF RefutationIsVisible, Disposition, Derive
<1> DEFINE S == Of(f)
           words == {log[i].validity : i \in Spoken(log, S)}
<1>1. /\ Len(log) \in Nat /\ MaxTime \in Nat
      /\ S \in SUBSET (1 .. Len(log))
      /\ \A i \in S : log[i].at \in 0 .. MaxTime
      /\ \A i \in S : Shaped(log[i])
  BY PositionsOf, BoundsAssumption DEF LInv, AllShaped, Of, EventsOf
<1>2. "false_positive" \in words
  <2>1. PICK i \in S : log[i].validity = "false_positive"
    BY DEF MachineRefutations, Saying
  <2>2. i \in Spoken(log, S)
    BY <2>1 DEF Spoken, NoValue
  <2>3. QED BY <2>1, <2>2
<1>3. "confirmed" \notin words
  BY <1>2 DEF Conflict
<1>4. Decisive(log, S) = {}
  <2> SUFFICES ASSUME NEW i \in Decisive(log, S) PROVE FALSE
    OBVIOUS
  <2>1. i \in Spoken(log, S) /\ i \in S /\ EventClass(log[i]) = 1
        /\ log[i].validity # NoValue /\ log[i].validity # "false_positive"
    BY DEF Decisive, Class, Spoken, Saying
  <2>2. log[i].validity = "confirmed"
    BY <1>1, <2>1 DEF Shaped
  <2>3. QED BY <1>3, <2>1, <2>2
<1>5. Class(log, S, 2) = {}
  <2> SUFFICES ASSUME Class(log, S, 2) # {} PROVE FALSE
    OBVIOUS
  <2> DEFINE H == Class(log, S, 2)
             x == Latest(log, H)
  <2>1. H \in SUBSET S /\ \A i \in H : i \in Spoken(log, S) /\ EventClass(log[i]) = 2
                                      /\ log[i].validity # NoValue
    BY DEF Class, Spoken
  <2>2. x \in H
    <3>1. H \in SUBSET (1 .. Len(log)) /\ \A i \in H : log[i].at \in 0 .. MaxTime
      BY <1>1, <2>1
    <3> HIDE DEF H
    <3>2. QED BY <1>1, <3>1, LatestIsLast DEF H
  <2>3. log[x].validity = "false_positive"
    <3> HIDE DEF x, H
    <3>1. log[x].validity \in {"confirmed", "false_positive"}
      BY <1>1, <2>1, <2>2 DEF Shaped
    <3>2. QED BY <1>3, <2>1, <2>2, <3>1
  <2>4. Validity(Base, log, S) = "false_positive"
    BY <1>4, <2>3 DEF Validity, StaticValidity, LastWord
  <2>5. QED BY <2>4 DEF Dismissed
<1>6. QED
  BY <1>5 DEF RefutedAwaitingSignoff, Dismissed

\* A machine's refutation that has not been enacted is in front of a person:
\* on the sign-off list, or on an attention card of the workbench.
THEOREM RefutationsStayVisible == Spec => []RefutationIsVisible
<1>1. Spec => []LInv
  BY LInvInitially, LInvIsInductive, PTL DEF Spec
<1>2. QED
  BY <1>1, Visible, PTL

-----------------------------------------------------------------------------
(* The action properties.                                                  *)

\* The log grows by a submission of a fresh event, and by nothing else.
LEMMA OnlySubmitWrites ==
  ASSUME [Next]_vars, log' # log
  PROVE  \E r \in Runs : Submit(r) /\ Fresh(run[r].ev)
<1>1. PICK r \in Runs : Submit(r)
  BY DEF Next, vars, Tick, Triage, Validate, Verify, IngestJira, Countersign,
     Start, Restamp, Crash
<1>2. QED
  BY <1>1 DEF Submit

\* Behind every derived dismissal there is an event that says so.
LEMMA DismissalWasSaid ==
  ASSUME NEW n \in Nat, NEW m \in Nat, NEW L, NEW base, base # "false_positive",
         NEW S \in SUBSET (1 .. n),
         \A i \in S : Shaped(L[i]), \A i \in S : L[i].at \in 0 .. m,
         Validity(base, L, S) = "false_positive"
  PROVE  \E i \in S : L[i].validity = "false_positive"
<1> DEFINE H == Class(L, S, 2)
           K == Class(L, S, 3)
<1>1. StaticallyDismissed(L, S) \/ TwoVoices(L, S)
  BY DismissedMeans
<1>2. \A Q \in SUBSET S : Q # {} => Latest(L, Q) \in S
  BY LatestIsLast
<1>3. H \in SUBSET S /\ K \in SUBSET S
  BY DEF Class, Spoken
<1>4. CASE StaticallyDismissed(L, S)
  BY <1>2, <1>3, <1>4 DEF StaticallyDismissed
<1>5. CASE TwoVoices(L, S)
  BY <1>5 DEF TwoVoices, Reassertions, HumanDismissals, Class, Spoken, Saying
<1>6. QED
  BY <1>1, <1>4, <1>5

LEMMA SubmitIsLoud ==
  ASSUME LInv, NEW r \in Runs, Submit(r), Fresh(run[r].ev),
         NEW f \in Findings, run[r].ev.ref = f,
         Dismissed(f), ~Dismissed(f)'
  PROVE  \/ Conflict(log, Of(f))'
         \/ \E i \in Of(f)' \ Of(f) : log'[i].src = "triage_report"
<1>0. PICK L, M, n, m, S, T, e :
        /\ L = log /\ M = log' /\ n = Len(log) /\ m = MaxTime
        /\ S = Of(f) /\ T = Of(f)' /\ e = run[r].ev
  OBVIOUS
<1>1. /\ Extends(n, m, L, M, S)
      /\ T = S \cup {n + 1}
      /\ M[n + 1] = e
      /\ \A i \in T : Shaped(M[i])
  BY <1>0, AppendExtends
<1>2. Base # "false_positive"
  BY BaseAssumption
<1>3. Shaped(e) /\ \A i \in S : M[i] = L[i] /\ Shaped(L[i]) /\ L[i].at \in 0 .. m
  BY <1>1 DEF Extends
<1>4. n \in Nat /\ m \in Nat /\ S \in SUBSET (1 .. n) /\ n + 1 \notin S /\ n + 1 \in T
  BY <1>1 DEF Extends
<1>5. Validity(Base, L, S) = "false_positive" /\ Validity(Base, M, T) # "false_positive"
  BY <1>0 DEF Dismissed
<1>6. CASE e.src = "triage_report"
  BY <1>0, <1>1, <1>4, <1>6
<1>7. CASE e.src # "triage_report"
  <2>1. ~(e.validity = NoValue \/ (EventClass(e) = 1 /\ e.validity = "false_positive"))
    <3> SUFFICES ASSUME \/ e.validity = NoValue
                        \/ EventClass(e) = 1 /\ e.validity = "false_positive"
                 PROVE  FALSE
      OBVIOUS
    <3>1. Validity(Base, M, T) = "false_positive" <=> Validity(Base, L, S) = "false_positive"
      BY <1>1, <1>2, SilentEvent
    <3>2. QED BY <1>5, <3>1
  <2>2. ~(EventClass(e) = 2 /\ e.validity = "false_positive")
    BY <1>1, <1>2, <1>5, DissentingEvent
  <2>3. EventClass(e) \in {1, 2, 3}
    BY DEF EventClass
  <2>4. e.validity = "confirmed"
    BY <1>3, <1>7, <2>1, <2>2, <2>3 DEF Shaped
  <2>5. PICK i \in S : L[i].validity = "false_positive"
    <3>1. PICK nn \in Nat, mm \in Nat : nn = n /\ mm = m
      BY <1>4
    <3>2. /\ S \in SUBSET (1 .. nn)
          /\ \A i \in S : Shaped(L[i])
          /\ \A i \in S : L[i].at \in 0 .. mm
      BY <1>3, <1>4, <3>1
    <3>3. \E i \in S : L[i].validity = "false_positive"
      BY <1>2, <1>5, <3>2, DismissalWasSaid
    <3>4. QED BY <3>3
  <2>6. /\ i \in Spoken(M, T) /\ M[i].validity = "false_positive"
        /\ n + 1 \in Spoken(M, T) /\ M[n + 1].validity = "confirmed"
    BY <1>1, <1>3, <1>4, <2>4, <2>5 DEF Spoken, NoValue
  <2>7. Conflict(M, T)
    BY <2>6 DEF Conflict
  <2>8. QED BY <1>0, <2>7
<1>8. QED
  BY <1>6, <1>7

LEMMA StepIsLoud ==
  ASSUME LInv, [Next]_vars
  PROVE  [\A f \in Findings : Dismissed(f) /\ ~Dismissed(f)' =>
            \/ FpOverridden(log, Of(f))'
            \/ FpReassertionBlocked(log, Of(f))'
            \/ RefutedAwaitingSignoff(Base, log, Of(f))'
            \/ Conflict(log, Of(f))'
            \/ \E i \in Of(f)' \ Of(f) : log'[i].src = "triage_report"]_log
<1> SUFFICES ASSUME log' # log, NEW f \in Findings, Dismissed(f), ~Dismissed(f)'
             PROVE  \/ Conflict(log, Of(f))'
                    \/ \E i \in Of(f)' \ Of(f) : log'[i].src = "triage_report"
  OBVIOUS
<1>1. PICK r \in Runs : Submit(r) /\ Fresh(run[r].ev)
  BY OnlySubmitWrites
<1>2. run[r].ev.ref = f
  BY <1>1, OthersStay
<1>3. QED
  BY <1>1, <1>2, SubmitIsLoud

\* A finding is brought back from "false positive" only in the open: the two
\* sides of the dispute are both in the record and raise the conflict flag,
\* or a fresh triage verdict has superseded the one that was accepted.
THEOREM DismissalsEndLoudly == Spec => DismissalEndsLoudly
<1>1. Spec => []LInv
  BY LInvInitially, LInvIsInductive, PTL DEF Spec
<1>2. QED
  BY <1>1, StepIsLoud, PTL DEF Spec, DismissalEndsLoudly

\* The events that decide the resolution when a verification report spoke.
Verifications(L, S) ==
  {i \in S : L[i].src = "verification_report" /\ L[i].resolution # NoValue}

\* A verification report outranks every other source of a resolution.
LEMMA VerificationDecides ==
  ASSUME NEW L, NEW S, Verifications(L, S) # {}
  PROVE  Resolution(L, S) = L[Latest(L, Verifications(L, S))].resolution
<1> DEFINE spoken == {i \in S : L[i].resolution # NoValue}
           best   == {i \in spoken : \A j \in spoken :
                         ResolutionTier(L[i]) <= ResolutionTier(L[j])}
<1>1. Verifications(L, S) \subseteq spoken
  BY DEF Verifications
<1>2. \A i \in spoken : /\ ResolutionTier(L[i]) \in {0, 1, 2}
                        /\ ResolutionTier(L[i]) = 0 <=> i \in Verifications(L, S)
  BY DEF ResolutionTier, Verifications
<1>3. PICK x : x \in Verifications(L, S)
  OBVIOUS
<1>4. best = Verifications(L, S)
  <2>1. ASSUME NEW i \in best PROVE i \in Verifications(L, S)
    <3>1. i \in spoken /\ ResolutionTier(L[i]) <= ResolutionTier(L[x])
      BY <1>1, <1>3
    <3>2. QED BY <1>1, <1>2, <1>3, <3>1
  <2>2. ASSUME NEW i \in Verifications(L, S) PROVE i \in best
    BY <1>1, <1>2, <2>2
  <2>3. QED BY <2>1, <2>2
<1>5. spoken # {}
  BY <1>1
<1>6. QED
  BY <1>4, <1>5 DEF Resolution

LEMMA TicketsDoNotDecide ==
  ASSUME NEW n, NEW m, NEW L, NEW M, NEW S, Extends(n, m, L, M, S),
         NEW T, T = S \/ (T = S \cup {n + 1} /\ M[n + 1].src # "verification_report"),
         Verifications(L, S) # {}
  PROVE  Resolution(M, T) = Resolution(L, S)
<1> DEFINE V == Verifications(L, S)
<1>1. V \in SUBSET S /\ \A i \in S : M[i] = L[i]
  BY DEF Verifications, Extends
<1>2. Verifications(M, T) = V
  BY <1>1 DEF Verifications
<1> HIDE DEF V
<1>3. V # {}
  BY DEF V
<1>4. M[Latest(M, V)] = L[Latest(L, V)]
  BY <1>1, <1>3, LastAgrees
<1>5. Resolution(L, S) = L[Latest(L, V)].resolution
  BY VerificationDecides DEF V
<1>6. Verifications(M, T) # {}
  BY <1>2, <1>3
<1>7. Resolution(M, T) = M[Latest(M, V)].resolution
  BY <1>2, <1>6, VerificationDecides
<1>8. QED
  BY <1>4, <1>5, <1>7

LEMMA StepOutranks ==
  ASSUME LInv, [Next]_vars
  PROVE  [\A f \in Findings :
            LET reports == {i \in Of(f) : log[i].src = "verification_report" /\
                                          log[i].resolution # NoValue}
            IN reports # {} /\ Resolution(log, Of(f)) # Resolution(log, Of(f))'
                 => \E i \in Of(f)' \ Of(f) : log'[i].src = "verification_report"]_log
<1> SUFFICES ASSUME log' # log, NEW f \in Findings,
                    Verifications(log, Of(f)) # {},
                    Resolution(log, Of(f)) # Resolution(log, Of(f))'
             PROVE  \E i \in Of(f)' \ Of(f) : log'[i].src = "verification_report"
  BY DEF Verifications
<1>1. PICK r \in Runs : Submit(r) /\ Fresh(run[r].ev)
  BY OnlySubmitWrites
<1>2. PICK L, M, n, m, S, T, e :
        /\ L = log /\ M = log' /\ n = Len(log) /\ m = MaxTime
        /\ S = Of(f) /\ T = Of(f)' /\ e = run[r].ev
  OBVIOUS
<1>3. /\ Extends(n, m, L, M, S)
      /\ T = S \cup {n + 1} \/ T = S
      /\ M[n + 1] = e
  BY <1>1, <1>2, AppendExtends
<1>4. Verifications(L, S) # {} /\ Resolution(L, S) # Resolution(M, T)
  BY <1>2
<1>5. T = S \cup {n + 1} /\ M[n + 1].src = "verification_report"
  <2> SUFFICES ASSUME T = S \/ (T = S \cup {n + 1} /\ M[n + 1].src # "verification_report")
               PROVE  FALSE
    BY <1>3
  <2>1. Resolution(M, T) = Resolution(L, S)
    BY <1>3, <1>4, TicketsDoNotDecide
  <2>2. QED BY <1>4, <2>1
<1>6. n + 1 \in T \ S
  BY <1>3, <1>5 DEF Extends
<1>7. QED
  BY <1>2, <1>5, <1>6

\* Once a verification report has spoken about a finding, its resolution
\* changes only with another verification report: no ticket, signature or
\* other report, however late, closes or reopens it.
THEOREM ReportsOutrankTickets == Spec => VerificationOutranksTickets
<1>1. Spec => []LInv
  BY LInvInitially, LInvIsInductive, PTL DEF Spec
<1>2. QED
  BY <1>1, StepOutranks, PTL DEF Spec, VerificationOutranksTickets
=============================================================================
