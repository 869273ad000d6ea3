------------------------------ MODULE SweepProofs ------------------------------
(***************************************************************************)
(* No advisory falls out of a sweep: for every fleet, every answer of OSV  *)
(* and every verdict of the manifest checks, what hits is a row, a refuted *)
(* row or a rejected input.  The argument: the record that represents a    *)
(* display id has the highest band of the records that collapse into it,   *)
(* so no record at the floor is lost with its id; and a row collects the   *)
(* hits of every one of them, so no module is.                             *)
(***************************************************************************)
EXTENDS Sweep, FiniteSetTheorems, WellFoundedInduction, TLAPS

LEMMA BandsAreRanks == \A r \in Records : Band(r) \in 0 .. 4
BY DataAssumption DEF Band

LEMMA LeastMember ==
  ASSUME NEW S \in SUBSET Nat, S # {}
  PROVE  \E n \in S : \A m \in S : n <= m
<1>1. PICK n \in S : \A m \in S : <<m, n>> \notin OpToRel(<, Nat)
  BY WFMin, NatLessThanWellFounded, Zenon
<1>2. \A m \in S : ~(m < n)
  BY <1>1 DEF OpToRel
<1>3. QED
  BY <1>2

\* Some member has the highest band of all.
LEMMA HighestBand ==
  ASSUME NEW S \in SUBSET Records, S # {}
  PROVE  \E r \in S : \A s \in S : Band(s) <= Band(r)
<1> DEFINE Short == {4 - Band(r) : r \in S}
<1>1. Short \in SUBSET Nat /\ Short # {}
  BY BandsAreRanks
<1>2. PICK n \in Short : \A m \in Short : n <= m
  <2> HIDE DEF Short
  <2> QED BY <1>1, LeastMember
<1>3. PICK r \in S : n = 4 - Band(r)
  BY <1>2
<1>4. \A s \in S : 4 - Band(r) <= 4 - Band(s)
  BY <1>2, <1>3
<1>5. QED
  BY <1>4, BandsAreRanks

\* The representative is a member, and no member ranks above it.
LEMMA RepresentativeRanksFirst ==
  ASSUME NEW details \in SUBSET Records, NEW id, NEW r \in details, Display[r] = id
  PROVE  /\ Representative(id, details) \in Members(id, details)
         /\ Band(r) <= Band(Representative(id, details))
<1> DEFINE M   == Members(id, details)
           Top == {t \in M : \A s \in M : Band(s) <= Band(t)}
           First1(t) == \A s \in M : Band(t) > Band(s) \/ (Band(t) = Band(s) /\ t <= s)
<1>1. M \in SUBSET Records /\ r \in M
  BY DEF Members
<1>2. Top # {}
  <2>1. \E t \in M : \A s \in M : Band(s) <= Band(t)
    <3> HIDE DEF M
    <3> QED BY <1>1, HighestBand
  <2>2. QED BY <2>1
<1>3. Top \in SUBSET Nat
  BY <1>1, DataAssumption
<1>4. PICK t \in Top : \A s \in Top : t <= s
  <2> HIDE DEF Top
  <2> QED BY <1>2, <1>3, LeastMember
<1>5. t \in M /\ First1(t)
  <2> SUFFICES ASSUME NEW s \in M
               PROVE  Band(t) > Band(s) \/ (Band(t) = Band(s) /\ t <= s)
    BY <1>4
  <2>1. Band(s) <= Band(t) /\ Band(s) \in 0 .. 4 /\ Band(t) \in 0 .. 4
    BY <1>1, <1>4, BandsAreRanks
  <2>2. Band(s) = Band(t) => s \in Top
    BY <1>4
  <2>3. QED BY <2>1, <2>2, <1>4
<1>6. Representative(id, details) = CHOOSE u \in M : First1(u)
  BY DEF Representative
<1>7. (CHOOSE u \in M : First1(u)) \in M /\ First1(CHOOSE u \in M : First1(u))
  <2> HIDE DEF M, First1
  <2> QED BY <1>5
<1>8. Band(r) <= Band(CHOOSE u \in M : First1(u))
  <2> DEFINE u == CHOOSE u \in M : First1(u)
  <2>1. u \in M /\ First1(u)
    BY <1>7
  <2>2. Band(u) \in 0 .. 4 /\ Band(r) \in 0 .. 4
    BY <2>1, <1>1, BandsAreRanks
  <2> HIDE DEF u
  <2>3. Band(u) > Band(r) \/ Band(u) = Band(r)
    BY <2>1, <1>1
  <2>4. Band(r) <= Band(u)
    BY <2>2, <2>3
  <2> USE DEF u
  <2>5. QED BY <2>4
<1>9. QED
  BY <1>6, <1>7, <1>8

-----------------------------------------------------------------------------
(* Types.                                                                  *)

LEMMA InitTyped == Init => TypeOK
BY DataAssumption, BoundsAssumption DEF Init, TypeOK, NoWorklist, Stopped

LEMMA RowsTyped ==
  ASSUME NEW details, NEW answered
  PROVE  Rows(details, answered) \in SUBSET Row
<1>1. Candidates(details, answered) \in SUBSET Commands
  BY DEF Candidates
<1>2. \A c \in Commands : c[1] \in Ids
  BY DEF Commands
<1> DEFINE good == Candidates(details, answered) \ BadCommands
<1>3. \A id \in {c[1] : c \in good} :
        [id |-> id, malicious |-> Representative(id, details) \in Malicious,
         commands |-> {c \in good : c[1] = id}] \in Row
  <2> SUFFICES ASSUME NEW id \in {c[1] : c \in good}
               PROVE  [id |-> id, malicious |-> Representative(id, details) \in Malicious,
                       commands |-> {c \in good : c[1] = id}] \in Row
    OBVIOUS
  <2>1. id \in Ids /\ {c \in good : c[1] = id} \in SUBSET (Commands \ BadCommands)
    BY <1>1, <1>2
  <2>2. (Representative(id, details) \in Malicious) \in BOOLEAN
    OBVIOUS
  <2> HIDE DEF good
  <2>3. QED
    BY <2>1, <2>2, Zenon DEF Row
<1>4. Rows(details, answered) =
        {[id |-> id, malicious |-> Representative(id, details) \in Malicious,
          commands |-> {c \in good : c[1] = id}] : id \in {c[1] : c \in good}}
  BY DEF Rows
<1>5. QED
  <2> HIDE DEF good
  <2> QED BY <1>3, <1>4

LEMMA DocumentTyped ==
  ASSUME NEW answered \in SUBSET Pairs, NEW missing \in SUBSET Hits(answered), NEW verdict
  PROVE  Document(Hits(answered) \ missing, missing, answered, verdict)
           \in [status : {"none", "failed", "degraded", "complete"},
                unanswered : SUBSET Pairs, missing : Nat,
                rows : SUBSET Row, refuted : SUBSET Row,
                rejectedIds : SUBSET BadIds, rejected : SUBSET BadCommands]
<1>1. Cardinality(missing) \in Nat
  BY DataAssumption, FS_Subset, FS_CardinalityType DEF Hits
<1>2. QED
  BY <1>1, RowsTyped DEF Document

LEMMA SweepCounted ==
  ASSUME sweeps \in 0 .. MaxSweeps, sweeps < MaxSweeps
  PROVE  sweeps + 1 \in 0 .. MaxSweeps
BY BoundsAssumption

LEMMA StepTyped == TypeOK /\ [Next]_vars => TypeOK'
<1> SUFFICES ASSUME TypeOK, [Next]_vars PROVE TypeOK'
  OBVIOUS
<1> USE DEF TypeOK
<1>1. CASE SweepFleet
  <2>0. PICK answered \in SUBSET Pairs : \E missing \in SUBSET Hits(answered) : \E verdict :
          worklist' = Document(Hits(answered) \ missing, missing, answered, verdict)
    BY <1>1 DEF SweepFleet
  <2>1. PICK missing \in SUBSET Hits(answered) : \E verdict :
          worklist' = Document(Hits(answered) \ missing, missing, answered, verdict)
    BY <2>0
  <2>2. sweeps' \in 0 .. MaxSweeps
    BY <1>1, SweepCounted DEF SweepFleet
  <2>3. QED
    <3>1. worklist' \in [status : {"none", "failed", "degraded", "complete"},
                         unanswered : SUBSET Pairs, missing : Nat,
                         rows : SUBSET Row, refuted : SUBSET Row,
                         rejectedIds : SUBSET BadIds, rejected : SUBSET BadCommands]
      <4>1. PICK verdict :
              worklist' = Document(Hits(answered) \ missing, missing, answered, verdict)
        BY <2>1
      <4>2. QED BY <4>1, DocumentTyped
    <3>2. UNCHANGED <<artifacts, analysed, runner, kills>>
      BY <1>1 DEF SweepFleet
    <3>3. QED BY <2>2, <3>1, <3>2
<1>2. CASE FailSweep
  <2>1. sweeps' \in 0 .. MaxSweeps
    BY <1>2, SweepCounted DEF FailSweep
  <2>2. FailedWorklist \in [status : {"none", "failed", "degraded", "complete"},
                            unanswered : SUBSET Pairs, missing : Nat,
                            rows : SUBSET Row, refuted : SUBSET Row,
                            rejectedIds : SUBSET BadIds, rejected : SUBSET BadCommands]
    BY DEF FailedWorklist, NoWorklist
  <2>3. QED
    BY <1>2, <2>1, <2>2 DEF FailSweep
<1>3. CASE Start
  <2>1. Work(worklist.rows) \subseteq Commands \ BadCommands
    BY DEF Work, Row
  <2>2. QED
    BY <1>3, <2>1, BoundsAssumption DEF Start
<1>4. CASE SkipExisting
  BY <1>4 DEF SkipExisting, Advance
<1>5. CASE \E c \in Commands : Succeeds(c)
  <2>1. PICK c \in Commands : Succeeds(c)
    BY <1>5
  <2>2. c[1] \in Ids
    BY DEF Commands
  <2>3. QED
    <3>1. runner' = [runner EXCEPT !.work = @ \ {First(@)}, !.streak = 0]
      BY <2>1 DEF Succeeds, Advance
    <3>2. 0 \in 0 .. Streak - 1
      BY BoundsAssumption
    <3>3. QED BY <2>1, <2>2, <3>1, <3>2 DEF Succeeds
<1>6. CASE \E c \in Commands : Fails(c)
  <2>1. PICK c \in Commands : Fails(c)
    BY <1>6
  <2>2. c[1] \in Ids
    BY DEF Commands
  <2>3. CASE Sustained(runner.streak + 1)
    BY <2>1, <2>2, <2>3, BoundsAssumption DEF Fails, Stopped
  <2>4. CASE ~Sustained(runner.streak + 1)
    <3>1. runner.streak + 1 \in 0 .. Streak - 1
      BY <2>4, BoundsAssumption DEF Sustained
    <3>2. QED BY <2>1, <2>2, <2>4, <3>1 DEF Fails, Advance
  <2>5. QED BY <2>3, <2>4
<1>7. CASE Finish
  BY <1>7, BoundsAssumption DEF Finish, Stopped
<1>8. CASE KillRunner
  BY <1>8, BoundsAssumption DEF KillRunner, Stopped
<1>9. CASE UNCHANGED vars
  BY <1>9 DEF vars
<1>10. QED
  BY <1>1, <1>2, <1>3, <1>4, <1>5, <1>6, <1>7, <1>8, <1>9 DEF Next

\* Every state of a sweep and of the runner has its type: in particular the
\* runner has given up before its failures in a row reach the abort streak
\* (run_impact_sweep.py).
THEOREM TypeCorrect == Spec => []TypeOK
BY InitTyped, StepTyped, PTL DEF Spec

-----------------------------------------------------------------------------
(* Nothing is silently clean.                                              *)

\* A row of this module's Rows, named.
RowOf(id, details, answered) ==
  [id        |-> id,
   malicious |-> Representative(id, details) \in Malicious,
   commands  |-> {c \in Candidates(details, answered) \ BadCommands : c[1] = id}]

LEMMA CommandHasItsRow ==
  ASSUME NEW details, NEW answered, NEW c \in Candidates(details, answered) \ BadCommands
  PROVE  /\ RowOf(c[1], details, answered) \in Rows(details, answered)
         /\ RowOf(c[1], details, answered).id = c[1]
         /\ c \in RowOf(c[1], details, answered).commands
BY DEF RowOf, Rows

LEMMA HitIsACandidate ==
  ASSUME NEW answered \in SUBSET Pairs,
         NEW r \in Records, Band(r) >= MinRank,
         NEW p \in HitBy[r] \cap answered,
         Display[r] \notin BadIds
  PROVE  <<Display[r], ModuleOf[p]>> \in Candidates(Hits(answered), answered)
<1> DEFINE id == Display[r]
<1>1. r \in Hits(answered) /\ Hits(answered) \in SUBSET Records
  BY DEF Hits
<1>2. r \in Members(id, Hits(answered))
  BY <1>1 DEF Members
<1>3. /\ Representative(id, Hits(answered)) \in Records
      /\ Band(r) <= Band(Representative(id, Hits(answered)))
  BY <1>1, RepresentativeRanksFirst DEF Members
<1>4. Band(Representative(id, Hits(answered))) >= MinRank
  <2>1. Band(Representative(id, Hits(answered))) \in 0 .. 4 /\ Band(r) \in 0 .. 4
    BY <1>3, BandsAreRanks
  <2>2. QED BY <1>3, <2>1, BoundsAssumption
<1>5. id \in Listed(Hits(answered))
  BY <1>1, <1>4 DEF Listed
<1>6. ModuleOf[p] \in HitModules(id, Hits(answered), answered)
  BY <1>2 DEF HitModules
<1>7. <<id, ModuleOf[p]>> \in Commands
  BY DataAssumption DEF Commands
<1>8. QED
  BY <1>5, <1>6, <1>7 DEF Candidates

LEMMA ListedHit ==
  ASSUME NEW answered \in SUBSET Pairs, NEW r \in Records, Band(r) >= MinRank,
         NEW p \in HitBy[r] \cap answered
  PROVE  Display[r] \in Listed(Hits(answered))
<1>1. r \in Hits(answered) /\ Hits(answered) \in SUBSET Records
  BY DEF Hits
<1>2. /\ Representative(Display[r], Hits(answered)) \in Records
      /\ Band(r) <= Band(Representative(Display[r], Hits(answered)))
  BY <1>1, RepresentativeRanksFirst DEF Members
<1>3. /\ Band(Representative(Display[r], Hits(answered))) \in 0 .. 4
      /\ Band(r) \in 0 .. 4
  BY <1>2, BandsAreRanks
<1>4. QED
  BY <1>1, <1>2, <1>3, BoundsAssumption DEF Listed

LEMMA DocumentAccounts ==
  ASSUME NEW answered \in SUBSET Pairs, NEW missing \in SUBSET Hits(answered), NEW verdict,
         worklist' = Document(Hits(answered) \ missing, missing, answered, verdict)
  PROVE  NothingIsSilentlyClean'
<1>1. IsFiniteSet(missing)
  BY DataAssumption, FS_Subset DEF Hits
<1>2. /\ worklist'.unanswered = Pairs \ answered
      /\ worklist'.missing = Cardinality(missing)
      /\ worklist'.status = IF answered = Pairs /\ missing = {} THEN "complete" ELSE "degraded"
  BY DEF Document
<1>3. worklist'.status = "complete" => worklist'.unanswered = {} /\ worklist'.missing = 0
  BY <1>2, FS_EmptySet
<1>4. ASSUME worklist'.missing = 0,
             NEW r \in Records, Band(r) >= MinRank,
             NEW p \in HitBy[r] \ worklist'.unanswered
      PROVE  Accounted(r, p)'
  <2>1. missing = {}
    BY <1>1, <1>2, <1>4, FS_EmptySet
  <2>2. p \in HitBy[r] \cap answered
    BY <1>2, <1>4, DataAssumption
  <2> DEFINE c == <<Display[r], ModuleOf[p]>>
             H == Hits(answered)
             row == RowOf(Display[r], H, answered)
  <2>a. Hits(answered) \ missing = H
    BY <2>1
  <2>3. worklist' = Document(H, missing, answered, verdict)
    BY <2>a
  <2>b. worklist'.rejectedIds = Listed(H) \cap BadIds
    <3>1. Document(H, missing, answered, verdict).rejectedIds = Listed(H) \cap BadIds
      <4> HIDE DEF H, c, row
      <4> QED BY DEF Document
    <3>2. QED BY <2>3, <3>1
  <2>c. worklist'.rejected = Candidates(H, answered) \cap BadCommands
    BY <2>3 DEF Document
  <2>4. CASE Display[r] \in BadIds
    <3>1. Display[r] \in worklist'.rejectedIds
      BY <2>2, <2>b, <2>4, <1>4, ListedHit
    <3>2. QED BY <3>1 DEF Accounted
  <2>5. CASE Display[r] \notin BadIds
    <3>1. c \in Candidates(H, answered)
      BY <2>2, <2>5, <1>4, HitIsACandidate
    <3>2. CASE c \in BadCommands
      <4>1. c \in worklist'.rejected
        BY <2>c, <3>1, <3>2
      <4>2. QED BY <4>1 DEF Accounted
    <3>3. CASE c \notin BadCommands
      <4>1. row \in Rows(H, answered) /\ row.id = Display[r] /\ c \in row.commands
        BY <3>1, <3>3, CommandHasItsRow
      <4>2. Rows(H, answered) = worklist'.rows \cup worklist'.refuted
        BY <2>3 DEF Document
      <4>3. QED
        BY <4>1, <4>2 DEF Accounted
    <3>4. QED BY <3>2, <3>3
  <2>6. QED BY <2>4, <2>5
<1>5. QED
  BY <1>3, <1>4 DEF NothingIsSilentlyClean

LEMMA StepAccounts == NothingIsSilentlyClean /\ [Next]_vars => NothingIsSilentlyClean'
<1> SUFFICES ASSUME NothingIsSilentlyClean, [Next]_vars PROVE NothingIsSilentlyClean'
  OBVIOUS
<1>1. CASE SweepFleet
  <2>0. PICK answered \in SUBSET Pairs : \E missing \in SUBSET Hits(answered) : \E verdict :
          worklist' = Document(Hits(answered) \ missing, missing, answered, verdict)
    BY <1>1 DEF SweepFleet
  <2>1. PICK missing \in SUBSET Hits(answered) : \E verdict :
          worklist' = Document(Hits(answered) \ missing, missing, answered, verdict)
    BY <2>0
  <2>2. QED BY <2>1, DocumentAccounts
<1>2. CASE FailSweep
  <2>1. worklist'.status = "failed"
    BY <1>2 DEF FailSweep, FailedWorklist, NoWorklist
  <2>2. QED BY <2>1 DEF NothingIsSilentlyClean
<1>3. CASE UNCHANGED worklist
  BY <1>3 DEF NothingIsSilentlyClean, Accounted
<1>4. QED
  BY <1>1, <1>2, <1>3
  DEF Next, vars, Start, SkipExisting, Succeeds, Fails, Finish, KillRunner

\* No advisory at the floor falls out of a sweep that got its details: what
\* hits an answered pair is a row, a refuted row or a rejected input, under
\* its own module (fleet_sweep.py).
THEOREM NothingFallsOut == Spec => []NothingIsSilentlyClean
<1>1. Init => NothingIsSilentlyClean
  BY DEF Init, NothingIsSilentlyClean, NoWorklist
<1>2. QED
  BY <1>1, StepAccounts, PTL DEF Spec
=============================================================================
