---------------------------- MODULE EmissionProofs ----------------------------
(***************************************************************************)
(* What the emitters owe a verdict, for every set of reports, emitters and *)
(* kills.  The argument goes through the rows that were submitted: each of *)
(* them has all its events in the log and all its items in the queue, and  *)
(* conversely every event and every entry of the register -- or of a copy  *)
(* of it that an emitter is about to write -- is owed to one of them.      *)
(***************************************************************************)
EXTENDS Emission, TLAPS

EventsOfRow(r)  == IF r \in TriageRows THEN TriageEvents(r) ELSE ValidationEvents(r)
ItemsOfRow(r)   == IF r \in TriageRows THEN TriageItems(r) ELSE ValidationItems(r)
EntriesOfRow(r) == IF r \in TriageRows THEN TriageEntries(r) ELSE ValidationEntries(r)
Author(r)       == IF r \in TriageRows THEN "triage" ELSE "validation"

Rows       == TriageRows \cup ValidationRows
AllEvents  == UNION {EventsOfRow(r) : r \in Rows}
AllItems   == UNION {ItemsOfRow(r) : r \in Rows}
AllEntries == UNION {EntriesOfRow(r) : r \in Rows}

\* What an emitter may be doing.
Plan(r, s, g) ==
  [step |-> s, by |-> Author(r), row |-> r, events |-> EventsOfRow(r),
   items |-> ItemsOfRow(r), entries |-> EntriesOfRow(r), grew |-> g]

Merging(r, g, c) ==
  [step |-> "merge", by |-> Author(r), row |-> r, entries |-> EntriesOfRow(r),
   grew |-> g, copy |-> c]

IsSession(s) ==
  \/ s = Idle
  \/ s = [step |-> "build"]
  \/ \E r \in Rows, g \in BOOLEAN : s = Plan(r, "submit", g) \/ s = Plan(r, "register", g)
  \/ \E r \in Rows, g \in BOOLEAN, c \in SUBSET AllEntries : s = Merging(r, g, c)
  \/ \E n \in Nat : s = [step |-> "write", upto |-> n]

Typed ==
  /\ log \in Seq(AllEvents)
  /\ review \subseteq AllItems
  /\ register \subseteq AllEntries
  /\ run = [p \in Emitters |-> run[p]] /\ \A p \in Emitters : IsSession(run[p])
  /\ current \in 0 .. Len(log)
  /\ done \subseteq Rows
  /\ \A p \in Emitters : run[p].step = "write" => run[p].upto <= Len(log)

\* An emitter that reached the register has submitted its row.
Submitted == \A p \in Emitters : run[p].step \in {"register", "merge"} => run[p].row \in done

\* Whatever a submitted row is due is there.
Delivered ==
  \A r \in done : /\ \A e \in EventsOfRow(r) : InLog(e)
                  /\ ItemsOfRow(r) \subseteq review

\* Nothing is there but what a submitted row is due.
Owed ==
  /\ \A i \in DOMAIN log : \E r \in done : log[i] \in EventsOfRow(r)
  /\ \A x \in register : \E r \in done : x \in EntriesOfRow(r)
  /\ \A p \in Emitters : run[p].step = "merge" =>
       \A x \in run[p].copy : \E r \in done : x \in EntriesOfRow(r)

IInv == Typed /\ Submitted /\ Delivered /\ Owed

-----------------------------------------------------------------------------
(* Rows and plans.                                                         *)

LEMMA RowsDiffer == \A r \in ValidationRows : r \notin TriageRows
<1> SUFFICES ASSUME NEW r \in ValidationRows, r \in TriageRows PROVE FALSE
  OBVIOUS
<1>1. r \in TriageRow /\ r \in ValidationRow
  BY RowsAssumption
<1>2. "attested" \in DOMAIN r
  BY <1>1 DEF ValidationRow
<1>3. "attested" \notin DOMAIN r
  BY <1>1 DEF TriageRow
<1>4. QED BY <1>2, <1>3

\* At most one event per row.
LEMMA OneEvent ==
  ASSUME NEW r \in Rows
  PROVE  EventsOfRow(r) = {} \/ \E e \in AllEvents : EventsOfRow(r) = {e}
<1>1. EventsOfRow(r) \subseteq AllEvents
  BY DEF AllEvents
<1>2. EventsOfRow(r) = {} \/ \E e : EventsOfRow(r) = {e}
  BY DEF EventsOfRow, TriageEvents, ValidationEvents
<1>3. QED BY <1>1, <1>2

\* What a session is, read off its step.
LEMMA SessionShape ==
  ASSUME NEW s, IsSession(s)
  PROVE  /\ s.step \in {"submit", "register"} =>
              \E r \in Rows, g \in BOOLEAN : s = Plan(r, s.step, g)
         /\ s.step = "merge" =>
              \E r \in Rows, g \in BOOLEAN, c \in SUBSET AllEntries : s = Merging(r, g, c)
         /\ s.step = "write" => \E n \in Nat : s = [step |-> "write", upto |-> n]
         /\ s.step \in {"idle", "submit", "register", "merge", "build", "write"}
BY DEF IsSession, Idle, Plan, Merging

LEMMA PlansAreSessions ==
  ASSUME NEW r \in Rows, NEW g \in BOOLEAN, NEW c \in SUBSET AllEntries
  PROVE  /\ IsSession(Plan(r, "submit", g)) /\ IsSession(Plan(r, "register", g))
         /\ IsSession(Merging(r, g, c))
BY Zenon DEF IsSession

\* A plan that was submitted.
LEMMA PlanMoves ==
  ASSUME NEW r, NEW g, NEW b
  PROVE  [Plan(r, "submit", g) EXCEPT !.step = "register", !.grew = b] = Plan(r, "register", b)
<1>1. [Plan(r, "submit", g) EXCEPT !.step = "register"] = Plan(r, "register", g)
  BY DEF Plan
<1>2. [Plan(r, "register", g) EXCEPT !.grew = b] = Plan(r, "register", b)
  BY DEF Plan
<1>3. \A s : [s EXCEPT !.step = "register", !.grew = b]
             = [[s EXCEPT !.step = "register"] EXCEPT !.grew = b]
  OBVIOUS
<1>4. QED
  <2> DEFINE P == Plan(r, "submit", g)
  <2>1. [P EXCEPT !.step = "register", !.grew = b]
        = [[P EXCEPT !.step = "register"] EXCEPT !.grew = b]
    BY <1>3
  <2>2. QED BY <1>1, <1>2, <2>1

\* The fields a plan is read by.
LEMMA PlanFields ==
  ASSUME NEW r, NEW s, NEW g, NEW c
  PROVE  /\ Plan(r, s, g).step = s /\ Plan(r, s, g).by = Author(r)
         /\ Plan(r, s, g).row = r /\ Plan(r, s, g).events = EventsOfRow(r)
         /\ Plan(r, s, g).items = ItemsOfRow(r) /\ Plan(r, s, g).entries = EntriesOfRow(r)
         /\ Plan(r, s, g).grew = g
         /\ Merging(r, g, c).step = "merge" /\ Merging(r, g, c).by = Author(r)
         /\ Merging(r, g, c).row = r /\ Merging(r, g, c).entries = EntriesOfRow(r)
         /\ Merging(r, g, c).grew = g /\ Merging(r, g, c).copy = c
BY DEF Plan, Merging

-----------------------------------------------------------------------------
(* Every step, by its effect.                                              *)

\* A new row is planned.
LEMMA StartEffect ==
  ASSUME Typed, NEW p \in Emitters,
         (\E r \in TriageRows : EmitTriage(p, r)) \/ (\E r \in ValidationRows : EmitValidation(p, r))
  PROVE  /\ \E r \in Rows : run' = [run EXCEPT ![p] = Plan(r, "submit", FALSE)]
         /\ run[p] = Idle
         /\ UNCHANGED <<log, review, register, current, done, last, crashes>>
<1>1. CASE \E r \in TriageRows : EmitTriage(p, r)
  <2>1. PICK r \in TriageRows : EmitTriage(p, r)
    BY <1>1
  <2>2. run' = [run EXCEPT ![p] = Plan(r, "submit", FALSE)]
    BY <2>1 DEF EmitTriage, Start, Plan, Author, EventsOfRow, ItemsOfRow, EntriesOfRow
  <2>3. QED BY <2>1, <2>2 DEF EmitTriage, Start, Rows
<1>2. CASE \E r \in ValidationRows : EmitValidation(p, r)
  <2>1. PICK r \in ValidationRows : EmitValidation(p, r)
    BY <1>2
  <2>2. run' = [run EXCEPT ![p] = Plan(r, "submit", FALSE)]
    BY <2>1, RowsDiffer
       DEF EmitValidation, Start, Plan, Author, EventsOfRow, ItemsOfRow, EntriesOfRow
  <2>3. QED BY <2>1, <2>2 DEF EmitValidation, Start, Rows
<1>3. QED BY <1>1, <1>2

\* Submission of row r: the log keeps its events and gains those of r.
SubmitsRow(p, r) ==
  /\ log' \in Seq(AllEvents)
  /\ Len(log') >= Len(log)
  /\ \A i \in DOMAIN log : i \in DOMAIN log' /\ log'[i] = log[i]
  /\ \A i \in DOMAIN log' \ DOMAIN log : log'[i] \in EventsOfRow(r)
  /\ \A e \in EventsOfRow(r) : InLog(e)'
  /\ \E g \in BOOLEAN : /\ run' = [run EXCEPT ![p] = Plan(r, "register", g)]
                        /\ ~g => log' = log
  /\ review' = review \cup ItemsOfRow(r)
  /\ done' = done \cup {r}

LEMMA SubmitEffect ==
  ASSUME Typed, NEW p \in Emitters, Submit(p)
  PROVE  /\ \E r \in Rows : SubmitsRow(p, r) /\ run[p].row = r
         /\ run[p].step = "submit"
         /\ UNCHANGED <<register, current, last, runs, crashes>>
<1>1. IsSession(run[p]) /\ run[p].step = "submit"
  BY DEF Typed, Submit
<1>2. PICK r \in Rows, g \in BOOLEAN : run[p] = Plan(r, "submit", g)
  BY <1>1, SessionShape
<1>3. /\ run[p].events = EventsOfRow(r) /\ run[p].items = ItemsOfRow(r) /\ run[p].row = r
  BY <1>2, PlanFields
<1> DEFINE fresh == {e \in EventsOfRow(r) : ~InLog(e)}
<1>4. /\ log' = IF fresh = {} THEN log ELSE Append(log, CHOOSE e \in fresh : TRUE)
      /\ run' = [run EXCEPT ![p].step = "register", ![p].grew = (fresh # {})]
      /\ review' = review \cup ItemsOfRow(r)
      /\ done' = done \cup {r}
      /\ UNCHANGED <<register, current, last, runs, crashes>>
  BY <1>3 DEF Submit
<1>5. run' = [run EXCEPT ![p] = Plan(r, "register", fresh # {})]
  <2>0. \A b : [Plan(r, "submit", g) EXCEPT !.step = "register", !.grew = b] = Plan(r, "register", b)
    BY PlanMoves
  <2>1. [run[p] EXCEPT !.step = "register", !.grew = (fresh # {})] = Plan(r, "register", fresh # {})
    BY <1>2, <2>0, Zenon
  <2>2. QED BY <1>4, <2>1 DEF Typed
<1>6. log \in Seq(AllEvents)
  BY DEF Typed
<1>7. CASE fresh = {}
  <2>1. \A e \in EventsOfRow(r) : InLog(e)'
    BY <1>4, <1>7 DEF InLog
  <2>2. SubmitsRow(p, r)
    <3>1. FALSE \in BOOLEAN /\ run' = [run EXCEPT ![p] = Plan(r, "register", FALSE)] /\ log' = log
      BY <1>4, <1>5, <1>7
    <3>2. Len(log') >= Len(log)
      BY <1>6, <3>1
    <3>3. /\ log' \in Seq(AllEvents)
          /\ \A i \in DOMAIN log : i \in DOMAIN log' /\ log'[i] = log[i]
          /\ \A i \in DOMAIN log' \ DOMAIN log : log'[i] \in EventsOfRow(r)
      BY <1>6, <3>1
    <3>4. QED BY <1>4, <2>1, <3>1, <3>2, <3>3, Zenon DEF SubmitsRow
  <2>3. QED BY <1>1, <1>3, <1>4, <2>2
<1>8. CASE fresh # {}
  <2>1. PICK e \in AllEvents : EventsOfRow(r) = {e}
    BY <1>8, OneEvent
  <2>2. fresh = {e} /\ log' = Append(log, e)
    BY <1>4, <1>8, <2>1
  <2>3. /\ log' \in Seq(AllEvents) /\ Len(log') = Len(log) + 1
        /\ \A i \in DOMAIN log : i \in DOMAIN log' /\ log'[i] = log[i]
        /\ DOMAIN log' = DOMAIN log \cup {Len(log) + 1}
        /\ log'[Len(log) + 1] = e
    BY <1>6, <2>2
  <2>4. InLog(e)'
    BY <2>3 DEF InLog
  <2>5. run' = [run EXCEPT ![p] = Plan(r, "register", TRUE)]
    BY <1>5, <1>8
  <2>6. Len(log') >= Len(log)
    BY <1>6, <2>3
  <2>7. \A i \in DOMAIN log' \ DOMAIN log : log'[i] \in EventsOfRow(r)
    BY <2>1, <2>3
  <2>8. SubmitsRow(p, r)
    BY <1>4, <2>1, <2>3, <2>4, <2>5, <2>6, <2>7 DEF SubmitsRow
  <2>9. QED BY <1>1, <1>3, <1>4, <2>8
<1>9. QED BY <1>7, <1>8

\* The run of an emitter takes one of its final turns.
Turns(p) == \E s \in {Idle, [step |-> "build"]} : run' = [run EXCEPT ![p] = s]

LEMMA EndEffect ==
  ASSUME Typed, NEW p \in Emitters,
         Unregistered(p) \/ WriteRegister(p) \/ MergeRegister(p) \/ WriteCurrent(p) \/ Crash(p)
  PROVE  Turns(p) /\ UNCHANGED <<log, review, done>>
BY DEF Unregistered, WriteRegister, MergeRegister, WriteCurrent, Crash, Ended, Turns

LEMMA RegisterEffect ==
  ASSUME Typed, NEW p \in Emitters, WriteRegister(p)
  PROVE  run[p].row \in Rows /\ register' = EntriesOfRow(run[p].row)
<1>1. IsSession(run[p]) /\ run[p].step = "register"
  BY DEF Typed, WriteRegister
<1>2. PICK r \in Rows, g \in BOOLEAN : run[p] = Plan(r, "register", g)
  BY <1>1, SessionShape
<1>3. QED
  BY <1>2, PlanFields DEF WriteRegister

LEMMA MergeEffect ==
  ASSUME Typed, NEW p \in Emitters, MergeRegister(p)
  PROVE  /\ run[p].step = "merge" /\ run[p].row \in Rows
         /\ run[p].copy \subseteq AllEntries
         /\ run[p].entries = EntriesOfRow(run[p].row)
         /\ register' = IF EntriesOfRow(run[p].row) \subseteq run[p].copy THEN register
                        ELSE run[p].copy \cup EntriesOfRow(run[p].row)
<1>1. IsSession(run[p]) /\ run[p].step = "merge"
  BY DEF Typed, MergeRegister
<1>2. PICK r \in Rows, g \in BOOLEAN, c \in SUBSET AllEntries : run[p] = Merging(r, g, c)
  BY <1>1, SessionShape
<1>3. /\ run[p].row = r /\ run[p].copy = c /\ run[p].entries = EntriesOfRow(r)
  BY <1>2, PlanFields
<1>4. register' = IF run[p].entries \subseteq run[p].copy THEN register
                  ELSE run[p].copy \cup run[p].entries
  BY DEF MergeRegister, Merged
<1>5. QED
  BY <1>1, <1>3, <1>4

LEMMA ReadEffect ==
  ASSUME Typed, NEW p \in Emitters, ReadRegister(p)
  PROVE  /\ run[p].step = "register" /\ run[p].row \in Rows /\ run[p].grew \in BOOLEAN
         /\ run' = [run EXCEPT ![p] = Merging(run[p].row, run[p].grew, register)]
         /\ UNCHANGED <<log, review, register, current, done, last, crashes>>
<1>1. IsSession(run[p]) /\ run[p].step = "register"
  BY DEF Typed, ReadRegister
<1>2. PICK r \in Rows, g \in BOOLEAN : run[p] = Plan(r, "register", g)
  BY <1>1, SessionShape
<1>3. /\ run[p].row = r /\ run[p].grew = g /\ run[p].by = Author(r)
      /\ run[p].entries = EntriesOfRow(r)
  BY <1>2, PlanFields
<1>4. run' = [run EXCEPT ![p] = [step |-> "merge", by |-> Author(r), row |-> r,
                entries |-> EntriesOfRow(r), grew |-> g, copy |-> register]]
  BY <1>3 DEF ReadRegister
<1>5. run' = [run EXCEPT ![p] = Merging(run[p].row, run[p].grew, register)]
  BY <1>3, <1>4, Zenon DEF Merging
<1>6. QED
  BY <1>1, <1>3, <1>5 DEF ReadRegister

-----------------------------------------------------------------------------
(* Types.                                                                  *)

LEMMA InitHolds == Init => IInv
<1> SUFFICES ASSUME Init PROVE IInv
  OBVIOUS
<1>1. run = [p \in Emitters |-> run[p]] /\ \A p \in Emitters : IsSession(run[p]) /\ run[p].step = "idle"
  BY DEF Init, IsSession, Idle
<1>2. log \in Seq(AllEvents) /\ Len(log) = 0 /\ DOMAIN log = {}
  BY DEF Init
<1>3. Typed
  BY <1>1, <1>2 DEF Init, Typed
<1>4. Submitted /\ Delivered /\ Owed
  BY <1>1, <1>2 DEF Init, Submitted, Delivered, Owed
<1>5. QED BY <1>3, <1>4 DEF IInv

\* What keeps the type of the sessions.
LEMMA SessionsTyped ==
  ASSUME Typed, NEW p \in Emitters, NEW s, IsSession(s), run' = [run EXCEPT ![p] = s]
  PROVE  /\ run' = [q \in Emitters |-> run'[q]]
         /\ run'[p] = s /\ \A q \in Emitters : q # p => run'[q] = run[q]
         /\ \A q \in Emitters : IsSession(run'[q])
<1>1. run = [q \in Emitters |-> run[q]]
  BY DEF Typed
<1>2. run'[p] = s /\ \A q \in Emitters : q # p => run'[q] = run[q]
  BY <1>1
<1>3. run' = [q \in Emitters |-> run'[q]]
  BY <1>1
<1>4. QED BY <1>2, <1>3 DEF Typed

LEMMA StepTyped == Typed /\ [Next]_vars => Typed'
<1> SUFFICES ASSUME Typed, [Next]_vars PROVE Typed'
  OBVIOUS
<1>0. CASE UNCHANGED vars
  BY <1>0 DEF vars, Typed, IsSession, AllEvents
<1> SUFFICES ASSUME NEW p \in Emitters,
                    \/ \E r \in TriageRows : EmitTriage(p, r)
                    \/ \E r \in ValidationRows : EmitValidation(p, r)
                    \/ Submit(p) \/ ReadRegister(p) \/ ReadLayer(p)
                    \/ Unregistered(p) \/ WriteRegister(p) \/ MergeRegister(p)
                    \/ WriteCurrent(p) \/ Crash(p)
             PROVE  Typed'
  BY <1>0 DEF Next
<1>t. /\ log \in Seq(AllEvents) /\ review \subseteq AllItems /\ register \subseteq AllEntries
      /\ current \in 0 .. Len(log) /\ done \subseteq Rows /\ Len(log) \in Nat
      /\ \A q \in Emitters : run[q].step = "write" => run[q].upto <= Len(log)
  BY DEF Typed
<1>1. CASE (\E r \in TriageRows : EmitTriage(p, r)) \/ (\E r \in ValidationRows : EmitValidation(p, r))
  <2>1. PICK r \in Rows : /\ run' = [run EXCEPT ![p] = Plan(r, "submit", FALSE)]
                          /\ UNCHANGED <<log, review, register, current, done>>
    BY <1>1, StartEffect
  <2>2. IsSession(Plan(r, "submit", FALSE)) /\ Plan(r, "submit", FALSE).step = "submit"
    <3>1. FALSE \in BOOLEAN /\ register \in SUBSET AllEntries
      BY <1>t
    <3>2. IsSession(Plan(r, "submit", FALSE))
      BY <3>1, PlansAreSessions, Zenon
    <3>3. Plan(r, "submit", FALSE).step = "submit"
      BY DEF Plan
    <3>4. QED BY <3>2, <3>3
  <2>3. QED BY <1>t, <2>1, <2>2, SessionsTyped DEF Typed
<1>2. CASE Submit(p)
  <2>1. PICK r \in Rows : SubmitsRow(p, r) /\ UNCHANGED <<register, current>>
    BY <1>2, SubmitEffect
  <2>2. PICK g \in BOOLEAN : run' = [run EXCEPT ![p] = Plan(r, "register", g)]
    BY <2>1 DEF SubmitsRow
  <2>3. IsSession(Plan(r, "register", g)) /\ Plan(r, "register", g).step = "register"
    BY PlanFields DEF IsSession
  <2>4. /\ log' \in Seq(AllEvents) /\ Len(log') >= Len(log) /\ Len(log') \in Nat
        /\ review' = review \cup ItemsOfRow(r) /\ done' = done \cup {r}
    BY <2>1 DEF SubmitsRow
  <2>5. current' \in 0 .. Len(log')
    BY <1>t, <2>1, <2>4
  <2>6. \A q \in Emitters : run'[q].step = "write" => run'[q].upto <= Len(log')
    <3> SUFFICES ASSUME NEW q \in Emitters, run'[q].step = "write"
                 PROVE  run'[q].upto <= Len(log')
      OBVIOUS
    <3>1. run'[q] = run[q]
      BY <2>2, <2>3, SessionsTyped
    <3>2. PICK n \in Nat : run[q] = [step |-> "write", upto |-> n]
      BY <3>1, SessionShape DEF Typed
    <3>3. QED BY <1>t, <2>4, <3>1, <3>2
  <2>7. review' \subseteq AllItems /\ done' \subseteq Rows
    BY <1>t, <2>4 DEF AllItems
  <2>8. QED BY <1>t, <2>1, <2>2, <2>3, <2>4, <2>5, <2>6, <2>7, SessionsTyped DEF Typed
<1>3. CASE ReadRegister(p)
  <2>1. IsSession(Merging(run[p].row, run[p].grew, register))
        /\ Merging(run[p].row, run[p].grew, register).step = "merge"
    BY <1>t, <1>3, ReadEffect, PlanFields DEF IsSession
  <2>2. QED BY <1>t, <1>3, <2>1, ReadEffect, SessionsTyped DEF Typed
<1>4. CASE ReadLayer(p)
  <2>1. run' = [run EXCEPT ![p] = [step |-> "write", upto |-> Len(log)]]
        /\ UNCHANGED <<log, review, register, current, done>>
    BY <1>4 DEF ReadLayer
  <2>2. IsSession([step |-> "write", upto |-> Len(log)])
    BY <1>t DEF IsSession
  <2>3. QED BY <1>t, <2>1, <2>2, SessionsTyped DEF Typed
<1>5. CASE Unregistered(p) \/ WriteRegister(p) \/ MergeRegister(p) \/ WriteCurrent(p) \/ Crash(p)
  <2>1. PICK s \in {Idle, [step |-> "build"]} : run' = [run EXCEPT ![p] = s]
    BY <1>5, EndEffect DEF Turns
  <2>2. IsSession(s) /\ s.step \in {"idle", "build"}
    BY DEF IsSession, Idle
  <2>3. UNCHANGED <<log, review, done>>
    BY <1>5, EndEffect
  <2>4. register' \subseteq AllEntries
    <3>1. CASE WriteRegister(p)
      BY <3>1, RegisterEffect DEF AllEntries
    <3>2. CASE MergeRegister(p)
      BY <1>t, <3>2, MergeEffect DEF AllEntries
    <3>3. CASE Unregistered(p) \/ WriteCurrent(p) \/ Crash(p)
      BY <1>t, <3>3 DEF Unregistered, WriteCurrent, Crash
    <3>4. QED BY <1>5, <3>1, <3>2, <3>3
  <2>5. current' \in 0 .. Len(log)
    <3>1. CASE WriteCurrent(p)
      <4>1. PICK n \in Nat : run[p] = [step |-> "write", upto |-> n]
        BY <3>1, SessionShape DEF Typed, WriteCurrent
      <4>2. QED BY <1>t, <3>1, <4>1 DEF WriteCurrent
    <3>2. CASE Unregistered(p) \/ WriteRegister(p) \/ MergeRegister(p) \/ Crash(p)
      BY <1>t, <3>2 DEF Unregistered, WriteRegister, MergeRegister, Crash
    <3>3. QED BY <1>5, <3>1, <3>2
  <2>6. QED BY <1>t, <2>1, <2>2, <2>3, <2>4, <2>5, SessionsTyped DEF Typed
<1>6. QED BY <1>1, <1>2, <1>3, <1>4, <1>5

-----------------------------------------------------------------------------
(* Delivered and owed.                                                     *)

\* An event in the log stays in it.
LEMMA LogKeeps ==
  ASSUME NEW p, NEW r, SubmitsRow(p, r)
  PROVE  \A e : InLog(e) => InLog(e)'
BY DEF SubmitsRow, InLog

LEMMA SubmitHolds ==
  ASSUME IInv, NEW p \in Emitters, Submit(p)
  PROVE  Submitted' /\ Delivered' /\ Owed'
<1>1. PICK r \in Rows : SubmitsRow(p, r) /\ UNCHANGED <<register, current>>
  BY SubmitEffect DEF IInv
<1>2. PICK g \in BOOLEAN : run' = [run EXCEPT ![p] = Plan(r, "register", g)]
  BY <1>1 DEF SubmitsRow
<1>3. /\ Plan(r, "register", g).step = "register"
      /\ Plan(r, "register", g).row = r
      /\ IsSession(Plan(r, "register", g))
  <2>1. IsSession(Plan(r, "register", g))
    BY {} \in SUBSET AllEntries, PlansAreSessions, Zenon
  <2>2. Plan(r, "register", g).step = "register" /\ Plan(r, "register", g).row = r
    BY DEF Plan
  <2>3. QED BY <2>1, <2>2
<1>4. run'[p] = Plan(r, "register", g) /\ \A q \in Emitters : q # p => run'[q] = run[q]
  BY <1>2, <1>3, SessionsTyped DEF IInv
<1>5. done' = done \cup {r} /\ review' = review \cup ItemsOfRow(r)
  BY <1>1 DEF SubmitsRow
<1>6. Submitted'
  BY <1>3, <1>4, <1>5 DEF IInv, Submitted
<1>7. Delivered'
  <2> SUFFICES ASSUME NEW s \in done'
               PROVE  (\A e \in EventsOfRow(s) : InLog(e)') /\ ItemsOfRow(s) \subseteq review'
    BY DEF Delivered, EventsOfRow, ItemsOfRow, TriageEvents, ValidationEvents
  <2>1. CASE s = r
    BY <1>1, <1>5, <2>1 DEF SubmitsRow
  <2>2. CASE s \in done
    BY <1>1, <1>5, <2>2, LogKeeps DEF IInv, Delivered
  <2>3. QED BY <1>5, <2>1, <2>2
<1>8. Owed'
  <2>1. \A i \in DOMAIN log' : \E s \in done' : log'[i] \in EventsOfRow(s)
    <3> SUFFICES ASSUME NEW i \in DOMAIN log'
                 PROVE  \E s \in done' : log'[i] \in EventsOfRow(s)
      OBVIOUS
    <3>1. CASE i \in DOMAIN log
      <4>1. log'[i] = log[i]
        BY <1>1, <3>1 DEF SubmitsRow
      <4>2. QED BY <1>5, <3>1, <4>1 DEF IInv, Owed
    <3>2. CASE i \notin DOMAIN log
      BY <1>1, <1>5, <3>2 DEF SubmitsRow
    <3>3. QED BY <3>1, <3>2
  <2>2. \A x \in register' : \E s \in done' : x \in EntriesOfRow(s)
    BY <1>1, <1>5 DEF IInv, Owed
  <2>3. \A q \in Emitters : run'[q].step = "merge" =>
          \A x \in run'[q].copy : \E s \in done' : x \in EntriesOfRow(s)
    BY <1>3, <1>4, <1>5 DEF IInv, Owed
  <2>4. QED BY <2>1, <2>2, <2>3 DEF Owed, EventsOfRow, EntriesOfRow
<1>9. QED BY <1>6, <1>7, <1>8

\* The other steps leave the log, the queue and the rows alone.
LEMMA QuietHolds ==
  ASSUME IInv, NEW p \in Emitters, NEW s, IsSession(s),
         run' = [run EXCEPT ![p] = s], UNCHANGED <<log, review, done>>,
         s.step \in {"register", "merge"} => s.row \in done,
         \A x \in register' : \E r \in done : x \in EntriesOfRow(r),
         s.step = "merge" => \A x \in s.copy : \E r \in done : x \in EntriesOfRow(r)
  PROVE  Submitted' /\ Delivered' /\ Owed'
<1>1. run'[p] = s /\ \A q \in Emitters : q # p => run'[q] = run[q]
  BY SessionsTyped DEF IInv
<1>2. Submitted'
  BY <1>1 DEF IInv, Submitted
<1>3. Delivered'
  BY DEF IInv, Delivered, InLog
<1>4. \A q \in Emitters : run'[q].step = "merge" =>
        \A x \in run'[q].copy : \E r \in done' : x \in EntriesOfRow(r)
  BY <1>1 DEF IInv, Owed
<1>5. Owed'
  BY <1>4 DEF IInv, Owed
<1>6. QED BY <1>2, <1>3, <1>5

LEMMA StepHolds == IInv /\ [Next]_vars => IInv'
<1> SUFFICES ASSUME IInv, [Next]_vars PROVE IInv'
  OBVIOUS
<1>0. Typed'
  BY StepTyped DEF IInv
<1> SUFFICES Submitted' /\ Delivered' /\ Owed'
  BY <1>0 DEF IInv
<1>1. CASE UNCHANGED vars
  BY <1>1 DEF vars, IInv, Submitted, Delivered, Owed, InLog
<1> SUFFICES ASSUME NEW p \in Emitters,
                    \/ \E r \in TriageRows : EmitTriage(p, r)
                    \/ \E r \in ValidationRows : EmitValidation(p, r)
                    \/ Submit(p) \/ ReadRegister(p) \/ ReadLayer(p)
                    \/ Unregistered(p) \/ WriteRegister(p) \/ MergeRegister(p)
                    \/ WriteCurrent(p) \/ Crash(p)
             PROVE  Submitted' /\ Delivered' /\ Owed'
  BY <1>1 DEF Next
<1>t. Typed /\ \A x \in register : \E r \in done : x \in EntriesOfRow(r)
  BY DEF IInv, Owed
<1>2. CASE (\E r \in TriageRows : EmitTriage(p, r)) \/ (\E r \in ValidationRows : EmitValidation(p, r))
  <2>1. PICK r \in Rows : /\ run' = [run EXCEPT ![p] = Plan(r, "submit", FALSE)]
                          /\ UNCHANGED <<log, review, register, done>>
    BY <1>t, <1>2, StartEffect
  <2>2. IsSession(Plan(r, "submit", FALSE))
    <3>1. FALSE \in BOOLEAN /\ register \in SUBSET AllEntries
      BY <1>t DEF Typed
    <3>2. QED BY <3>1, PlansAreSessions, Zenon
  <2>3. Plan(r, "submit", FALSE).step = "submit"
    BY DEF Plan
  <2>4. QED BY <1>t, <2>1, <2>2, <2>3, QuietHolds
<1>3. CASE Submit(p)
  BY <1>3, SubmitHolds
<1>4. CASE ReadRegister(p)
  <2> DEFINE s == Merging(run[p].row, run[p].grew, register)
  <2>1. /\ run' = [run EXCEPT ![p] = s] /\ UNCHANGED <<log, review, register, done>>
        /\ run[p].step = "register" /\ run[p].row \in Rows /\ run[p].grew \in BOOLEAN
    BY <1>t, <1>4, ReadEffect
  <2>2. IsSession(s) /\ s.step = "merge" /\ s.row = run[p].row /\ s.copy = register
    <3>1. register \in SUBSET AllEntries
      BY <1>t DEF Typed
    <3>2. QED BY <2>1, <3>1, PlansAreSessions, PlanFields
  <2>3. run[p].row \in done
    BY <2>1 DEF IInv, Submitted
  <2> HIDE DEF s
  <2>4. QED BY <1>t, <2>1, <2>2, <2>3, QuietHolds
<1>5. CASE ReadLayer(p)
  <2>1. /\ run' = [run EXCEPT ![p] = [step |-> "write", upto |-> Len(log)]]
        /\ UNCHANGED <<log, review, register, done>>
    BY <1>5 DEF ReadLayer
  <2>2. IsSession([step |-> "write", upto |-> Len(log)])
    BY <1>t DEF Typed, IsSession
  <2>3. QED BY <1>t, <2>1, <2>2, QuietHolds
<1>6. CASE Unregistered(p) \/ WriteRegister(p) \/ MergeRegister(p) \/ WriteCurrent(p) \/ Crash(p)
  <2>1. PICK s \in {Idle, [step |-> "build"]} : run' = [run EXCEPT ![p] = s]
    BY <1>6, <1>t, EndEffect DEF Turns
  <2>2. IsSession(s) /\ s.step \in {"idle", "build"}
    BY DEF IsSession, Idle
  <2>3. UNCHANGED <<log, review, done>>
    BY <1>6, <1>t, EndEffect
  <2>4. \A x \in register' : \E r \in done : x \in EntriesOfRow(r)
    <3>1. CASE WriteRegister(p)
      <4>1. run[p].row \in done
        BY <3>1 DEF IInv, Submitted, WriteRegister
      <4>2. QED BY <1>t, <3>1, <4>1, RegisterEffect
    <3>2. CASE MergeRegister(p)
      <4>1. run[p].row \in done /\ \A x \in run[p].copy : \E r \in done : x \in EntriesOfRow(r)
        BY <3>2 DEF IInv, Submitted, Owed, MergeRegister
      <4>2. QED BY <1>t, <3>2, <4>1, MergeEffect
    <3>3. CASE Unregistered(p) \/ WriteCurrent(p) \/ Crash(p)
      BY <1>t, <3>3 DEF Unregistered, WriteCurrent, Crash
    <3>4. QED BY <1>6, <3>1, <3>2, <3>3
  <2>5. QED BY <2>1, <2>2, <2>3, <2>4, QuietHolds
<1>7. QED BY <1>2, <1>3, <1>4, <1>5, <1>6

LEMMA Invariance == Spec => []IInv
BY InitHolds, StepHolds, PTL DEF Spec

-----------------------------------------------------------------------------
(* What the vocabulary of the emitters allows.                             *)

LEMMA TriageSays ==
  ASSUME NEW r \in TriageRows
  PROVE  /\ \A e \in TriageEvents(r) :
              /\ e.ref = r.ref /\ e.src = "triage_report" /\ e.validity \in Validities
              /\ r.verdict \in {"true_positive", "hardening", "false_positive"}
              /\ e.validity = Meaning[r.verdict]
         /\ \A x \in TriageItems(r) : x.ref = r.ref /\ x.reason \in Reasons
         /\ \A x \in TriageEntries(r) : /\ x.ref = r.ref /\ x.by = "triage_report"
                                        /\ r.verdict = "false_positive"
<1>1. r \in TriageRow
  BY RowsAssumption
<1>2. \A e \in TriageEvents(r) :
        /\ r.verdict \in {"true_positive", "hardening", "false_positive"}
        /\ e = TriageEvent(r.ref, Word(r), 0)
  BY <1>1 DEF TriageEvents, TriageRow
<1>3. ASSUME r.verdict \in {"true_positive", "hardening", "false_positive"}
      PROVE  /\ TriageValidity[Word(r)] = Meaning[r.verdict]
             /\ Meaning[r.verdict] \in Validities
  BY <1>3 DEF Word, TriageValidity, Meaning, Validities
<1>4. \A f, v : /\ TriageEvent(f, v, 0).ref = f /\ TriageEvent(f, v, 0).src = "triage_report"
                /\ TriageEvent(f, v, 0).validity = TriageValidity[v]
  BY DEF TriageEvent, MachineEvent
<1>5. QED
  <2>1. \A e \in TriageEvents(r) :
              /\ e.ref = r.ref /\ e.src = "triage_report" /\ e.validity \in Validities
              /\ r.verdict \in {"true_positive", "hardening", "false_positive"}
              /\ e.validity = Meaning[r.verdict]
    BY <1>2, <1>3, <1>4
  <2>2. \A x \in TriageItems(r) : x.ref = r.ref /\ x.reason \in Reasons
    BY DEF TriageItems, Item, Reasons
  <2>3. QED BY <2>1, <2>2 DEF TriageEntries

LEMMA ValidationSays ==
  ASSUME NEW r \in ValidationRows
  PROVE  /\ \A e \in ValidationEvents(r) :
              /\ e.ref = r.ref /\ e.src = "validation_report" /\ e.validity \in Validities
              /\ r.verdict \in {"confirmed", "refuted"} /\ Ledgered(r)
              /\ e.validity = Meaning[r.verdict]
         /\ \A x \in ValidationItems(r) : x.ref = r.ref /\ x.reason \in Reasons
         /\ \A x \in ValidationEntries(r) : /\ x.ref = r.ref /\ x.by = "validation_report"
                                            /\ r.verdict = "refuted" /\ Ledgered(r)
<1>2. \A e \in ValidationEvents(r) :
        /\ r.verdict \in {"confirmed", "refuted"} /\ Ledgered(r)
        /\ e = [ValidationEvent(1, r.ref, r.verdict, 0) EXCEPT !.grade = r.grade]
  BY DEF ValidationEvents, Ledgered
<1>4. \A e \in ValidationEvents(r) :
              /\ e.ref = r.ref /\ e.src = "validation_report" /\ e.validity \in Validities
              /\ r.verdict \in {"confirmed", "refuted"} /\ Ledgered(r)
              /\ e.validity = Meaning[r.verdict]
  <2> SUFFICES ASSUME NEW e \in ValidationEvents(r)
               PROVE  /\ e.ref = r.ref /\ e.src = "validation_report"
                      /\ e.validity \in Validities /\ e.validity = Meaning[r.verdict]
    BY <1>2
  <2>1. /\ e.ref = r.ref /\ e.src = "validation_report"
        /\ e.validity = IF r.verdict = "refuted" THEN "false_positive" ELSE "confirmed"
    BY <1>2 DEF ValidationEvent, MachineEvent
  <2>2. QED BY <1>2, <2>1 DEF Validities, Meaning
<1>5. \A x \in ValidationItems(r) : x.ref = r.ref /\ x.reason \in Reasons
  BY DEF ValidationItems, Item, Reasons
<1>6. \A x \in ValidationEntries(r) : /\ x.ref = r.ref /\ x.by = "validation_report"
                                      /\ r.verdict = "refuted" /\ Ledgered(r)
  BY DEF ValidationEntries
<1>7. QED BY <1>4, <1>5, <1>6

\* Two events of one id agree on what they say.
LEMMA SameIdSameWord ==
  ASSUME NEW e, NEW d, EventId(e) = EventId(d)
  PROVE  e.src = d.src /\ e.ref = d.ref /\ e.validity = d.validity
BY DEF EventId

LEMMA EventSays ==
  ASSUME NEW r \in Rows, NEW e \in EventsOfRow(r)
  PROVE  /\ e.ref = r.ref /\ e.src = Producer(r) /\ e.validity \in Validities
         /\ r.verdict \in DOMAIN Meaning /\ e.validity = Meaning[r.verdict]
<1>1. CASE r \in TriageRows
  BY <1>1, TriageSays DEF EventsOfRow, Producer, Meaning
<1>2. CASE r \notin TriageRows
  <2>1. r \in ValidationRows
    BY <1>2 DEF Rows
  <2>2. QED BY <1>2, <2>1, ValidationSays DEF EventsOfRow, Producer, Meaning
<1>3. QED BY <1>1, <1>2

LEMMA EntrySays ==
  ASSUME NEW r \in Rows, NEW x \in EntriesOfRow(r)
  PROVE  /\ x.ref = r.ref /\ x.by = Producer(r) /\ EventsOfRow(r) # {}
         /\ r.verdict \in DOMAIN Meaning /\ Meaning[r.verdict] = "false_positive"
<1>1. CASE r \in TriageRows
  <2>1. /\ x.ref = r.ref /\ x.by = "triage_report" /\ r.verdict = "false_positive"
    BY <1>1, TriageSays DEF EntriesOfRow
  <2>2. TriageEvents(r) # {}
    BY <2>1 DEF TriageEvents
  <2>3. QED BY <1>1, <2>1, <2>2 DEF EventsOfRow, Producer, Meaning
<1>2. CASE r \notin TriageRows
  <2>1. r \in ValidationRows
    BY <1>2 DEF Rows
  <2>2. x.ref = r.ref /\ x.by = "validation_report" /\ r.verdict = "refuted" /\ Ledgered(r)
    BY <1>2, <2>1, ValidationSays DEF EntriesOfRow
  <2>3. ValidationEvents(r) # {}
    BY <2>2 DEF ValidationEvents
  <2>4. QED BY <1>2, <2>2, <2>3 DEF EventsOfRow, Producer, Meaning
<1>3. QED BY <1>1, <1>2

LEMMA InvariantTypes == IInv => TypeOK
<1> SUFFICES ASSUME IInv PROVE TypeOK
  OBVIOUS
<1>1. /\ log \in Seq(AllEvents) /\ review \subseteq AllItems /\ register \subseteq AllEntries
      /\ current \in 0 .. Len(log) /\ done \subseteq Rows
  BY DEF IInv, Typed
<1>2. \A r \in Rows : Producer(r) \in {"triage_report", "validation_report"}
  BY DEF Producer
<1>3. \A i \in DOMAIN log : /\ log[i].validity \in Validities
                            /\ log[i].src \in {"triage_report", "validation_report"}
  <2> SUFFICES ASSUME NEW i \in DOMAIN log
               PROVE  /\ log[i].validity \in Validities
                      /\ log[i].src \in {"triage_report", "validation_report"}
    OBVIOUS
  <2>1. log[i] \in AllEvents
    BY <1>1
  <2>2. PICK r \in Rows : log[i] \in EventsOfRow(r)
    BY <2>1 DEF AllEvents
  <2>3. QED BY <1>2, <2>2, EventSays
<1>4. \A x \in review : x.reason \in Reasons
  <2> SUFFICES ASSUME NEW x \in review PROVE x.reason \in Reasons
    OBVIOUS
  <2>1. PICK r \in Rows : x \in ItemsOfRow(r)
    BY <1>1 DEF AllItems
  <2>2. QED BY <2>1, TriageSays, ValidationSays DEF ItemsOfRow, Rows
<1>5. \A x \in register : x.by \in {"triage_report", "validation_report"}
  <2> SUFFICES ASSUME NEW x \in register PROVE x.by \in {"triage_report", "validation_report"}
    OBVIOUS
  <2>1. PICK r \in Rows : x \in EntriesOfRow(r)
    BY <1>1 DEF AllEntries
  <2>2. QED BY <1>2, <2>1, EntrySays
<1>6. QED BY <1>1, <1>3, <1>4, <1>5 DEF TypeOK, Rows

\* Nothing but well-formed verdicts, reasons and authors reaches the layer, the
\* queue and the register, and the cache is never ahead of the log
\* (emit_triage_ledger_events.py, emit_validation_ledger_events.py).
THEOREM TypeCorrect == Spec => []TypeOK
BY Invariance, InvariantTypes, PTL

\* The event of a submitted row is in the log, in its own words.
LEMMA RowIsLogged ==
  ASSUME IInv, NEW r \in done, EventsOfRow(r) # {}
  PROVE  Logged(r)
<1>1. r \in Rows
  BY DEF IInv, Typed
<1>2. PICK e \in EventsOfRow(r) : InLog(e)
  BY DEF IInv, Delivered
<1>3. PICK i \in DOMAIN log : EventId(log[i]) = EventId(e)
  BY <1>2 DEF InLog
<1>4. log[i].ref = e.ref /\ log[i].src = e.src /\ log[i].validity = e.validity
  BY <1>3, SameIdSameWord
<1>5. QED BY <1>1, <1>4, EventSays DEF Logged

LEMMA RowIsQueued ==
  ASSUME IInv, NEW r \in done, NEW reason, Item(r, reason) \in ItemsOfRow(r),
         reason \in {"undetermined_finding", "needs_manual_test", "unsound_refutation",
                     "quarantined_confirmation"}
  PROVE  Queued(r)
<1>1. Item(r, reason) \in review
  BY DEF IInv, Delivered
<1>2. Item(r, reason).ref = r.ref /\ Item(r, reason).reason = reason
  BY DEF Item
<1>3. QED BY <1>1, <1>2 DEF Queued

LEMMA NothingIsLost == IInv => NothingEvaporates
<1> SUFFICES ASSUME IInv, NEW r \in done,
                    r.verdict \notin {"duplicate", "inconclusive", "not_attempted"}
             PROVE  Logged(r) \/ Queued(r)
  BY DEF NothingEvaporates
<1>1. CASE r \in TriageRows
  <2>1. r.verdict \in {"undetermined", "true_positive", "hardening", "false_positive"}
    BY <1>1, RowsAssumption DEF TriageRow
  <2>2. ASSUME r.verdict \in {"hardening", "false_positive"}
                 \/ (r.verdict = "true_positive" /\ ~r.manual)
        PROVE  Logged(r)
    <3>1. EventsOfRow(r) # {}
      BY <1>1, <2>2 DEF EventsOfRow, TriageEvents
    <3>2. QED BY <3>1, RowIsLogged
  <2>3. CASE r.verdict = "undetermined"
    <3>1. Item(r, "undetermined_finding") \in ItemsOfRow(r)
      BY <1>1, <2>3 DEF ItemsOfRow, TriageItems
    <3>2. QED BY <3>1, RowIsQueued
  <2>4. CASE r.verdict = "true_positive" /\ r.manual
    <3>1. Item(r, "needs_manual_test") \in ItemsOfRow(r)
      BY <1>1, <2>4 DEF ItemsOfRow, TriageItems
    <3>2. QED BY <3>1, RowIsQueued
  <2>5. CASE r.verdict = "true_positive"
    <3>1. CASE r.manual
      BY <2>4, <2>5, <3>1
    <3>2. CASE ~r.manual
      BY <2>2, <2>5, <3>2
    <3>3. QED BY <3>1, <3>2
  <2>6. QED BY <2>1, <2>2, <2>3, <2>5
<1>2. CASE r \notin TriageRows
  <2>0. r \in ValidationRows
    BY <1>2 DEF IInv, Typed, Rows
  <2>1. r.verdict \in {"confirmed", "refuted"}
    BY <2>0, RowsAssumption DEF ValidationRow
  <2>2. CASE Ledgered(r)
    <3>1. EventsOfRow(r) # {}
      BY <1>2, <2>2 DEF EventsOfRow, ValidationEvents
    <3>2. QED BY <3>1, RowIsLogged
  <2>3. CASE Flagged(r)
    <3>1. Item(r, "unsound_refutation") \in ItemsOfRow(r)
      BY <1>2, <2>3 DEF ItemsOfRow, ValidationItems
    <3>2. QED BY <3>1, RowIsQueued
  <2>4. CASE ~Flagged(r) /\ Quarantined(r)
    <3>1. Item(r, "quarantined_confirmation") \in ItemsOfRow(r)
      BY <1>2, <2>4 DEF ItemsOfRow, ValidationItems
    <3>2. QED BY <3>1, RowIsQueued
  <2>5. QED BY <2>1, <2>2, <2>3, <2>4 DEF Ledgered
<1>3. QED BY <1>1, <1>2

\* However emitters interleave and die, a verdict that says anything of a
\* finding is, once submitted, in the log as its producer meant it or in front
\* of a human: the gates of both emitters divert, they never drop.
THEOREM VerdictsStay == Spec => []NothingEvaporates
BY Invariance, NothingIsLost, PTL

LEMMA RegisterRests == IInv => RegisterIsBacked
<1> SUFFICES ASSUME IInv, NEW x \in register
             PROVE  \E i \in Refutations(x.by) : log[i].ref = x.ref
  BY DEF RegisterIsBacked
<1>1. PICK r \in done : x \in EntriesOfRow(r)
  BY DEF IInv, Owed
<1>2. r \in Rows
  BY DEF IInv, Typed
<1>3. /\ x.ref = r.ref /\ x.by = Producer(r) /\ EventsOfRow(r) # {}
      /\ Meaning[r.verdict] = "false_positive"
  BY <1>1, <1>2, EntrySays
<1>4. PICK i \in DOMAIN log : /\ log[i].ref = r.ref /\ log[i].src = Producer(r)
                              /\ log[i].validity = Meaning[r.verdict]
  BY <1>3, RowIsLogged DEF Logged
<1>5. QED BY <1>3, <1>4 DEF Refutations

\* The register is a plain file that is written after the log, from a copy that
\* may be old: still it holds no refutation that its author did not log.
THEOREM RegisterIsTruthful == Spec => []RegisterIsBacked
BY Invariance, RegisterRests, PTL

LEMMA DismissalsAreSound == IInv => OnlySoundProbesDismiss
<1> SUFFICES ASSUME IInv,
                    NEW f \in {log[i].ref : i \in Refutations("validation_report")}
                      \cup {x.ref : x \in {y \in register : y.by = "validation_report"}}
             PROVE  \E r \in done \cap ValidationRows :
                      /\ r.ref = f /\ r.verdict = "refuted" /\ r.probe = "sound"
                      /\ r.attested = "yes" \/ (r.attested = "absent" /\ r.legacy)
  BY DEF OnlySoundProbesDismiss
<1>1. \E r \in done : /\ r \in Rows /\ r.ref = f /\ Producer(r) = "validation_report"
                      /\ r.verdict = "refuted" /\ Ledgered(r)
  <2>1. CASE \E i \in Refutations("validation_report") : f = log[i].ref
    <3>1. PICK i \in Refutations("validation_report") : f = log[i].ref
      BY <2>1
    <3>2. PICK r \in done : log[i] \in EventsOfRow(r)
      BY DEF IInv, Owed, Refutations
    <3>3. r \in Rows
      BY DEF IInv, Typed
    <3>4. /\ log[i].ref = r.ref /\ Producer(r) = "validation_report"
      BY <3>2, <3>3, EventSays DEF Refutations
    <3>5. r \in ValidationRows /\ r \notin TriageRows
      BY <3>3, <3>4 DEF Producer, Rows
    <3>6. log[i] \in ValidationEvents(r) /\ log[i].validity = "false_positive"
      BY <3>2, <3>5 DEF EventsOfRow, Refutations
    <3>7. /\ r.verdict \in {"confirmed", "refuted"} /\ Ledgered(r)
          /\ Meaning[r.verdict] = "false_positive"
      BY <3>5, <3>6, ValidationSays
    <3>8. r.verdict = "refuted"
      BY <3>7 DEF Meaning
    <3>9. QED BY <3>1, <3>3, <3>4, <3>7, <3>8
  <2>2. CASE \E x \in register : x.by = "validation_report" /\ f = x.ref
    <3>1. PICK x \in register : x.by = "validation_report" /\ f = x.ref
      BY <2>2
    <3>2. PICK r \in done : x \in EntriesOfRow(r)
      BY DEF IInv, Owed
    <3>3. r \in Rows
      BY DEF IInv, Typed
    <3>4. x.ref = r.ref /\ Producer(r) = "validation_report"
      BY <3>1, <3>2, <3>3, EntrySays
    <3>5. r \in ValidationRows /\ r \notin TriageRows
      BY <3>3, <3>4 DEF Producer, Rows
    <3>6. r.verdict = "refuted" /\ Ledgered(r)
      BY <3>2, <3>5, ValidationSays DEF EntriesOfRow
    <3>7. QED BY <3>1, <3>3, <3>4, <3>6
  <2>3. QED BY <2>1, <2>2
<1>2. PICK r \in done : /\ r \in Rows /\ r.ref = f /\ Producer(r) = "validation_report"
                        /\ r.verdict = "refuted" /\ Ledgered(r)
  BY <1>1
<1>3. r \in ValidationRows
  BY <1>2 DEF Producer, Rows
<1>4. r.attested \in {"yes", "no", "absent"}
  BY <1>3, RowsAssumption DEF ValidationRow
<1>5. r.probe = "sound" /\ (r.attested = "yes" \/ (r.attested = "absent" /\ r.legacy))
  BY <1>2, <1>4 DEF Ledgered, Flagged
<1>6. QED BY <1>2, <1>3, <1>5

\* A refutation by live validation reaches the log or the register only from a
\* sound probe in an attested environment, however emitters interleave.
THEOREM ProbesAreSound == Spec => []OnlySoundProbesDismiss
BY Invariance, DismissalsAreSound, PTL

-----------------------------------------------------------------------------
(* One emitter at a time.  Two may leave an old cache or an old register   *)
(* behind, and so may one that is killed.                                  *)

Alone == \E p : Emitters = {p}

\* Until a rebuild is due the cache is the replay of the log; while it is
\* written, what was read still is.
CacheInv ==
  /\ crashes = 0
  /\ \A p \in Emitters :
       /\ run[p].step \in {"idle", "submit"} => current = Len(log)
       /\ run[p].step \in {"register", "merge"} => run[p].grew = TRUE \/ current = Len(log)
       /\ run[p].step = "write" => run[p].upto = Len(log)

LEMMA CacheStep ==
  ASSUME Alone, MaxCrashes = 0, Typed, CacheInv, [Next]_vars
  PROVE  CacheInv'
<1>1. CASE UNCHANGED vars
  BY <1>1 DEF vars, CacheInv
<1> SUFFICES ASSUME NEW p \in Emitters,
                    \/ \E r \in TriageRows : EmitTriage(p, r)
                    \/ \E r \in ValidationRows : EmitValidation(p, r)
                    \/ Submit(p) \/ ReadRegister(p) \/ ReadLayer(p)
                    \/ Unregistered(p) \/ WriteRegister(p) \/ MergeRegister(p)
                    \/ WriteCurrent(p) \/ Crash(p)
             PROVE  CacheInv'
  BY <1>1 DEF Next
<1>a. \A q \in Emitters : q = p
  BY DEF Alone
<1>b. ~Crash(p)
  BY DEF CacheInv, Crash
<1>c. crashes' = 0
  BY <1>b DEF CacheInv, EmitTriage, EmitValidation, Start, Submit, ReadRegister, ReadLayer,
     Unregistered, WriteRegister, MergeRegister, WriteCurrent
<1>2. CASE (\E r \in TriageRows : EmitTriage(p, r)) \/ (\E r \in ValidationRows : EmitValidation(p, r))
  <2>1. PICK r \in Rows : run' = [run EXCEPT ![p] = Plan(r, "submit", FALSE)]
    BY <1>2, StartEffect
  <2>2. /\ Plan(r, "submit", FALSE).step = "submit"
        /\ run[p].step = "idle" /\ UNCHANGED <<log, current>>
    BY <1>2, StartEffect DEF Plan, Idle
  <2>3. run'[p] = Plan(r, "submit", FALSE)
    BY <2>1 DEF Typed
  <2>4. QED BY <1>a, <1>c, <2>2, <2>3 DEF CacheInv
<1>3. CASE Submit(p)
  <2>1. PICK r \in Rows : SubmitsRow(p, r) /\ run[p].step = "submit" /\ UNCHANGED current
    BY <1>3, SubmitEffect
  <2>2. PICK g \in BOOLEAN : run' = [run EXCEPT ![p] = Plan(r, "register", g)] /\ (~g => log' = log)
    BY <2>1 DEF SubmitsRow
  <2>3. run'[p] = Plan(r, "register", g)
    BY <2>2 DEF Typed
  <2>4. run'[p].step = "register" /\ run'[p].grew = g
    BY <2>3 DEF Plan
  <2>5. QED BY <1>a, <1>c, <2>1, <2>2, <2>4 DEF CacheInv
<1>4. CASE ReadRegister(p)
  <2>1. run'[p] = Merging(run[p].row, run[p].grew, register)
    BY <1>4, ReadEffect DEF Typed
  <2>2. run'[p].step = "merge" /\ run'[p].grew = run[p].grew
    BY <2>1 DEF Merging
  <2>3. QED BY <1>4, <1>a, <1>c, <2>2, ReadEffect DEF CacheInv
<1>5. CASE ReadLayer(p)
  <2>1. run'[p] = [step |-> "write", upto |-> Len(log)] /\ log' = log
    BY <1>5 DEF ReadLayer, Typed
  <2>2. QED BY <1>a, <1>c, <2>1 DEF CacheInv
<1>6. CASE WriteCurrent(p)
  <2>1. current' = Len(log) /\ log' = log /\ run'[p] = Idle
    BY <1>6 DEF WriteCurrent, Typed, CacheInv
  <2>2. QED BY <1>a, <1>c, <2>1 DEF CacheInv, Idle
<1>7. CASE Unregistered(p) \/ WriteRegister(p) \/ MergeRegister(p)
  <2>1. /\ run' = Ended(p) /\ UNCHANGED <<log, current>>
        /\ run[p].step \in {"register", "merge"}
    BY <1>7 DEF Unregistered, WriteRegister, MergeRegister
  <2>2. run'[p] = IF Rebuilds(run[p]) THEN [step |-> "build"] ELSE Idle
    BY <2>1 DEF Ended, Typed
  <2>3. CASE Rebuilds(run[p])
    BY <1>a, <1>c, <2>1, <2>2, <2>3 DEF CacheInv
  <2>4. CASE ~Rebuilds(run[p])
    <3>1. current = Len(log)
      BY <2>1, <2>4 DEF CacheInv, Rebuilds
    <3>2. QED BY <1>a, <1>c, <2>1, <2>2, <2>4, <3>1 DEF CacheInv, Idle
  <2>5. QED BY <2>3, <2>4
<1>8. QED BY <1>b, <1>2, <1>3, <1>4, <1>5, <1>6, <1>7

\* With one emitter at a time and none killed, findings-current is the replay
\* of the whole log whenever an emitter has run to its end, although it is
\* rebuilt only when the emitter appended something.
THEOREM CacheFollows ==
  ASSUME Alone, MaxCrashes = 0
  PROVE  Spec => []CurrentFollowsTheLog
<1>1. Init => CacheInv
  BY DEF Init, CacheInv, Idle
<1>2. Typed /\ CacheInv /\ [Next]_vars => CacheInv'
  BY CacheStep
<1>3. CacheInv => CurrentFollowsTheLog
  BY DEF Alone, CacheInv, CurrentFollowsTheLog, AtRest, Idle
<1>4. IInv => Typed
  BY DEF IInv
<1>5. QED
  BY <1>1, <1>2, <1>3, <1>4, Invariance, PTL DEF Spec

EntryOf(e) == [ref |-> e.ref, by |-> e.src]

\* A logged refutation has an entry of its own.
LEMMA RefutationHasEntry ==
  ASSUME NEW r \in Rows, NEW e \in EventsOfRow(r), e.validity = "false_positive"
  PROVE  EntryOf(e) \in EntriesOfRow(r)
<1>1. CASE r \in TriageRows
  <2>1. e.ref = r.ref /\ e.src = "triage_report" /\ r.verdict = "false_positive"
    BY <1>1, TriageSays DEF EventsOfRow, Meaning
  <2>2. QED BY <1>1, <2>1 DEF EntriesOfRow, TriageEntries, EntryOf
<1>2. CASE r \notin TriageRows
  <2>0. r \in ValidationRows
    BY <1>2 DEF Rows
  <2>1. e.ref = r.ref /\ e.src = "validation_report" /\ r.verdict = "refuted" /\ Ledgered(r)
    BY <1>2, <2>0, ValidationSays DEF EventsOfRow, Meaning
  <2>2. QED BY <1>2, <2>1 DEF EntriesOfRow, ValidationEntries, EntryOf
<1>3. QED BY <1>1, <1>2

\* While nobody is killed, a logged refutation is in the register or about to
\* be merged into it, and the copy it is merged into is the register itself.
RegisterInv ==
  crashes = 0 =>
    \A p \in Emitters :
      /\ run[p].step = "merge" => run[p].copy = register
      /\ \A i \in DOMAIN log : log[i].validity = "false_positive" =>
           \/ EntryOf(log[i]) \in register
           \/ run[p].step \in {"register", "merge"} /\ EntryOf(log[i]) \in run[p].entries

LEMMA RegisterStep ==
  ASSUME Alone, TriageRows = {}, Typed, RegisterInv, [Next]_vars, crashes \in Nat
  PROVE  RegisterInv' /\ crashes' \in Nat
<1>1. CASE UNCHANGED vars
  BY <1>1 DEF vars, RegisterInv, EntryOf
<1> SUFFICES ASSUME NEW p \in Emitters,
                    \/ \E r \in ValidationRows : EmitValidation(p, r)
                    \/ Submit(p) \/ ReadRegister(p) \/ ReadLayer(p)
                    \/ Unregistered(p) \/ WriteRegister(p) \/ MergeRegister(p)
                    \/ WriteCurrent(p) \/ Crash(p)
             PROVE  RegisterInv' /\ crashes' \in Nat
  BY <1>1 DEF Next
<1>a. \A q \in Emitters : q = p
  BY DEF Alone
<1>2. CASE Crash(p)
  BY <1>2 DEF Crash, RegisterInv
<1> SUFFICES ASSUME crashes = 0, crashes' = crashes PROVE RegisterInv' /\ crashes' \in Nat
  BY <1>2 DEF RegisterInv, EmitValidation, Start, Submit, ReadRegister, ReadLayer,
     Unregistered, WriteRegister, MergeRegister, WriteCurrent
<1>b. /\ run[p].step = "merge" => run[p].copy = register
      /\ \A i \in DOMAIN log : log[i].validity = "false_positive" =>
           \/ EntryOf(log[i]) \in register
           \/ run[p].step \in {"register", "merge"} /\ EntryOf(log[i]) \in run[p].entries
  BY DEF RegisterInv
<1>c. \A r \in Rows : Author(r) = "validation"
  BY DEF Rows, Author
<1> SUFFICES /\ run'[p].step = "merge" => run'[p].copy = register'
             /\ \A i \in DOMAIN log' : log'[i].validity = "false_positive" =>
                  \/ EntryOf(log'[i]) \in register'
                  \/ run'[p].step \in {"register", "merge"} /\ EntryOf(log'[i]) \in run'[p].entries
  BY <1>a DEF RegisterInv, EntryOf
<1>3. CASE \E r \in ValidationRows : EmitValidation(p, r)
  <2>1. PICK r \in Rows : run' = [run EXCEPT ![p] = Plan(r, "submit", FALSE)]
    BY <1>3, StartEffect
  <2>0. run[p].step = "idle" /\ UNCHANGED <<log, register>>
    BY <1>3 DEF EmitValidation, Start, Idle
  <2>2. /\ run'[p] = Plan(r, "submit", FALSE)
        /\ run[p].step = "idle" /\ UNCHANGED <<log, register>>
    BY <2>0, <2>1 DEF Typed
  <2>3. run'[p].step = "submit"
    BY <2>2 DEF Plan
  <2>4. QED BY <1>b, <2>2, <2>3
<1>4. CASE Submit(p)
  <2>1. PICK r \in Rows : SubmitsRow(p, r) /\ run[p].step = "submit" /\ UNCHANGED register
    BY <1>4, SubmitEffect
  <2>2. PICK g \in BOOLEAN : run' = [run EXCEPT ![p] = Plan(r, "register", g)]
    BY <2>1 DEF SubmitsRow
  <2>3. run'[p] = Plan(r, "register", g)
    BY <2>2 DEF Typed
  <2>4. run'[p].step = "register" /\ run'[p].entries = EntriesOfRow(r)
    BY <2>3 DEF Plan
  <2>5. ASSUME NEW i \in DOMAIN log', log'[i].validity = "false_positive"
        PROVE  EntryOf(log'[i]) \in register \/ EntryOf(log'[i]) \in EntriesOfRow(r)
    <3>1. CASE i \in DOMAIN log
      <4>1. log'[i] = log[i]
        BY <2>1, <3>1 DEF SubmitsRow
      <4>2. QED BY <1>b, <2>1, <2>5, <3>1, <4>1
    <3>2. CASE i \notin DOMAIN log
      <4>1. log'[i] \in EventsOfRow(r)
        BY <2>1, <3>2 DEF SubmitsRow
      <4>2. QED BY <2>5, <4>1, RefutationHasEntry
    <3>3. QED BY <3>1, <3>2
  <2>6. QED BY <2>1, <2>4, <2>5
<1>5. CASE ReadRegister(p)
  <2>0. PICK r \in Rows, g \in BOOLEAN : run[p] = Plan(r, "register", g)
    BY <1>5, ReadEffect, SessionShape DEF Typed
  <2>1. run'[p] = Merging(run[p].row, run[p].grew, register) /\ UNCHANGED <<log, register>>
    BY <1>5, ReadEffect DEF Typed
  <2>2. run[p].row = r /\ run[p].entries = EntriesOfRow(r)
    BY <2>0 DEF Plan
  <2>3. run'[p].step = "merge" /\ run'[p].copy = register /\ run'[p].entries = run[p].entries
    BY <2>1, <2>2 DEF Merging
  <2>4. QED BY <1>b, <2>1, <2>3
<1>6. CASE ReadLayer(p) \/ WriteCurrent(p)
  <2>1. /\ run[p].step \in {"build", "write"} /\ run'[p].step \in {"write", "idle"}
        /\ UNCHANGED <<log, register>>
    BY <1>6 DEF ReadLayer, WriteCurrent, Typed, Idle
  <2>2. QED BY <1>b, <2>1
<1>7. CASE Unregistered(p)
  <2>1. /\ run[p].entries = {} /\ UNCHANGED <<log, register>>
        /\ run'[p].step \in {"build", "idle"}
    BY <1>7 DEF Unregistered, Ended, Typed, Idle
  <2>2. QED BY <1>b, <2>1
<1>8. ~WriteRegister(p)
  <2> SUFFICES ASSUME WriteRegister(p) PROVE FALSE
    OBVIOUS
  <2>1. run[p].step = "register" /\ run[p].by = "triage"
    BY DEF WriteRegister
  <2>2. PICK r \in Rows, g \in BOOLEAN : run[p] = Plan(r, "register", g)
    BY <2>1, SessionShape DEF Typed
  <2>3. run[p].by = Author(r)
    BY <2>2 DEF Plan
  <2>4. QED BY <1>c, <2>1, <2>3
<1>9. CASE MergeRegister(p)
  <2>1. /\ run[p].step = "merge" /\ run[p].entries = EntriesOfRow(run[p].row)
        /\ register' = IF run[p].entries \subseteq run[p].copy THEN register
                       ELSE run[p].copy \cup run[p].entries
    BY <1>9, MergeEffect
  <2>2. register' = register \cup run[p].entries
    BY <1>b, <2>1
  <2>3. log' = log /\ run'[p].step \in {"build", "idle"}
    BY <1>9 DEF MergeRegister, Ended, Typed, Idle
  <2>4. QED BY <1>b, <2>2, <2>3
<1>10. ~Crash(p)
  BY DEF Crash
<1>11. QED BY <1>3, <1>4, <1>5, <1>6, <1>7, <1>8, <1>9, <1>10

\* When validation runs come one after another and none is killed between the
\* log and the register, every refutation of the log is in the register.
THEOREM RefutationsAreRegistered ==
  ASSUME Alone, TriageRows = {}
  PROVE  Spec => []EveryRefutationIsRegistered
<1>1. Init => RegisterInv /\ crashes \in Nat
  BY DEF Init, RegisterInv, Idle
<1>2. Typed /\ (RegisterInv /\ crashes \in Nat) /\ [Next]_vars => RegisterInv' /\ (crashes \in Nat)'
  BY RegisterStep
<1>3. RegisterInv => EveryRefutationIsRegistered
  <2> SUFFICES ASSUME RegisterInv, AtRest, crashes = 0,
                      NEW src \in {"triage_report", "validation_report"}, NEW i \in Refutations(src)
               PROVE  [ref |-> log[i].ref, by |-> src] \in register
    BY DEF EveryRefutationIsRegistered
  <2>1. PICK p \in Emitters : run[p].step = "idle"
    BY DEF Alone, AtRest, Idle
  <2>2. EntryOf(log[i]) \in register
    BY <2>1 DEF RegisterInv, Refutations
  <2>3. QED BY <2>2 DEF EntryOf, Refutations
<1>4. IInv => Typed
  BY DEF IInv
<1>5. QED
  BY <1>1, <1>2, <1>3, <1>4, Invariance, PTL DEF Spec
=============================================================================
