--------------------------- MODULE ExecutionProofs ---------------------------
(***************************************************************************)
(* Proofs about the live validation engine, for every set of findings,     *)
(* every plan and any number of runs and kills.                            *)
(***************************************************************************)
EXTENDS Execution, NaturalsInduction, WellFoundedInduction, TLAPS

-----------------------------------------------------------------------------
(* Plans are sequences of steps.                                           *)

\* Every non-empty set of naturals has a least element.
LEMMA NatLeast ==
  ASSUME NEW T \in SUBSET Nat, T # {}
  PROVE  \E x \in T : \A y \in T : x <= y
  <1> DEFINE LT == {p \in Nat \X Nat : p[1] < p[2]}
  <1>1. \E x \in T : \A y \in T : ~ (<<y, x>> \in LT)
    <2>1. IsWellFoundedOn(LT, Nat)
      BY NatLessThanWellFounded DEF OpToRel
    <2> HIDE DEF LT
    <2> QED BY <2>1, WFMin
  <1>2. \A x, y \in T : ~ (<<y, x>> \in LT) => x <= y
    <2> TAKE x \in T, y \in T
    <2>1. <<y, x>> \in Nat \X Nat /\ <<y, x>>[1] = y /\ <<y, x>>[2] = x
      OBVIOUS
    <2> QED BY <2>1
  <1> HIDE DEF LT
  <1> QED BY <1>1, <1>2

\* The concatenation of sequences over S is one.
LEMMA FlattenTyped ==
  ASSUME NEW S, NEW seqs \in Seq(Seq(S))
  PROVE  FlattenSeq(seqs) \in Seq(S)
  <1> DEFINE n == Len(seqs)
             Body(f, m) == [i \in 1 .. m |-> IF i = 1 THEN seqs[1] ELSE f[i - 1] \o seqs[i]]
             Typed(f, m) == \A i \in 1 .. m : f[i] \in Seq(S)
  <1>0. n \in Nat /\ \A i \in 1 .. n : seqs[i] \in Seq(S)
    OBVIOUS
  <1>1. CASE n = 0
    <2>1. FlattenSeq(seqs) = seqs /\ seqs = <<>>
      BY <1>1 DEF FlattenSeq
    <2> QED BY <2>1
  <1>2. CASE n # 0
    <2>1. \A m \in 1 .. n : \E f : f = Body(f, m) /\ Typed(f, m)
      <3> DEFINE Built(m) == \E f : f = Body(f, m) /\ Typed(f, m)
                 T == {m \in 1 .. n : ~Built(m)}
      <3>1. SUFFICES ASSUME T # {} PROVE FALSE
        OBVIOUS
      <3> HIDE DEF Built
      <3>2. PICK m \in T : \A k \in T : m <= k
        <4>1. T \in SUBSET Nat
          BY <1>0
        <4> HIDE DEF T
        <4> QED BY <3>1, <4>1, NatLeast
      <3>3. m \in Nat /\ 1 <= m /\ m <= n /\ seqs[m] \in Seq(S) /\ seqs[1] \in Seq(S)
        BY <1>0, <3>2
      <3>4. CASE m = 1
        <4> DEFINE f == [i \in 1 .. 1 |-> seqs[1]]
        <4>1. f = Body(f, 1) /\ Typed(f, 1)
          BY <3>3
        <4>2. Built(m)
          BY <3>4, <4>1 DEF Built
        <4> QED BY <3>2, <4>2
      <3>5. CASE m # 1
        <4>1. m - 1 \in 1 .. n /\ Built(m - 1)
          BY <1>0, <3>2, <3>3, <3>5
        <4>2. PICK g : g = Body(g, m - 1) /\ Typed(g, m - 1)
          BY <4>1 DEF Built
        <4> DEFINE last == g[m - 1] \o seqs[m]
                   f == [i \in 1 .. m |-> IF i = m THEN last ELSE g[i]]
        <4>3. last \in Seq(S)
          BY <3>3, <3>5, <4>2
        <4> HIDE DEF last
        <4>4. Typed(f, m)
          BY <3>3, <4>2, <4>3
        <4>5. ASSUME NEW i \in 1 .. m
              PROVE  f[i] = IF i = 1 THEN seqs[1] ELSE f[i - 1] \o seqs[i]
          <5>1. CASE i = m
            <6>1. m - 1 \in 1 .. m /\ m - 1 # m /\ m \in 1 .. m
              BY <3>3, <3>5
            <6>2. f[m] = last /\ f[m - 1] = g[m - 1]
              BY <6>1
            <6> QED BY <3>5, <5>1, <6>2 DEF last
          <5>2. CASE i # m
            <6>1. i \in 1 .. m - 1 /\ f[i] = g[i]
              BY <3>3, <5>2
            <6>2. g[i] = IF i = 1 THEN seqs[1] ELSE g[i - 1] \o seqs[i]
              BY <4>2, <6>1
            <6>3. i # 1 => f[i - 1] = g[i - 1]
              BY <3>3, <6>1
            <6> QED BY <6>1, <6>2, <6>3
          <5> QED BY <5>1, <5>2
        <4>6. f = Body(f, m)
          BY <4>5
        <4>7. Built(m)
          BY <4>4, <4>6 DEF Built
        <4> QED BY <3>2, <4>7
      <3> QED BY <3>4, <3>5
    <2>2. ASSUME NEW f, f = Body(f, n) PROVE Typed(f, n)
      <3> DEFINE T == {i \in 1 .. n : f[i] \notin Seq(S)}
      <3>1. SUFFICES ASSUME T # {} PROVE FALSE
        OBVIOUS
      <3>2. PICK i \in T : \A k \in T : i <= k
        <4>1. T \in SUBSET Nat
          BY <1>0
        <4> HIDE DEF T
        <4> QED BY <3>1, <4>1, NatLeast
      <3>3. i \in 1 .. n /\ f[i] \notin Seq(S)
        BY <3>2
      <3>4. f[i] = IF i = 1 THEN seqs[1] ELSE f[i - 1] \o seqs[i]
        BY <2>2, <3>3
      <3>5. CASE i = 1
        BY <1>0, <3>3, <3>4, <3>5
      <3>6. CASE i # 1
        <4>1. i - 1 \in 1 .. n /\ i - 1 \notin T
          BY <1>0, <3>2, <3>3, <3>6
        <4>2. f[i - 1] \in Seq(S) /\ seqs[i] \in Seq(S)
          BY <1>0, <3>3, <4>1
        <4> QED BY <3>3, <3>4, <3>6, <4>2
      <3> QED BY <3>5, <3>6
    <2>3. FlattenSeq(seqs) = (CHOOSE f : f = Body(f, n))[n]
      <3>1. FlattenSeq(seqs) =
              (CHOOSE f : f = [i \in 1 .. n |-> IF i = 1 THEN seqs[i] ELSE f[i - 1] \o seqs[i]])[n]
        BY <1>2 DEF FlattenSeq
      <3>2. \A f : [i \in 1 .. n |-> IF i = 1 THEN seqs[i] ELSE f[i - 1] \o seqs[i]] = Body(f, n)
        OBVIOUS
      <3> QED BY <3>1, <3>2, Zenon
    <2>4. n \in 1 .. n
      BY <1>0, <1>2
    <2> DEFINE h == CHOOSE f : f = Body(f, n)
    <2>5. h = Body(h, n)
      <3>1. \E f : f = Body(f, n)
        BY <2>1, <2>4
      <3> QED BY <3>1, Zenon
    <2> HIDE DEF h
    <2>6. Typed(h, n)
      BY <2>2, <2>5
    <2> QED BY <2>3, <2>4, <2>6 DEF h
  <1> QED BY <1>1, <1>2

Verbs   == {"apply-manifest", "create-cr", "raw", "glue", "placeholder"}
Reasons == {"", "triage", "surface", "credential", "no-poc", "deferred"}

\* The steps a plan may hold: a noop says why it is not to be run.
PlanStep ==
  [finding: Findings \cup {"none"}, verb: {"noop"} \cup Verbs,
   cls: {"safe", "mutating", "destructive"}, target: SUBSET Objects, reach: SUBSET Objects,
   undo: BOOLEAN, needs: SUBSET Nat, skip: Reasons]

Excused(s) == s.verb = "noop" => s.skip # ""

Planned == {s \in PlanStep : Excused(s)}

LEMMA StepPlanned ==
  ASSUME NEW f \in Findings \cup {"none"}, NEW verb \in {"noop"} \cup Verbs, NEW why \in Reasons,
         verb = "noop" => why # ""
  PROVE  Step(f, verb, why) \in Planned
  BY DEF Step, Planned, PlanStep, Excused

LEMMA OneIsASequence ==
  ASSUME NEW S, NEW x \in S
  PROVE  <<x>> \in Seq(S)
  OBVIOUS

LEMMA ReplayPlanned ==
  ASSUME NEW f \in Findings, NEW shape \in Finding
  PROVE  ReplayOf(f, shape) \in Seq(Planned)
  <1>1. CASE shape.skip # ""
    <2>1. shape.skip \in Reasons
      BY DEF Finding, Reasons
    <2>2. Step(f, "noop", shape.skip) \in Planned
      BY <1>1, <2>1, StepPlanned
    <2>3. ReplayOf(f, shape) = <<Step(f, "noop", shape.skip)>>
      BY <1>1 DEF ReplayOf
    <2> QED BY <2>2, <2>3, OneIsASequence
  <1>2. CASE shape.skip = "" /\ shape.pocs = <<>>
    <2>1. Step(f, "noop", "no-poc") \in Planned
      BY StepPlanned DEF Reasons
    <2>2. ReplayOf(f, shape) = <<Step(f, "noop", "no-poc")>>
      BY <1>2 DEF ReplayOf
    <2> QED BY <2>1, <2>2, OneIsASequence
  <1>3. CASE shape.skip = "" /\ shape.pocs # <<>>
    <2>1. shape.pocs \in Seq(Poc)
      BY DEF Finding
    <2>2. ASSUME NEW p \in Poc PROVE PocStep(f, p) \in Planned
      <3> DEFINE s0 == Step(f, p.verb, "")
                 s1 == [s0 EXCEPT !.cls = p.cls]
                 s2 == [s1 EXCEPT !.target = p.target]
                 s3 == [s2 EXCEPT !.reach = p.reach]
                 s4 == [s3 EXCEPT !.undo = p.undo]
      <3>1. PocStep(f, p) = s4
        BY DEF PocStep
      <3>2. s0 \in PlanStep /\ s0.verb # "noop"
        <4>1. p.verb \in Verbs /\ p.verb # "noop" /\ "" \in Reasons
          BY <2>2 DEF Poc, Verbs, Reasons
        <4>2. s0 \in Planned
          BY <4>1, StepPlanned
        <4> QED BY <4>1, <4>2 DEF Planned, Step
      <3> HIDE DEF s0
      <3>3. s1 \in PlanStep /\ s1.verb # "noop"
        BY <3>2 DEF PlanStep, Poc
      <3> HIDE DEF s1
      <3>4. s2 \in PlanStep /\ s2.verb # "noop"
        BY <3>3 DEF PlanStep, Poc
      <3> HIDE DEF s2
      <3>5. s3 \in PlanStep /\ s3.verb # "noop"
        BY <3>4 DEF PlanStep, Poc
      <3> HIDE DEF s3
      <3>6. s4 \in PlanStep /\ s4.verb # "noop"
        BY <3>5 DEF PlanStep, Poc
      <3> HIDE DEF s4
      <3> QED BY <3>1, <3>6 DEF Planned, Excused
    <2>3. ReplayOf(f, shape) = [i \in 1 .. Len(shape.pocs) |-> PocStep(f, shape.pocs[i])]
      <3>1. DOMAIN shape.pocs = 1 .. Len(shape.pocs)
        BY <2>1
      <3>2. ReplayOf(f, shape) = [i \in DOMAIN shape.pocs |-> PocStep(f, shape.pocs[i])]
        BY <1>3 DEF ReplayOf
      <3> QED BY <3>1, <3>2
    <2> QED BY <2>1, <2>2, <2>3
  <1> QED BY <1>1, <1>2, <1>3

LEMMA PlansAreTyped ==
  ASSUME NEW w \in Worlds
  PROVE  Steps(w) \in Seq(Planned)
  <1>1. w.finding \in [Findings -> Finding]
    BY BoundsAssumption DEF World
  <1>2. Replay(w) \in Seq(Planned)
    <2> DEFINE parts == [i \in DOMAIN Order |-> ReplayOf(Order[i], w.finding[Order[i]])]
    <2>1. DOMAIN Order = 1 .. Len(Order) /\ Len(Order) \in Nat /\ \A i \in DOMAIN Order : Order[i] \in Findings
      BY PathsAssumption
    <2>2. \A i \in DOMAIN Order : parts[i] \in Seq(Planned)
      BY <1>1, <2>1, ReplayPlanned
    <2>3. parts \in Seq(Seq(Planned))
      BY <2>1, <2>2
    <2> HIDE DEF parts
    <2> QED BY <2>3, FlattenTyped DEF Replay, parts
  <1>3. ASSUME NEW f \in Findings PROVE Glue(w, f) \in Planned
    <2> DEFINE s0 == Step(f, "glue", "")
               probes == {i \in DOMAIN Replay(w) : Replay(w)[i].finding = f /\ Replay(w)[i].verb # "noop"}
               first  == {i \in probes : \A j \in probes : i <= j}
    <2>1. s0 \in PlanStep /\ s0.verb = "glue"
      <3>1. s0 \in Planned
        BY StepPlanned DEF Verbs, Reasons
      <3> QED BY <3>1 DEF Planned, Step
    <2>2. first \in SUBSET Nat
      BY <1>2
    <2>3. Glue(w, f) = [s0 EXCEPT !.needs = first]
      BY DEF Glue
    <2> HIDE DEF s0, first
    <2> QED BY <2>1, <2>2, <2>3 DEF PlanStep, Planned, Excused
  <1>4. Chained(w) \in Seq(Planned)
    <2> DEFINE part(c) == [i \in DOMAIN Chains[c] |-> Glue(w, Chains[c][i])]
               parts == [c \in DOMAIN Chains |-> part(c)]
    <2>1. ASSUME NEW c \in DOMAIN Chains PROVE part(c) \in Seq(Planned)
      <3>1. Chains[c] \in Seq(Findings)
        BY PathsAssumption
      <3>2. DOMAIN Chains[c] = 1 .. Len(Chains[c]) /\ Len(Chains[c]) \in Nat
            /\ \A i \in DOMAIN Chains[c] : Chains[c][i] \in Findings
        BY <3>1
      <3> QED BY <1>3, <3>2
    <2>2. DOMAIN Chains = 1 .. Len(Chains) /\ Len(Chains) \in Nat
      BY PathsAssumption
    <2>3. parts \in Seq(Seq(Planned))
      <3> HIDE DEF part
      <3> QED BY <2>1, <2>2
    <2>4. Chained(w) = FlattenSeq(parts)
      BY DEF Chained
    <2> HIDE DEF parts
    <2> QED BY <2>3, <2>4, FlattenTyped
  <1>5. Novel \in Planned
    BY StepPlanned DEF Novel, Verbs, Reasons
  <1> HIDE DEF Novel
  <1> QED BY <1>2, <1>4, <1>5 DEF Steps

\* A plan has a length, and positions from 1 to it.
LEMMA PlansAreSequences ==
  \A w \in Worlds : DOMAIN Steps(w) = 1 .. Len(Steps(w)) /\ Len(Steps(w)) \in Nat
  <1> TAKE w \in Worlds
  <1> QED BY PlansAreTyped

-----------------------------------------------------------------------------
(* The shape of a run.                                                     *)

Line == [step: Nat, verdict: Verdicts]

\* Where the run stands in its plan.
Placed ==
  /\ world \in Worlds
  /\ phase \in {"stopped", "reported", "stepping", "undo", "record"}
  /\ plan = <<>> \/ plan = Steps(world)
  /\ phase # "stopped" => plan = Steps(world)
  /\ at \in Nat /\ at >= 1
  /\ phase \in {"undo", "record"} => at \in DOMAIN plan
  /\ phase = "reported" => at \notin DOMAIN plan

\* The step under way, and the log.
Logged ==
  /\ current \in StepResult
  /\ phase \in {"undo", "record"} => current.ran
  /\ audit \in Seq(Line)

\* What is known of the results of a run.
Passed ==
  \A i \in DOMAIN done : /\ i \in Nat /\ i < at
                         /\ done[i] \in StepResult
                         /\ done[i].verdict = "refuted" => done[i].clean /\ ~world.undeployed
                         /\ done[i].verdict \in {"confirmed", "refuted"} => done[i].ran

\* The prefix of a plan below its pointer.
LEMMA PlanIsASequence ==
  ASSUME Placed, plan # <<>>
  PROVE  Len(plan) \in Nat /\ DOMAIN plan = 1 .. Len(plan)
  BY PlansAreSequences DEF Placed

LEMMA GateKeepsType ==
  ASSUME NEW res \in StepResult
  PROVE  /\ GateVerdict(res) \in StepResult
         /\ GateVerdict(res).ran = res.ran
         /\ GateVerdict(res).rollback = res.rollback
         /\ GateVerdict(res).verdict = "refuted" => GateVerdict(res).clean /\ ~world.undeployed
         /\ GateVerdict(res).verdict \in {"confirmed", "refuted"} =>
              res.verdict \in {"confirmed", "refuted"}
  BY DEF GateVerdict, StepResult, Verdicts

LEMMA ResultIsTyped ==
  ASSUME NEW v \in Verdicts, NEW r \in BOOLEAN
  PROVE  /\ Result(v, r) \in StepResult
         /\ Result(v, r).verdict = v /\ Result(v, r).ran = r /\ Result(v, r).rollback = "none"
         /\ Result(v, r).rejected = FALSE
  BY DEF Result, StepResult

\* What every way of recording a result does.
LEMMA RecordFacts ==
  ASSUME Placed, Logged, Passed, NEW res \in StepResult, Record(res),
         phase \in {"stepping", "record"}, at \in DOMAIN plan,
         UNCHANGED <<world, plan, skip, current>>,
         res.verdict \in {"confirmed", "refuted"} => res.ran
  PROVE  Placed' /\ Logged' /\ Passed'
  <1> DEFINE g == GateVerdict(res)
  <1>1. g \in StepResult /\ g.ran = res.ran
        /\ (g.verdict = "refuted" => g.clean /\ ~world.undeployed)
        /\ (g.verdict \in {"confirmed", "refuted"} => g.ran)
    BY GateKeepsType
  <1>2. world' = world /\ at \in Nat /\ at >= 1 /\ plan = Steps(world) /\ plan' = plan
    BY DEF Placed
  <1>3. audit' = Append(audit, [step |-> at, verdict |-> g.verdict]) /\ at' = at + 1
        /\ phase' = "stepping"
        /\ done' = [i \in DOMAIN done \cup {at} |-> IF i = at THEN g ELSE done[i]]
    BY DEF Record
  <1> HIDE DEF g
  <1>4. Placed' /\ Logged'
    <2>1. at' \in Nat /\ at' >= 1
      BY <1>2, <1>3
    <2>2. Placed'
      BY <2>1, <1>2, <1>3 DEF Placed
    <2>3. g.verdict \in Verdicts
      BY <1>1 DEF StepResult
    <2>4. [step |-> at, verdict |-> g.verdict] \in Line
      BY <2>3, <1>2 DEF Line
    <2>5. audit' \in Seq(Line)
      BY <2>4, <1>3 DEF Logged
    <2> QED BY <2>2, <2>5, <1>3 DEF Logged
  <1>5. Passed'
    <2> SUFFICES ASSUME NEW i \in DOMAIN done'
                 PROVE  i \in Nat /\ i < at' /\ done'[i] \in StepResult
                        /\ (done'[i].verdict = "refuted" => done'[i].clean /\ ~world'.undeployed)
                        /\ (done'[i].verdict \in {"confirmed", "refuted"} => done'[i].ran)
      BY DEF Passed
    <2>0. world' = world /\ at \in Nat /\ at' = at + 1
      BY <1>2, <1>3
    <2>1. CASE i = at
      <3>1. done'[i] = g
        BY <2>1, <1>3
      <3> QED BY <2>0, <2>1, <3>1, <1>1
    <2>2. CASE i # at
      <3>1. i \in DOMAIN done /\ done'[i] = done[i]
        BY <2>2, <1>3
      <3>2. i \in Nat /\ i < at
        BY <3>1 DEF Passed
      <3>3. done[i] \in StepResult /\ (done[i].verdict = "refuted" => done[i].clean /\ ~world.undeployed)
            /\ (done[i].verdict \in {"confirmed", "refuted"} => done[i].ran)
        BY <3>1 DEF Passed
      <3>4. i < at'
        BY <3>2, <2>0
      <3> QED BY <2>0, <3>1, <3>2, <3>3, <3>4
    <2> QED BY <2>1, <2>2
  <1> QED BY <1>4, <1>5

\* A recorded step was on the plan.
LEMMA AtPlan ==
  ASSUME Placed, AtStep
  PROVE  at \in DOMAIN plan
  <1>1. plan = Steps(world)
    BY DEF Placed, AtStep
  <1> QED BY <1>1, PlansAreSequences DEF Placed, AtStep

LEMMA ShapeInit == Init => Placed /\ Logged /\ Passed
  <1> SUFFICES ASSUME Init PROVE Placed /\ Logged /\ Passed
    OBVIOUS
  <1>1. Result("not_attempted", FALSE) \in StepResult
    BY ResultIsTyped DEF Verdicts
  <1>2. DOMAIN done = {}
    BY DEF Init
  <1>3. audit \in Seq(Line)
    BY DEF Init
  <1>4. Passed
    BY <1>2 DEF Passed
  <1>5. world \in Worlds /\ phase = "stopped" /\ plan = <<>> /\ at = 1
    BY DEF Init
  <1>6. current \in StepResult
    BY <1>1 DEF Init
  <1> QED BY <1>3, <1>4, <1>5, <1>6 DEF Placed, Logged

LEMMA ShapeNext ==
  ASSUME Placed, Logged, Passed, [Next]_vars
  PROVE  Placed' /\ Logged' /\ Passed'
  <1>1. CASE Begin
    <2>1. world' = world /\ plan' = Steps(world) /\ at' = 1 /\ phase' = "stepping"
          /\ UNCHANGED <<current, audit>>
      BY <1>1 DEF Begin
    <2>2. DOMAIN done' = {}
      BY <1>1 DEF Begin
    <2>3. Placed'
      BY <2>1 DEF Placed
    <2>4. Logged'
      BY <2>1 DEF Logged
    <2> QED BY <2>2, <2>3, <2>4 DEF Passed
  <1>2. CASE PreSkipped
    <2> DEFINE v == IF skip[at] = "blocked_by_scope" THEN "blocked_by_scope" ELSE "not_attempted"
    <2>1. v \in Verdicts /\ v \notin {"confirmed", "refuted"}
      BY DEF Verdicts
    <2>2. Result(v, FALSE) \in StepResult /\ Result(v, FALSE).verdict = v
      BY <2>1, ResultIsTyped
    <2>3. at \in DOMAIN plan /\ phase = "stepping"
      BY <1>2, AtPlan DEF PreSkipped, AtStep
    <2>4. Record(Result(v, FALSE)) /\ UNCHANGED <<world, plan, skip, current>>
      BY <1>2 DEF PreSkipped, Idle
    <2> QED BY <2>1, <2>2, <2>3, <2>4, RecordFacts
  <1>3. CASE NovelPass
    <2>1. phase = "stepping" /\ at' = at + 1
          /\ UNCHANGED <<world, phase, plan, done, current, audit>>
      BY <1>3 DEF NovelPass, AtStep, Idle
    <2>2. Placed'
      BY <2>1 DEF Placed
    <2>3. Logged'
      BY <2>1 DEF Logged
    <2>4. at \in Nat /\ \A i \in Nat : i < at => i < at'
      BY <2>1 DEF Placed
    <2> QED BY <2>1, <2>2, <2>3, <2>4 DEF Passed
  <1>4. CASE Unmet \/ OutOfScope \/ Connect
    <2>1. PICK v \in {"not_attempted", "blocked_by_scope"} : Record(Result(v, FALSE))
      BY <1>4 DEF Unmet, OutOfScope, Connect
    <2>2. Result(v, FALSE) \in StepResult /\ Result(v, FALSE).verdict = v
      BY ResultIsTyped DEF Verdicts
    <2>3. AtStep /\ UNCHANGED <<world, plan, skip, current>>
      BY <1>4 DEF Unmet, OutOfScope, Connect, Permitted, Runnable, Idle
    <2>4. at \in DOMAIN plan /\ phase = "stepping"
      BY <2>3, AtPlan DEF AtStep
    <2> QED BY <2>1, <2>2, <2>3, <2>4, RecordFacts
  <1>5. CASE Execute \/ ExecuteFails
    <2>1. AtStep /\ skip[at] = ""
      BY <1>5 DEF Execute, ExecuteFails, Permitted, Runnable
    <2>2. at \in DOMAIN plan
      BY <2>1, AtPlan
    <2>3. current' \in StepResult /\ current'.ran
      <3>1. CASE Execute
        BY <3>1, BoundsAssumption DEF Execute, StepResult, Answer, Verdicts
      <3>2. CASE ExecuteFails
        BY <3>2, ResultIsTyped DEF ExecuteFails, Verdicts
      <3> QED BY <1>5, <3>1, <3>2
    <2>4. phase' \in {"undo", "record"}
          /\ UNCHANGED <<world, plan, skip, at, done, audit>>
      BY <1>5 DEF Execute, ExecuteFails, AfterRun
    <2>5. phase = "stepping"
      BY <2>1 DEF AtStep
    <2> QED BY <2>1, <2>2, <2>3, <2>4, <2>5 DEF Placed, Logged, Passed
  <1>6. CASE RollBack
    <2>1. current' \in StepResult /\ current'.ran
      <3>1. current \in StepResult /\ current.ran
        BY <1>6 DEF RollBack, Logged
      <3> QED BY <3>1, <1>6 DEF RollBack, StepResult
    <2>2. phase' = "record" /\ UNCHANGED <<world, plan, skip, at, done, audit>> /\ phase = "undo"
      BY <1>6 DEF RollBack
    <2> QED BY <2>1, <2>2 DEF Placed, Logged, Passed
  <1>7. CASE RecordStep
    <2>1. current \in StepResult /\ current.ran /\ at \in DOMAIN plan /\ phase = "record"
          /\ Record(current) /\ UNCHANGED <<world, plan, skip, current>>
      BY <1>7 DEF RecordStep, Placed, Logged
    <2> QED BY <2>1, RecordFacts
  <1>8. CASE WriteReport
    <2>1. plan = Steps(world) /\ at > Len(plan)
      BY <1>8 DEF WriteReport, Placed
    <2>2. at \notin DOMAIN plan
      <3>1. world \in Worlds /\ at \in Nat
        BY DEF Placed
      <3>2. DOMAIN plan = 1 .. Len(plan) /\ Len(plan) \in Nat
        BY <2>1, <3>1, PlansAreSequences
      <3> QED BY <2>1, <3>1, <3>2
    <2> QED BY <1>8, <2>1, <2>2 DEF WriteReport, Placed, Logged, Passed
  <1>9. CASE Expire \/ Kill \/ UNCHANGED vars
    BY <1>9 DEF Expire, Kill, vars, Placed, Logged, Passed
  <1> QED BY <1>1, <1>2, <1>3, <1>4, <1>5, <1>6, <1>7, <1>8, <1>9 DEF Next

\* Where a run stands, what its log and its results hold, in every reachable
\* state of the engine (execute.run).
THEOREM RunsAreShaped == Spec => [](Placed /\ Logged /\ Passed)
  <1> DEFINE I == Placed /\ Logged /\ Passed
  <1>1. Init => I
    BY ShapeInit
  <1>2. I /\ [Next]_vars => I'
    BY ShapeNext
  <1> QED BY <1>1, <1>2, PTL DEF Spec

-----------------------------------------------------------------------------
(* The off-limits objects.                                                 *)

Guarded ==
  /\ cluster \in [Objects -> {"absent", "operand", "probe"}]
  /\ OffLimitsUntouched
  /\ phase = "undo" => plan[at].reach \cap OffLimits = {}

LEMMA EffectsAreLocal ==
  ASSUME cluster \in [Objects -> {"absent", "operand", "probe"}],
         NEW s, NEW objects,
         NEW c \in {Effect(s, objects), Gone(objects), cluster}
  PROVE  /\ c \in [Objects -> {"absent", "operand", "probe"}]
         /\ \A o \in Objects : o \notin objects => c[o] = cluster[o]
  <1>1. CASE c = Gone(objects)
    BY <1>1 DEF Gone
  <1>2. CASE c = Made(objects)
    BY <1>2 DEF Made
  <1>3. CASE c = cluster
    BY <1>3
  <1> QED BY <1>1, <1>2, <1>3 DEF Effect

LEMMA GuardedNext ==
  ASSUME Guarded, [Next]_vars
  PROVE  Guarded'
  <1>1. ASSUME NEW some \in SUBSET Here.reach, Here.reach \cap OffLimits = {},
               NEW c \in {Effect(Here, some), Gone(some), cluster}, cluster' = c
        PROVE  /\ cluster' \in [Objects -> {"absent", "operand", "probe"}]
               /\ OffLimitsUntouched'
    <2>1. /\ c \in [Objects -> {"absent", "operand", "probe"}]
          /\ \A o \in Objects : o \notin some => c[o] = cluster[o]
      BY <1>1, EffectsAreLocal DEF Guarded
    <2>2. \A o \in OffLimits : o \in Objects /\ o \notin some
      BY <1>1, BoundsAssumption
    <2>3. \A o \in OffLimits : cluster'[o] = cluster[o]
      BY <2>1, <2>2, <1>1
    <2> QED BY <1>1, <2>1, <2>3 DEF Guarded, OffLimitsUntouched
  <1>2. CASE Execute \/ ExecuteFails
    <2>1. InScope(Actions(Here))
      BY <1>2 DEF Execute, ExecuteFails, Permitted
    <2>2. Here.reach \cap OffLimits = {}
      BY <2>1 DEF InScope, Actions
    <2>3. UNCHANGED <<plan, at>>
      BY <1>2 DEF Execute, ExecuteFails
    <2>4. /\ cluster' \in [Objects -> {"absent", "operand", "probe"}]
          /\ OffLimitsUntouched'
      <3>1. CASE Execute
        BY <3>1, <2>2, <1>1 DEF Execute
      <3>2. CASE ExecuteFails
        BY <3>2, <2>2, <1>1 DEF ExecuteFails
      <3> QED BY <1>2, <3>1, <3>2
    <2> QED BY <2>2, <2>3, <2>4 DEF Guarded, Here
  <1>3. CASE RollBack
    <2>1. Here.reach \cap OffLimits = {}
      BY <1>3 DEF RollBack, Guarded, Here
    <2>2. \E some \in SUBSET Here.reach : cluster' \in {Gone(some), cluster}
      <3>1. CASE cluster' = cluster
        BY <3>1
      <3>2. CASE cluster' = Gone(Here.reach)
        BY <3>2
      <3>3. CASE \E some \in IF CanUndo(Here) THEN SUBSET Here.reach ELSE {{}} :
                   cluster' = Gone(some)
        BY <3>3
      <3> QED BY <1>3, <3>1, <3>2, <3>3 DEF RollBack
    <2>3. /\ cluster' \in [Objects -> {"absent", "operand", "probe"}]
          /\ OffLimitsUntouched'
      BY <2>1, <2>2, <1>1
    <2>4. phase' = "record"
      BY <1>3 DEF RollBack
    <2> QED BY <2>3, <2>4 DEF Guarded
  <1>4. CASE ~(Execute \/ ExecuteFails \/ RollBack)
    <2>1. UNCHANGED cluster
      BY <1>4 DEF Next, vars, Begin, PreSkipped, NovelPass, Unmet, OutOfScope, Connect, Idle,
               RecordStep, WriteReport, Expire, Kill
    <2>2. phase' = "undo" => phase = "undo" /\ UNCHANGED <<plan, at>>
      BY <1>4 DEF Next, vars, Begin, PreSkipped, NovelPass, Unmet, OutOfScope, Connect, Idle,
               Record, RecordStep, WriteReport, Expire, Kill, AtStep, Runnable, Permitted
    <2> QED BY <2>1, <2>2 DEF Guarded, OffLimitsUntouched
  <1> QED BY <1>2, <1>3, <1>4

\* No object the engagement excludes is ever touched, whatever a command
\* declares, and by no rollback (_step_actions, Scope.is_in_scope).
THEOREM OffLimitsStay == Spec => []OffLimitsUntouched
  <1>1. Init => Guarded
    BY BoundsAssumption DEF Init, Guarded, OffLimitsUntouched
  <1>2. Guarded /\ [Next]_vars => Guarded'
    BY GuardedNext
  <1>3. Guarded => OffLimitsUntouched
    BY DEF Guarded
  <1> QED BY <1>1, <1>2, <1>3, PTL DEF Spec

-----------------------------------------------------------------------------
(* The report and the log.                                                 *)

OnLog(steps, bound) ==
  \A i \in DOMAIN steps :
    \E k \in 1 .. bound : audit[k] = [step |-> i, verdict |-> steps[i].verdict]

Audited ==
  /\ OnLog(done, Len(audit))
  /\ report.sealed \in Nat /\ report.sealed <= Len(audit)
  /\ OnLog(report.steps, report.sealed)

\* A longer log has the lines of the shorter one.
LEMMA LogGrows ==
  ASSUME audit \in Seq(Line), NEW line, line \in Line, audit' = Append(audit, line)
  PROVE  /\ Len(audit) \in Nat /\ Len(audit') = Len(audit) + 1
         /\ audit'[Len(audit) + 1] = line
         /\ \A k \in 1 .. Len(audit) : audit'[k] = audit[k]
  OBVIOUS

LEMMA AuditedRecord ==
  ASSUME Placed, Logged, Audited, NEW res \in StepResult, Record(res), UNCHANGED report
  PROVE  Audited'
  <1> DEFINE g == GateVerdict(res)
             line == [step |-> at, verdict |-> g.verdict]
  <1>1. g \in StepResult
    BY GateKeepsType
  <1>2. line \in Line
    BY <1>1 DEF Line, StepResult, Placed
  <1>3. audit' = Append(audit, line)
        /\ done' = [i \in DOMAIN done \cup {at} |-> IF i = at THEN g ELSE done[i]]
    BY DEF Record
  <1> HIDE DEF g
  <1>4. /\ Len(audit) \in Nat /\ Len(audit') = Len(audit) + 1
        /\ audit'[Len(audit) + 1] = line
        /\ \A k \in 1 .. Len(audit) : audit'[k] = audit[k]
    <2> HIDE DEF line
    <2> QED BY <1>2, <1>3, LogGrows DEF Logged
  <1>5. OnLog(done, Len(audit))'
    <2> SUFFICES ASSUME NEW i \in DOMAIN done'
                 PROVE  \E k \in 1 .. Len(audit') :
                          audit'[k] = [step |-> i, verdict |-> done'[i].verdict]
      BY DEF OnLog
    <2>1. CASE i = at
      <3>1. done'[i] = g
        BY <2>1, <1>3
      <3>2. audit'[Len(audit) + 1] = [step |-> i, verdict |-> done'[i].verdict]
        BY <2>1, <3>1, <1>4
      <3> QED BY <3>2, <1>4
    <2>2. CASE i # at
      <3>1. i \in DOMAIN done /\ done'[i] = done[i]
        BY <2>2, <1>3
      <3>2. PICK k \in 1 .. Len(audit) : audit[k] = [step |-> i, verdict |-> done[i].verdict]
        BY <3>1 DEF Audited, OnLog
      <3>3. k \in 1 .. Len(audit') /\ audit'[k] = audit[k]
        BY <1>4
      <3> QED BY <3>1, <3>2, <3>3
    <2> QED BY <2>1, <2>2
  <1>6. report'.sealed \in Nat /\ report'.sealed <= Len(audit') /\ report'.sealed <= Len(audit)
    BY <1>4 DEF Audited
  <1>7. OnLog(report.steps, report.sealed)'
    <2> SUFFICES ASSUME NEW i \in DOMAIN report.steps
                 PROVE  \E k \in 1 .. report.sealed :
                          audit'[k] = [step |-> i, verdict |-> report.steps[i].verdict]
      BY DEF OnLog
    <2>1. PICK k \in 1 .. report.sealed :
                 audit[k] = [step |-> i, verdict |-> report.steps[i].verdict]
      BY DEF Audited, OnLog
    <2>2. audit'[k] = audit[k]
      BY <1>4, <1>6
    <2> QED BY <2>1, <2>2
  <1> QED BY <1>5, <1>6, <1>7 DEF Audited

LEMMA AuditedNext ==
  ASSUME Placed, Logged, Passed, Audited, [Next]_vars
  PROVE  Audited'
  <1>1. CASE PreSkipped \/ Unmet \/ OutOfScope \/ Connect
    <2>1. PICK v \in {"not_attempted", "blocked_by_scope"} : Record(Result(v, FALSE))
      BY <1>1 DEF PreSkipped, Unmet, OutOfScope, Connect
    <2>2. Result(v, FALSE) \in StepResult
      BY ResultIsTyped DEF Verdicts
    <2>3. UNCHANGED report
      BY <1>1 DEF PreSkipped, Unmet, OutOfScope, Connect, Idle
    <2> QED BY <2>1, <2>2, <2>3, AuditedRecord
  <1>2. CASE RecordStep
    BY <1>2, AuditedRecord DEF RecordStep, Logged
  <1>3. CASE WriteReport
    <2>1. report'.steps = done /\ report'.sealed = Len(audit) /\ UNCHANGED <<done, audit>>
      BY <1>3 DEF WriteReport
    <2>2. Len(audit) \in Nat
      BY DEF Logged
    <2> QED BY <2>1, <2>2 DEF Audited, OnLog
  <1>4. CASE Begin
    <2>1. DOMAIN done' = {} /\ UNCHANGED <<audit, report>>
      BY <1>4 DEF Begin
    <2> QED BY <2>1 DEF Audited, OnLog
  <1>5. CASE NovelPass \/ Execute \/ ExecuteFails \/ RollBack \/ Expire \/ Kill \/ UNCHANGED vars
    <2>1. UNCHANGED <<done, audit, report>>
      BY <1>5 DEF NovelPass, Idle, Execute, ExecuteFails, RollBack, Expire, Kill, vars
    <2> QED BY <2>1 DEF Audited, OnLog
  <1> QED BY <1>1, <1>2, <1>3, <1>4, <1>5 DEF Next

\* What a report says of a step the audit log it is sealed over says too,
\* through any number of killed and repeated runs (record, audit.sha256).
THEOREM ReportsAreAudited == Spec => []ReportIsAudited
  <1> DEFINE I == Placed /\ Logged /\ Passed /\ Audited
  <1>1. Init => I
    <2> SUFFICES ASSUME Init PROVE Audited
      BY ShapeInit
    <2>1. DOMAIN done = {} /\ report = NoReport /\ audit = <<>>
      BY DEF Init
    <2>2. DOMAIN report.steps = {} /\ report.sealed = 0 /\ Len(audit) = 0
      BY <2>1 DEF NoReport
    <2> QED BY <2>1, <2>2 DEF Audited, OnLog
  <1>2. I /\ [Next]_vars => I'
    BY ShapeNext, AuditedNext
  <1>3. I => ReportIsAudited
    BY DEF Audited, OnLog, ReportIsAudited
  <1> QED BY <1>1, <1>2, <1>3, PTL DEF Spec

-----------------------------------------------------------------------------
(* The verdicts.                                                           *)

\* The plan is the same in every run.
Reported ==
  /\ report # NoReport => plan = Steps(world)
  /\ VerdictsRestOnProbes

\* A verdict that is rolled up is that of a step, unless nothing was tried.
LEMMA RollUpIsASteps ==
  ASSUME Passed, NEW f
  PROVE  RollUp(f) = "not_attempted" \/ \E i \in StepsOf(f, {"noop", "glue"}) : done[i].verdict = RollUp(f)
  <1> DEFINE found == {done[i].verdict : i \in StepsOf(f, {"noop", "glue"})} \cup {"not_attempted"}
             Least(v) == \A w \in found : Precedence[v] <= Precedence[w]
  <1>1. found \subseteq Verdicts
    BY DEF Passed, StepsOf, StepResult, Verdicts
  <1>2. /\ Precedence["confirmed"] = 0 /\ Precedence["refuted"] = 1
        /\ Precedence["inconclusive"] = 2 /\ Precedence["blocked_by_scope"] = 3
        /\ Precedence["not_attempted"] = 4
    BY DEF Precedence
  <1>3. "not_attempted" \in found
    OBVIOUS
  <1>4. RollUp(f) = CHOOSE v \in found : Least(v)
    BY DEF RollUp
  <1> HIDE DEF found
  <1>5. \E v \in found : Least(v)
    <2>1. CASE "confirmed" \in found
      BY <2>1, <1>1, <1>2 DEF Verdicts
    <2>2. CASE "confirmed" \notin found /\ "refuted" \in found
      BY <2>2, <1>1, <1>2 DEF Verdicts
    <2>3. CASE {"confirmed", "refuted"} \cap found = {} /\ "inconclusive" \in found
      BY <2>3, <1>1, <1>2 DEF Verdicts
    <2>4. CASE {"confirmed", "refuted", "inconclusive"} \cap found = {} /\ "blocked_by_scope" \in found
      BY <2>4, <1>1, <1>2 DEF Verdicts
    <2>5. CASE {"confirmed", "refuted", "inconclusive", "blocked_by_scope"} \cap found = {}
      BY <2>5, <1>1, <1>2, <1>3 DEF Verdicts
    <2> QED BY <2>1, <2>2, <2>3, <2>4, <2>5
  <1>6. RollUp(f) \in found
    <2> HIDE DEF Least
    <2> QED BY <1>4, <1>5
  <1> QED BY <1>6 DEF found

LEMMA ReportedNext ==
  ASSUME Placed, Logged, Passed, Reported, [Next]_vars
  PROVE  Reported'
  <1>1. CASE WriteReport
    <2>1. plan = Steps(world) /\ UNCHANGED <<world, plan>>
      BY <1>1 DEF WriteReport, Placed
    <2>2. /\ report'.verdicts = [f \in Findings |-> Backstop(f, RollUp(f))]
          /\ report'.steps = done
      BY <1>1 DEF WriteReport
    <2>3. ASSUME NEW f \in Findings, NEW v \in {"confirmed", "refuted"}, Backstop(f, RollUp(f)) = v
          PROVE  /\ \E i \in DOMAIN done : /\ plan[i].finding = f /\ done[i].ran
                                           /\ done[i].verdict = v
                                           /\ v = "refuted" => done[i].clean
                 /\ v = "refuted" => ~world.undeployed
      <3>1. RollUp(f) = v
        BY <2>3 DEF Backstop
      <3>2. PICK i \in StepsOf(f, {"noop", "glue"}) : done[i].verdict = v
        BY <3>1, RollUpIsASteps
      <3>3. i \in DOMAIN done /\ plan[i].finding = f
        BY DEF StepsOf
      <3>4. done[i].ran /\ (v = "refuted" => done[i].clean /\ ~world.undeployed)
        BY <3>2, <3>3 DEF Passed
      <3> QED BY <3>2, <3>3, <3>4
    <2>4. VerdictsRestOnProbes'
      <3> SUFFICES ASSUME NEW f \in DOMAIN report'.verdicts,
                          report'.verdicts[f] \in {"confirmed", "refuted"}
                   PROVE  /\ \E i \in DOMAIN done :
                               /\ plan[i].finding = f /\ done[i].ran
                               /\ done[i].verdict = report'.verdicts[f]
                               /\ report'.verdicts[f] = "refuted" => done[i].clean
                          /\ report'.verdicts[f] = "refuted" => ~world.undeployed
        BY <2>1, <2>2 DEF VerdictsRestOnProbes, Supports
      <3>1. f \in Findings /\ report'.verdicts[f] = Backstop(f, RollUp(f))
        BY <2>2
      <3> QED BY <3>1, <2>3
    <2> QED BY <2>1, <2>4 DEF Reported
  <1>2. CASE Begin
    <2>1. plan' = Steps(world) /\ UNCHANGED <<world, report>>
      BY <1>2 DEF Begin
    <2>2. CASE report = NoReport
      <3>1. DOMAIN report'.verdicts = {}
        BY <2>1, <2>2 DEF NoReport
      <3> QED BY <2>1, <2>2, <3>1 DEF Reported, VerdictsRestOnProbes
    <2>3. CASE report # NoReport
      <3>1. plan' = plan
        BY <2>1, <2>3 DEF Reported
      <3> QED BY <2>1, <3>1 DEF Reported, VerdictsRestOnProbes, Supports
    <2> QED BY <2>2, <2>3
  <1>3. CASE ~WriteReport /\ ~Begin
    <2>1. UNCHANGED <<world, plan, report>>
      BY <1>3 DEF Next, vars, PreSkipped, NovelPass, Unmet, OutOfScope, Connect, Idle, Execute,
               ExecuteFails, RollBack, RecordStep, Expire, Kill
    <2> QED BY <2>1 DEF Reported, VerdictsRestOnProbes, Supports
  <1> QED BY <1>1, <1>2, <1>3

\* A reported confirmation or refutation rests on a step that ran and said
\* so; a refutation on a clean transcript against a deployed operand.
THEOREM DecisionsRestOnProbes == Spec => []VerdictsRestOnProbes
  <1> DEFINE I == Placed /\ Logged /\ Passed /\ Reported
  <1>1. Init => I
    <2> SUFFICES ASSUME Init PROVE Reported
      BY ShapeInit
    <2>1. report = NoReport /\ DOMAIN report.verdicts = {}
      BY DEF Init, NoReport
    <2> QED BY <2>1 DEF Reported, VerdictsRestOnProbes
  <1>2. I /\ [Next]_vars => I'
    BY ShapeNext, ReportedNext
  <1>3. I => VerdictsRestOnProbes
    BY DEF Reported
  <1> QED BY <1>1, <1>2, <1>3, PTL DEF Spec

-----------------------------------------------------------------------------
(* The chains.                                                             *)

\* A step without a probe is skipped, so that nothing of it ever ran.
Unprobed ==
  /\ \A i \in DOMAIN plan : plan[i].verb = "noop" => skip[i] # ""
  /\ phase \in {"undo", "record"} => plan[at].verb # "noop"
  /\ \A i \in DOMAIN done : done[i].ran => plan[i].verb # "noop"

LEMMA UnprobedRecord ==
  ASSUME Unprobed, NEW res \in StepResult, Record(res), UNCHANGED <<plan, skip>>,
         res.ran => plan[at].verb # "noop"
  PROVE  Unprobed'
  <1> DEFINE g == GateVerdict(res)
  <1>1. g.ran = res.ran
    BY GateKeepsType
  <1>2. phase' = "stepping" /\ done' = [i \in DOMAIN done \cup {at} |-> IF i = at THEN g ELSE done[i]]
    BY DEF Record
  <1> HIDE DEF g
  <1>3. ASSUME NEW i \in DOMAIN done', done'[i].ran PROVE plan[i].verb # "noop"
    <2>1. CASE i = at
      BY <1>1, <1>2, <1>3, <2>1
    <2>2. CASE i # at
      BY <1>2, <1>3, <2>2 DEF Unprobed
    <2> QED BY <2>1, <2>2
  <1> QED BY <1>2, <1>3 DEF Unprobed

LEMMA UnprobedNext ==
  ASSUME Placed, Logged, Passed, Unprobed, [Next]_vars
  PROVE  Unprobed'
  <1>1. CASE Begin
    <2>1. /\ plan' = Steps(world) /\ phase' = "stepping" /\ DOMAIN done' = {}
          /\ skip' = [i \in DOMAIN Steps(world) |-> PreCheck(Steps(world)[i])]
      BY <1>1 DEF Begin
    <2>2. ASSUME NEW i \in DOMAIN plan', plan'[i].verb = "noop" PROVE skip'[i] # ""
      <3>1. Steps(world) \in Seq(Planned)
        BY PlansAreTyped DEF Placed
      <3>2. plan'[i] \in Planned
        BY <2>1, <3>1
      <3>3. skip'[i] = plan'[i].skip
        BY <2>1, <2>2 DEF PreCheck
      <3> QED BY <2>2, <3>2, <3>3 DEF Planned, Excused
    <2> QED BY <2>1, <2>2 DEF Unprobed
  <1>2. CASE PreSkipped
    <2> DEFINE v == IF skip[at] = "blocked_by_scope" THEN "blocked_by_scope" ELSE "not_attempted"
    <2>1. Result(v, FALSE) \in StepResult /\ ~Result(v, FALSE).ran
      BY ResultIsTyped DEF Verdicts
    <2>2. Record(Result(v, FALSE)) /\ UNCHANGED <<plan, skip>>
      BY <1>2 DEF PreSkipped, Idle
    <2> QED BY <2>1, <2>2, UnprobedRecord
  <1>3. CASE Unmet \/ OutOfScope \/ Connect
    <2>1. PICK v \in {"not_attempted", "blocked_by_scope"} : Record(Result(v, FALSE))
      BY <1>3 DEF Unmet, OutOfScope, Connect
    <2>2. Result(v, FALSE) \in StepResult /\ ~Result(v, FALSE).ran
      BY ResultIsTyped DEF Verdicts
    <2>3. UNCHANGED <<plan, skip>>
      BY <1>3 DEF Unmet, OutOfScope, Connect, Idle
    <2> QED BY <2>1, <2>2, <2>3, UnprobedRecord
  <1>4. CASE Execute \/ ExecuteFails
    <2>1. AtStep /\ skip[at] = ""
      BY <1>4 DEF Execute, ExecuteFails, Permitted, Runnable
    <2>2. at \in DOMAIN plan
      BY <2>1, AtPlan
    <2>3. UNCHANGED <<plan, skip, at, done>>
      BY <1>4 DEF Execute, ExecuteFails
    <2> QED BY <2>1, <2>2, <2>3 DEF Unprobed
  <1>5. CASE RollBack
    BY <1>5 DEF RollBack, Unprobed
  <1>6. CASE RecordStep
    <2>1. Record(current) /\ current \in StepResult /\ UNCHANGED <<plan, skip>> /\ plan[at].verb # "noop"
      BY <1>6 DEF RecordStep, Logged, Unprobed
    <2> QED BY <2>1, UnprobedRecord
  <1>7. CASE NovelPass \/ WriteReport \/ Expire \/ Kill \/ UNCHANGED vars
    <2>1. /\ UNCHANGED <<plan, skip, done>> /\ phase' \in {phase, "reported", "stopped"}
          /\ phase \in {"undo", "record"} => at' = at
      BY <1>7 DEF NovelPass, AtStep, Idle, WriteReport, Expire, Kill, vars
    <2> QED BY <2>1 DEF Unprobed
  <1> QED BY <1>1, <1>2, <1>3, <1>4, <1>5, <1>6, <1>7 DEF Next

\* A finding is confirmed exactly if one of its steps is.
LEMMA ConfirmedByAStep ==
  ASSUME Passed, NEW f
  PROVE  Backstop(f, RollUp(f)) = "confirmed" <=>
           \E i \in StepsOf(f, {"noop", "glue"}) : done[i].verdict = "confirmed"
  <1> DEFINE found == {done[i].verdict : i \in StepsOf(f, {"noop", "glue"})} \cup {"not_attempted"}
             Least(v) == \A w \in found : Precedence[v] <= Precedence[w]
  <1>1. Backstop(f, RollUp(f)) = "confirmed" <=> RollUp(f) = "confirmed"
    BY DEF Backstop
  <1>2. ASSUME RollUp(f) = "confirmed"
        PROVE  \E i \in StepsOf(f, {"noop", "glue"}) : done[i].verdict = "confirmed"
    BY <1>2, RollUpIsASteps
  <1>3. ASSUME NEW i \in StepsOf(f, {"noop", "glue"}), done[i].verdict = "confirmed"
        PROVE  RollUp(f) = "confirmed"
    <2>1. found \subseteq Verdicts /\ "confirmed" \in found
      BY <1>3 DEF Passed, StepsOf, StepResult, Verdicts
    <2>2. /\ Precedence["confirmed"] = 0 /\ Precedence["refuted"] = 1
          /\ Precedence["inconclusive"] = 2 /\ Precedence["blocked_by_scope"] = 3
          /\ Precedence["not_attempted"] = 4
      BY DEF Precedence
    <2>3. RollUp(f) = CHOOSE v \in found : Least(v)
      BY DEF RollUp
    <2> HIDE DEF found
    <2>4. Least("confirmed")
      BY <2>1, <2>2 DEF Verdicts
    <2>5. \A v \in found : Least(v) => v = "confirmed"
      BY <2>1, <2>2 DEF Verdicts
    <2> HIDE DEF Least
    <2> QED BY <2>1, <2>3, <2>4, <2>5
  <1> QED BY <1>1, <1>2, <1>3

\* Of the links that were tried one comes first.
LEMMA FirstTried ==
  ASSUME Passed, NEW c \in DOMAIN Chains, TriedOf(c) # {}
  PROVE  \E i \in TriedOf(c) : \A j \in TriedOf(c) : j = i \/ Sooner(c, i, j)
  <1> DEFINE path == Chains[c]
             K == {k \in DOMAIN path : \E i \in TriedOf(c) : plan[i].finding = path[k]}
  <1>1. path \in Seq(Findings) /\ DOMAIN path = 1 .. Len(path) /\ Len(path) \in Nat
    BY PathsAssumption
  <1>2. \A i \in TriedOf(c) : i \in Nat /\ \E k \in DOMAIN path : plan[i].finding = path[k]
    BY DEF TriedOf, LinksOf, StepsOf, Range, Passed
  <1> HIDE DEF path
  <1>3. K \in SUBSET Nat /\ K # {}
    BY <1>1, <1>2
  <1>4. PICK k \in K : \A l \in K : k <= l
    <2> HIDE DEF K
    <2> QED BY <1>3, NatLeast
  <1> DEFINE I == {i \in TriedOf(c) : plan[i].finding = path[k]}
  <1>5. I \in SUBSET Nat /\ I # {}
    BY <1>2, <1>4
  <1>6. PICK i \in I : \A j \in I : i <= j
    <2> HIDE DEF I
    <2> QED BY <1>5, NatLeast
  <1>7. ASSUME NEW j \in TriedOf(c), j # i PROVE Sooner(c, i, j)
    <2>1. i \in Nat /\ j \in Nat /\ plan[i].finding = path[k] /\ k \in DOMAIN path
      BY <1>2, <1>4, <1>6
    <2>2. CASE plan[j].finding = path[k]
      <3>1. i <= j
        BY <1>6, <2>2
      <3> QED BY <1>7, <2>1, <2>2, <3>1 DEF Sooner
    <2>3. CASE plan[j].finding # path[k]
      <3>1. ASSUME NEW l \in 1 .. k PROVE path[l] # plan[j].finding
        <4>1. l \in DOMAIN path /\ l <= k /\ l \in Nat /\ k \in Nat
          BY <1>1, <2>1
        <4>2. l # k => l \notin K
          <5> HIDE DEF K
          <5> QED BY <1>3, <1>4, <4>1
        <4> QED BY <2>3, <4>1, <4>2
      <3> QED BY <2>1, <2>3, <3>1 DEF Sooner, path
    <2> QED BY <2>2, <2>3
  <1> QED BY <1>6, <1>7

\* What a chain is confirmed by.
LEMMA ConfirmedByALink ==
  ASSUME Passed, NEW c \in DOMAIN Chains
  PROVE  ChainVerdict(c) = "confirmed" <=>
           ChainVerdict(c) # "none" /\ \E i \in LinksOf(c) : done[i].verdict = "confirmed"
  <1> DEFINE One == \E i \in TriedOf(c) : done[i].verdict = "confirmed"
             IsFirst(i) == \A j \in TriedOf(c) : j = i \/ Sooner(c, i, j)
             first == CHOOSE i \in TriedOf(c) : IsFirst(i)
  <1>1. One <=> \E i \in LinksOf(c) : done[i].verdict = "confirmed"
    BY DEF TriedOf
  <1>2. ChainVerdict(c) = IF Cardinality(LinksOf(c)) < 2 THEN "none"
                          ELSE IF TriedOf(c) = {} THEN "not_attempted"
                          ELSE IF One THEN "confirmed"
                          ELSE done[first].verdict
    BY DEF ChainVerdict
  <1>3. ASSUME TriedOf(c) # {}, ~One PROVE done[first].verdict \notin {"confirmed", "none"}
    <2>1. \E i \in TriedOf(c) : IsFirst(i)
      BY <1>3, FirstTried
    <2> HIDE DEF IsFirst
    <2>2. first \in TriedOf(c)
      BY <2>1
    <2> HIDE DEF first
    <2>3. done[first].verdict \in Verdicts
      BY <2>2 DEF TriedOf, LinksOf, StepsOf, Passed, StepResult
    <2> QED BY <1>3, <2>2, <2>3 DEF Verdicts
  <1>4. TriedOf(c) = {} => ~One
    OBVIOUS
  <1> HIDE DEF One, first
  <1> QED BY <1>1, <1>2, <1>3, <1>4

LEMMA ChainsNext ==
  ASSUME Placed, Logged, Passed, Unprobed, ChainsFollowFindings, [Next]_vars
  PROVE  ChainsFollowFindings'
  <1>1. CASE WriteReport
    <2>1. /\ report'.verdicts = [f \in Findings |-> Backstop(f, RollUp(f))]
          /\ report'.chains = [c \in DOMAIN Chains |-> ChainVerdict(c)]
      BY <1>1 DEF WriteReport
    <2>2. SUFFICES ASSUME NEW c \in DOMAIN Chains
                   PROVE  ChainVerdict(c) = "confirmed" <=>
                            /\ ChainVerdict(c) # "none"
                            /\ \E f \in Range(Chains[c]) : report'.verdicts[f] = "confirmed"
      BY <2>1 DEF ChainsFollowFindings
    <2>3. \A f \in Range(Chains[c]) : f \in Findings
      BY PathsAssumption DEF Range
    <2>4. ASSUME NEW i \in LinksOf(c), done[i].verdict = "confirmed"
          PROVE  \E f \in Range(Chains[c]) : report'.verdicts[f] = "confirmed"
      <3>1. PICK f \in Range(Chains[c]) : i \in StepsOf(f, {"glue"})
        BY <2>4 DEF LinksOf
      <3>2. done[i].ran
        BY <2>4, <3>1 DEF StepsOf, Passed
      <3>3. i \in StepsOf(f, {"noop", "glue"})
        BY <3>1, <3>2 DEF StepsOf, Unprobed
      <3> QED BY <2>1, <2>3, <2>4, <3>3, ConfirmedByAStep
    <2>5. ASSUME NEW f \in Range(Chains[c]), report'.verdicts[f] = "confirmed"
          PROVE  \E i \in LinksOf(c) : done[i].verdict = "confirmed"
      <3>1. Backstop(f, RollUp(f)) = "confirmed"
        BY <2>1, <2>3, <2>5
      <3>2. PICK i \in StepsOf(f, {"noop", "glue"}) : done[i].verdict = "confirmed"
        BY <3>1, ConfirmedByAStep
      <3>3. i \in StepsOf(f, {"glue"})
        BY <3>2 DEF StepsOf
      <3> QED BY <3>2, <3>3 DEF LinksOf
    <2> QED BY <2>4, <2>5, ConfirmedByALink
  <1>2. CASE ~WriteReport
    <2>1. report' = report
      BY <1>2 DEF Next, vars, Begin, PreSkipped, NovelPass, Unmet, OutOfScope, Connect, Idle, Execute,
               ExecuteFails, RollBack, RecordStep, Expire, Kill
    <2> QED BY <2>1 DEF ChainsFollowFindings
  <1> QED BY <1>1, <1>2

\* The two roll-ups of the report, over the findings and over the chains, never
\* disagree on a confirmation, whatever the plan and wherever a run was cut off.
THEOREM ChainsAgree == Spec => []ChainsFollowFindings
  <1> DEFINE I == Placed /\ Logged /\ Passed /\ Unprobed /\ ChainsFollowFindings
  <1>1. Init => I
    <2> SUFFICES ASSUME Init PROVE Unprobed /\ ChainsFollowFindings
      BY ShapeInit
    <2>1. DOMAIN plan = {} /\ DOMAIN done = {} /\ phase = "stopped" /\ DOMAIN report.chains = {}
      BY DEF Init, NoReport
    <2> QED BY <2>1 DEF Unprobed, ChainsFollowFindings
  <1>2. I /\ [Next]_vars => I'
    BY ShapeNext, UnprobedNext, ChainsNext
  <1>3. I => ChainsFollowFindings
    OBVIOUS
  <1> QED BY <1>1, <1>2, <1>3, PTL DEF Spec

-----------------------------------------------------------------------------
(* What the runs leave behind.                                             *)

\* A manifest is admitted as a whole or rejected as a whole.
AllOrNothing ==
  \A w \in Worlds : \A i \in DOMAIN Steps(w) :
    Steps(w)[i].verb # "raw" =>
      Steps(w)[i].reach \cap w.denied = {} \/ Steps(w)[i].reach \subseteq w.denied

Makes(s, o) == o \in s.reach /\ s.cls = "mutating" /\ s.verb \notin {"glue", "placeholder"}

NamedBy(i, o) == o \in plan[i].reach /\ (done[i].rollback = "failed" \/ ~done[i].ran)

\* The run has still to deal with what step i makes.
Ahead(i) ==
  \/ i > at
  \/ i = at /\ phase \in {"stepping", "undo"}
  \/ i = at /\ phase = "record" /\ current.rollback = "failed"

Left == {o \in Objects : cluster[o] = "probe"}

Traced ==
  \A o \in Left : \/ \E i \in DOMAIN done : NamedBy(i, o)
                  \/ \E i \in DOMAIN plan : Ahead(i) /\ Makes(plan[i], o)

Sourced ==
  /\ cluster \in [Objects -> {"absent", "operand", "probe"}]
  /\ \A o \in Left : /\ o \notin world.denied
                     /\ \E i \in DOMAIN Steps(world) : Makes(Steps(world)[i], o)

Undoing ==
  phase = "undo" =>
    /\ Here.cls = "mutating"
    /\ current.rejected => Here.reach \cap world.denied # {}

Pending == Sourced /\ Undoing /\ (phase # "stopped" => Traced)

\* Once the step the run was at has its result, what it left is named.
LEMMA RecordTraces ==
  ASSUME Placed, Passed, Traced, NEW res \in StepResult, Record(res),
         UNCHANGED <<cluster, plan>>,
         \A o \in Left : Ahead(at) /\ Makes(plan[at], o) => res.rollback = "failed" \/ ~res.ran
  PROVE  Traced'
  <1> DEFINE g == GateVerdict(res)
  <1>1. g.ran = res.ran /\ g.rollback = res.rollback
    BY GateKeepsType
  <1>2. at' = at + 1 /\ phase' = "stepping" /\ at \in Nat
        /\ done' = [i \in DOMAIN done \cup {at} |-> IF i = at THEN g ELSE done[i]]
    BY DEF Record, Placed
  <1> HIDE DEF g
  <1> SUFFICES ASSUME NEW o \in Left
               PROVE  \/ \E i \in DOMAIN done' : NamedBy(i, o)'
                      \/ \E i \in DOMAIN plan : Ahead(i)' /\ Makes(plan[i], o)
    BY DEF Traced, Left
  <1>3. CASE \E i \in DOMAIN done : NamedBy(i, o)
    <2>1. PICK i \in DOMAIN done : NamedBy(i, o)
      BY <1>3
    <2>2. i < at /\ i \in Nat
      BY DEF Passed
    <2>3. i \in DOMAIN done' /\ done'[i] = done[i]
      BY <2>2, <1>2
    <2> QED BY <2>1, <2>3 DEF NamedBy
  <1>4. CASE \E i \in DOMAIN plan : Ahead(i) /\ Makes(plan[i], o)
    <2>1. PICK i \in DOMAIN plan : Ahead(i) /\ Makes(plan[i], o)
      BY <1>4
    <2>2. CASE i = at
      <3>1. res.rollback = "failed" \/ ~res.ran
        BY <2>1, <2>2
      <3>2. i \in DOMAIN done' /\ done'[i] = g
        BY <1>2, <2>2
      <3>3. o \in plan[i].reach
        BY <2>1 DEF Makes
      <3>4. NamedBy(i, o)'
        BY <3>1, <3>2, <3>3, <1>1 DEF NamedBy
      <3> QED BY <3>2, <3>4
    <2>3. CASE i # at
      <3>1. plan = <<>> \/ (DOMAIN plan = 1 .. Len(plan) /\ Len(plan) \in Nat)
        BY PlanIsASequence
      <3>2. i \in Nat
        BY <3>1
      <3>3. i > at
        BY <2>1, <2>3 DEF Ahead
      <3>4. CASE i > at'
        BY <2>1, <3>4 DEF Ahead
      <3>5. CASE i = at'
        BY <2>1, <3>5, <1>2 DEF Ahead
      <3> QED BY <3>2, <3>3, <3>4, <3>5, <1>2
    <2> QED BY <2>2, <2>3
  <1> QED BY <1>3, <1>4 DEF Traced

LEMMA PendingRun ==
  ASSUME Placed, Pending, Execute \/ ExecuteFails, at \in DOMAIN plan
  PROVE  Pending'
  <1>1. PICK some \in SUBSET Here.reach : cluster' = Effect(Here, some)
    <2>1. CASE Execute
      BY <2>1 DEF Execute
    <2>2. CASE ExecuteFails
      BY <2>2 DEF ExecuteFails
    <2> QED BY <2>1, <2>2
  <1>2. /\ AtStep /\ Here.verb \notin {"glue", "placeholder"}
        /\ UNCHANGED <<world, plan, at, done>> /\ phase' = AfterRun(Here)
    BY DEF Execute, ExecuteFails, Permitted, Runnable
  <1>3. phase = "stepping" /\ plan = Steps(world)
    BY <1>2 DEF AtStep, Placed
  <1>4. some \cap Objects \in SUBSET Objects
    OBVIOUS
  <1>5. cluster' \in [Objects -> {"absent", "operand", "probe"}]
    BY <1>1, EffectsAreLocal DEF Pending, Sourced
  <1>6. \A o \in Objects : cluster'[o] = "probe" =>
          \/ cluster[o] = "probe"
          \/ Makes(Here, o) /\ o \notin world.denied
    BY <1>1, <1>2 DEF Effect, Made, Gone, Makes, Pending, Sourced
  <1>7. Sourced'
    <2> SUFFICES ASSUME NEW o \in Objects, cluster'[o] = "probe"
                 PROVE  /\ o \notin world.denied
                        /\ \E i \in DOMAIN Steps(world) : Makes(Steps(world)[i], o)
      BY <1>2, <1>5 DEF Sourced, Left
    <2> QED BY <1>3, <1>6 DEF Pending, Sourced, Left, Here
  <1>8. Undoing'
    <2>1. phase' = "undo" => Here.cls = "mutating"
      BY <1>2 DEF AfterRun
    <2>2. current'.rejected => Here.reach \cap world.denied # {}
      <3>1. CASE Execute
        <4> DEFINE denies == Here.reach \cap world.denied # {}
        <4>1. PICK a : current' = [verdict |-> a.verdict, clean |-> a.clean, ran |-> TRUE,
                                   rejected |-> denies, rollback |-> "none"]
          BY <3>1 DEF Execute
        <4>2. current'.rejected = denies
          BY <4>1, Zenon
        <4> QED BY <4>2
      <3>2. CASE ExecuteFails
        BY <3>2 DEF ExecuteFails, Result
      <3> QED BY <3>1, <3>2
    <2> QED BY <2>1, <2>2, <1>2 DEF Undoing, Here
  <1>9. Traced'
    <2> SUFFICES ASSUME NEW o \in Objects, cluster'[o] = "probe"
                 PROVE  \/ \E i \in DOMAIN done : NamedBy(i, o)'
                        \/ \E i \in DOMAIN plan : Ahead(i)' /\ Makes(plan[i], o)
      BY <1>2 DEF Traced, Left
    <2>1. ASSUME NEW i \in DOMAIN plan, i = at, Makes(plan[i], o)
          PROVE  Ahead(i)'
      <3>1. phase' = "undo"
        BY <2>1, <1>2 DEF Makes, AfterRun, Here
      <3> QED BY <3>1, <2>1, <1>2 DEF Ahead
    <2>2. CASE Makes(Here, o)
      <3>1. PICK i \in DOMAIN plan : i = at
        OBVIOUS
      <3> QED BY <3>1, <2>1, <2>2 DEF Here
    <2>3. CASE cluster[o] = "probe"
      <3>1. CASE \E i \in DOMAIN done : NamedBy(i, o)
        BY <3>1, <1>2 DEF NamedBy
      <3>2. CASE \E i \in DOMAIN plan : Ahead(i) /\ Makes(plan[i], o)
        <4>1. PICK i \in DOMAIN plan : Ahead(i) /\ Makes(plan[i], o)
          BY <3>2
        <4>2. CASE i = at
          BY <4>1, <4>2, <2>1
        <4>3. CASE i # at
          BY <4>1, <4>3, <1>2 DEF Ahead
        <4> QED BY <4>1, <4>2, <4>3
      <3> QED BY <3>1, <3>2, <2>3, <1>3 DEF Pending, Traced, Left
    <2> QED BY <1>6, <2>2, <2>3
  <1> QED BY <1>7, <1>8, <1>9 DEF Pending

LEMMA PendingUndo ==
  ASSUME AllOrNothing, Placed, Pending, RollBack
  PROVE  Pending'
  <1>1. /\ phase = "undo" /\ phase' = "record" /\ UNCHANGED <<world, plan, at, done>>
        /\ plan = Steps(world) /\ at \in DOMAIN plan
    BY DEF RollBack, Placed
  <1>2. \/ cluster' = cluster /\ Here.verb # "raw" /\ current.rejected
        \/ cluster' = Gone(Here.reach)
        \/ current'.rollback = "failed" /\ \E some : cluster' = Gone(some)
    <2>1. CASE Skips(Here) /\ UNCHANGED cluster
      BY <2>1 DEF Skips
    <2>2. CASE ~Skips(Here) /\ cluster' = Gone(Here.reach)
      BY <2>2
    <2>3. CASE /\ current' = [current EXCEPT !.rollback = "failed"]
               /\ \E some \in IF CanUndo(Here) THEN SUBSET Here.reach ELSE {{}} :
                    cluster' = Gone(some)
      <3>1. current'.rollback = "failed"
        BY <2>3 DEF Placed
      <3> QED BY <3>1, <2>3
    <2> QED BY <2>1, <2>2, <2>3 DEF RollBack
  <1>3. cluster' \in [Objects -> {"absent", "operand", "probe"}]
        /\ \A o \in Objects : cluster'[o] = "probe" => cluster[o] = "probe"
    BY <1>2 DEF Gone, Pending, Sourced
  <1>4. \A o \in Objects : cluster'[o] = "probe" /\ o \in Here.reach => current'.rollback = "failed"
    <2> SUFFICES ASSUME NEW o \in Objects, cluster'[o] = "probe", o \in Here.reach
                 PROVE  current'.rollback = "failed"
      OBVIOUS
    <2>1. CASE cluster' = cluster /\ Here.verb # "raw" /\ current.rejected
      <3>1. Here.reach \cap world.denied # {}
        BY <2>1, <1>1 DEF Pending, Undoing
      <3>2. Here.reach \subseteq world.denied
        BY <3>1, <2>1, <1>1 DEF AllOrNothing, Here, Placed
      <3>3. o \notin world.denied
        BY <1>3 DEF Pending, Sourced, Left
      <3> QED BY <3>2, <3>3
    <2>2. CASE cluster' = Gone(Here.reach)
      BY <2>2 DEF Gone
    <2> QED BY <2>1, <2>2, <1>2
  <1>5. Sourced'
    BY <1>1, <1>3 DEF Pending, Sourced, Left
  <1>6. Undoing'
    BY <1>1 DEF Undoing
  <1>7. Traced'
    <2> SUFFICES ASSUME NEW o \in Objects, cluster'[o] = "probe"
                 PROVE  \/ \E i \in DOMAIN done : NamedBy(i, o)'
                        \/ \E i \in DOMAIN plan : Ahead(i)' /\ Makes(plan[i], o)
      BY <1>1 DEF Traced, Left
    <2>1. CASE \E i \in DOMAIN done : NamedBy(i, o)
      BY <2>1, <1>1 DEF NamedBy
    <2>2. CASE \E i \in DOMAIN plan : Ahead(i) /\ Makes(plan[i], o)
      <3>1. PICK i \in DOMAIN plan : Ahead(i) /\ Makes(plan[i], o)
        BY <2>2
      <3>2. CASE i = at
        <4>1. current'.rollback = "failed"
          BY <3>1, <3>2, <1>4 DEF Makes, Here
        <4> QED BY <3>1, <3>2, <4>1, <1>1 DEF Ahead
      <3>3. CASE i # at
        BY <3>1, <3>3, <1>1 DEF Ahead
      <3> QED BY <3>2, <3>3
    <2> QED BY <2>1, <2>2, <1>1, <1>3 DEF Pending, Traced, Left
  <1> QED BY <1>5, <1>6, <1>7 DEF Pending

\* A step that is recorded without having run.
LEMMA PendingSkip ==
  ASSUME Placed, Passed, Pending,
         PreSkipped \/ Unmet \/ OutOfScope \/ Connect
  PROVE  Pending'
  <1>1. PICK v \in {"not_attempted", "blocked_by_scope"} : Record(Result(v, FALSE))
    BY DEF PreSkipped, Unmet, OutOfScope, Connect
  <1>2. Result(v, FALSE) \in StepResult /\ ~Result(v, FALSE).ran
    BY ResultIsTyped DEF Verdicts
  <1>3. UNCHANGED <<world, cluster, plan, current>>
    BY DEF PreSkipped, Unmet, OutOfScope, Connect, Idle
  <1>4. phase # "stopped"
    BY DEF PreSkipped, Unmet, OutOfScope, Connect, Permitted, Runnable, AtStep
  <1>5. Traced'
    BY <1>1, <1>2, <1>3, <1>4, RecordTraces DEF Pending
  <1>6. phase' = "stepping"
    BY <1>1 DEF Record
  <1> QED BY <1>3, <1>5, <1>6 DEF Pending, Sourced, Left, Undoing

LEMMA PendingNext ==
  ASSUME AllOrNothing, Placed, Logged, Passed, Pending, [Next]_vars
  PROVE  Pending'
  <1>1. CASE Begin
    <2>1. /\ UNCHANGED <<world, cluster, current>> /\ plan' = Steps(world) /\ at' = 1
          /\ phase' = "stepping"
      BY <1>1 DEF Begin
    <2>2. Sourced' /\ Undoing'
      BY <2>1 DEF Pending, Sourced, Left, Undoing
    <2>3. Traced'
      <3> SUFFICES ASSUME NEW o \in Left
                   PROVE  \E i \in DOMAIN plan' : Ahead(i)' /\ Makes(plan'[i], o)
        BY <2>1 DEF Traced, Left
      <3>1. PICK i \in DOMAIN Steps(world) : Makes(Steps(world)[i], o)
        BY DEF Pending, Sourced
      <3>2. i \in Nat /\ i >= 1
        <4>1. DOMAIN Steps(world) = 1 .. Len(Steps(world)) /\ Len(Steps(world)) \in Nat
          BY PlansAreSequences DEF Placed
        <4> QED BY <4>1
      <3>3. Ahead(i)'
        BY <3>2, <2>1 DEF Ahead
      <3> QED BY <3>1, <3>3, <2>1
    <2> QED BY <2>2, <2>3 DEF Pending
  <1>2. CASE PreSkipped \/ Unmet \/ OutOfScope \/ Connect
    BY <1>2, PendingSkip
  <1>3. CASE NovelPass
    <2>1. /\ phase = "stepping" /\ UNCHANGED <<world, cluster, phase, plan, done, current>>
          /\ at' = at + 1 /\ plan[at].verb = "placeholder" /\ at \in Nat /\ plan = Steps(world)
      BY <1>3 DEF NovelPass, AtStep, Idle, Here, Placed
    <2>2. Traced'
      <3> SUFFICES ASSUME NEW o \in Left
                   PROVE  \/ \E i \in DOMAIN done : NamedBy(i, o)'
                          \/ \E i \in DOMAIN plan : Ahead(i)' /\ Makes(plan[i], o)
        BY <2>1 DEF Traced, Left
      <3>1. CASE \E i \in DOMAIN done : NamedBy(i, o)
        BY <3>1, <2>1 DEF NamedBy
      <3>2. CASE \E i \in DOMAIN plan : Ahead(i) /\ Makes(plan[i], o)
        <4>1. PICK i \in DOMAIN plan : Ahead(i) /\ Makes(plan[i], o)
          BY <3>2
        <4>2. i # at
          BY <4>1, <2>1 DEF Makes
        <4>3. i \in Nat
          <5>1. DOMAIN plan = 1 .. Len(plan) /\ Len(plan) \in Nat
            BY <2>1, PlansAreSequences DEF Placed
          <5> QED BY <5>1
        <4>4. i > at
          BY <4>1, <4>2 DEF Ahead
        <4>5. i > at' \/ i = at'
          BY <4>3, <4>4, <2>1
        <4> QED BY <4>1, <4>5, <2>1 DEF Ahead
      <3> QED BY <3>1, <3>2, <2>1 DEF Pending, Traced
    <2> QED BY <2>1, <2>2 DEF Pending, Sourced, Left, Undoing
  <1>4. CASE Execute \/ ExecuteFails
    <2>1. AtStep
      BY <1>4 DEF Execute, ExecuteFails, Permitted, Runnable
    <2> QED BY <1>4, <2>1, AtPlan, PendingRun
  <1>5. CASE RollBack
    BY <1>5, PendingUndo
  <1>6. CASE RecordStep
    <2>1. /\ phase = "record" /\ Record(current) /\ UNCHANGED <<world, cluster, plan, current>>
          /\ current \in StepResult /\ phase' = "stepping"
      BY <1>6 DEF RecordStep, Logged, Record
    <2>2. ASSUME Ahead(at) PROVE current.rollback = "failed"
      BY <2>1, <2>2 DEF Ahead, Placed
    <2>3. Traced'
      BY <2>1, <2>2, RecordTraces DEF Pending
    <2> QED BY <2>1, <2>3 DEF Pending, Sourced, Left, Undoing
  <1>7. CASE WriteReport
    <2>1. /\ phase = "stepping" /\ phase' = "reported"
          /\ UNCHANGED <<world, cluster, plan, at, done, current>>
          /\ plan = Steps(world) /\ at > Len(plan)
      BY <1>7 DEF WriteReport, Placed
    <2>2. \A i \in DOMAIN plan : i # at
      <3>1. DOMAIN plan = 1 .. Len(plan) /\ Len(plan) \in Nat /\ at \in Nat
        BY <2>1, PlansAreSequences DEF Placed
      <3> QED BY <3>1, <2>1
    <2>3. Traced'
      BY <2>1, <2>2 DEF Pending, Traced, Left, NamedBy, Ahead
    <2> QED BY <2>1, <2>3 DEF Pending, Sourced, Left, Undoing
  <1>8. CASE Expire \/ Kill \/ UNCHANGED vars
    <2>1. /\ UNCHANGED <<world, cluster, plan, at, done, current>>
          /\ phase' = "stopped" \/ phase' = phase
      BY <1>8 DEF Expire, Kill, vars
    <2>2. phase' = phase => (Traced <=> Traced')
      BY <2>1 DEF Traced, Left, NamedBy, Ahead
    <2> QED BY <2>1, <2>2 DEF Pending, Sourced, Left, Undoing, Here
  <1> QED BY <1>1, <1>2, <1>3, <1>4, <1>5, <1>6, <1>7, <1>8 DEF Next

\* Whatever a probe made, in a run that ended or in one that was killed, is
\* gone or named by the report of the next run that ends, provided that no
\* manifest is admitted in part (execute.run, K8sAdapter.rollback).
THEOREM ResidueIsNamed ==
  ASSUME AllOrNothing
  PROVE  Spec => []LeftoversAreNamed
  <1> DEFINE I == Placed /\ Logged /\ Passed /\ Pending
  <1>1. Init => I
    <2> SUFFICES ASSUME Init PROVE Pending
      BY ShapeInit
    <2>1. /\ phase = "stopped"
          /\ cluster = [o \in Objects |-> IF o \in Operand THEN "operand" ELSE "absent"]
      BY DEF Init
    <2> QED BY <2>1 DEF Pending, Sourced, Left, Undoing
  <1>2. I /\ [Next]_vars => I'
    BY ShapeNext, PendingNext
  <1>3. I => LeftoversAreNamed
    <2> SUFFICES ASSUME I, phase = "reported", NEW o \in Objects, cluster[o] = "probe"
                 PROVE  \E i \in DOMAIN done : NamedBy(i, o)
      BY DEF LeftoversAreNamed, NamedBy
    <2>1. at \notin DOMAIN plan /\ plan = Steps(world) /\ at \in Nat /\ at >= 1
      BY DEF Placed
    <2>2. DOMAIN plan = 1 .. Len(plan) /\ Len(plan) \in Nat
      BY <2>1, PlansAreSequences DEF Placed
    <2>3. \A i \in DOMAIN plan : ~Ahead(i)
      BY <2>1, <2>2 DEF Ahead
    <2> QED BY <2>3 DEF Pending, Traced, Left
  <1> QED BY <1>1, <1>2, <1>3, PTL DEF Spec
-----------------------------------------------------------------------------
(* Types.                                                                  *)

\* What the type invariant adds to the shape of a run.
Bounded ==
  /\ expired \in BOOLEAN
  /\ at \in 1 .. Len(plan) + 1
  /\ DOMAIN skip = DOMAIN plan
  /\ DOMAIN done \subseteq DOMAIN plan
  /\ report.sealed \in 0 .. Len(audit) /\ Results(report.steps)
  /\ runs \in 0 .. MaxRuns /\ kills \in 0 .. MaxKills

\* Of a plan, begun or not.
LEMMA PlanDomain ==
  ASSUME Placed
  PROVE  Len(plan) \in Nat /\ DOMAIN plan = 1 .. Len(plan)
  <1>1. CASE plan = <<>>
    BY <1>1
  <1>2. CASE plan # <<>>
    BY <1>2, PlanIsASequence
  <1> QED BY <1>1, <1>2

\* A recorded result keeps the bounds.
LEMMA RecordBounded ==
  ASSUME Placed, Logged, Bounded, NEW res \in StepResult, Record(res), at \in DOMAIN plan,
         UNCHANGED <<expired, plan, skip, report, runs, kills>>
  PROVE  Bounded'
  <1>1. Len(plan) \in Nat /\ DOMAIN plan = 1 .. Len(plan)
    BY PlanDomain
  <1>2. at' \in 1 .. Len(plan') + 1
    BY <1>1 DEF Record
  <1>3. DOMAIN done' \subseteq DOMAIN plan'
    BY DEF Record, Bounded
  <1>4. report'.sealed \in 0 .. Len(audit')
    <2>1. GateVerdict(res).verdict \in Verdicts
      BY GateKeepsType DEF StepResult
    <2>2. [step |-> at, verdict |-> GateVerdict(res).verdict] \in Line
      BY <2>1, <1>1 DEF Line
    <2>3. Len(audit') = Len(audit) + 1 /\ Len(audit) \in Nat
      BY <2>2 DEF Record, Logged
    <2> QED BY <2>3 DEF Bounded
  <1> QED BY <1>2, <1>3, <1>4 DEF Bounded, Results

LEMMA BoundedNext ==
  ASSUME Placed, Logged, Passed, Bounded, [Next]_vars
  PROVE  Bounded'
  <1>0. Len(plan) \in Nat /\ DOMAIN plan = 1 .. Len(plan)
    BY PlanDomain
  <1>1. CASE Begin
    <2>1. plan' = Steps(world) /\ DOMAIN skip' = DOMAIN plan' /\ at' = 1
          /\ UNCHANGED <<expired, audit, report, kills>> /\ runs < MaxRuns /\ runs' = runs + 1
      BY <1>1 DEF Begin
    <2>2. DOMAIN done' = {}
      BY <1>1 DEF Begin
    <2>3. Len(plan') \in Nat /\ DOMAIN plan' = 1 .. Len(plan')
      BY <2>1, PlansAreSequences DEF Placed
    <2>4. Results(report.steps)'
      <3>1. CASE plan = <<>>
        BY <2>1, <3>1 DEF Bounded, Results
      <3>2. CASE plan # <<>>
        BY <2>1, <3>2 DEF Bounded, Results, Placed
      <3> QED BY <3>1, <3>2
    <2>5. runs' \in 0 .. MaxRuns
      BY <2>1, BoundsAssumption DEF Bounded
    <2> QED BY <2>1, <2>2, <2>3, <2>4, <2>5 DEF Bounded
  <1>2. CASE PreSkipped \/ Unmet \/ OutOfScope \/ Connect
    <2>1. PICK v \in {"not_attempted", "blocked_by_scope"} : Record(Result(v, FALSE))
      BY <1>2 DEF PreSkipped, Unmet, OutOfScope, Connect
    <2>2. Result(v, FALSE) \in StepResult
      BY ResultIsTyped DEF Verdicts
    <2>3. AtStep /\ UNCHANGED <<expired, plan, skip, report, runs, kills>>
      BY <1>2 DEF PreSkipped, Unmet, OutOfScope, Connect, Permitted, Runnable, Idle
    <2>4. at \in DOMAIN plan
      BY <2>3, AtPlan
    <2> QED BY <2>1, <2>2, <2>3, <2>4, RecordBounded
  <1>3. CASE NovelPass
    <2>1. AtStep /\ at' = at + 1
          /\ UNCHANGED <<expired, plan, skip, done, audit, report, runs, kills>>
      BY <1>3 DEF NovelPass, Idle
    <2>2. at \in DOMAIN plan
      BY <2>1, AtPlan
    <2>3. at' \in 1 .. Len(plan') + 1
      BY <1>0, <2>1, <2>2
    <2> QED BY <2>1, <2>3 DEF Bounded, Results
  <1>4. CASE Execute \/ ExecuteFails \/ RollBack
    <2>1. UNCHANGED <<expired, plan, skip, at, done, audit, report, runs, kills>>
      BY <1>4 DEF Execute, ExecuteFails, RollBack
    <2> QED BY <2>1 DEF Bounded, Results
  <1>5. CASE RecordStep
    <2>1. current \in StepResult /\ at \in DOMAIN plan /\ Record(current)
          /\ UNCHANGED <<expired, plan, skip, report, runs, kills>>
      BY <1>5 DEF RecordStep, Placed, Logged
    <2> QED BY <2>1, RecordBounded
  <1>6. CASE WriteReport
    <2>1. report'.sealed = Len(audit) /\ report'.steps = done
          /\ UNCHANGED <<expired, plan, skip, at, done, audit, runs, kills>>
      BY <1>6 DEF WriteReport
    <2>2. Len(audit) \in Nat
      BY DEF Logged
    <2>3. Results(report.steps)'
      BY <1>0, <2>1 DEF Bounded, Results, Passed
    <2> QED BY <2>1, <2>2, <2>3 DEF Bounded
  <1>7. CASE Expire
    BY <1>7 DEF Expire, Bounded, Results
  <1>8. CASE Kill
    BY <1>8, BoundsAssumption DEF Kill, Bounded, Results
  <1>9. CASE UNCHANGED vars
    BY <1>9 DEF vars, Bounded, Results
  <1> QED BY <1>1, <1>2, <1>3, <1>4, <1>5, <1>6, <1>7, <1>8, <1>9 DEF Next

\* The engine is well typed: results are those of steps behind the pointer, the
\* report's are steps of the plan, and it is sealed over a part of the log.
THEOREM TypeCorrect == Spec => []TypeOK
  <1> DEFINE I == Placed /\ Logged /\ Passed /\ Guarded /\ Bounded
  <1>1. Init => I
    <2> SUFFICES ASSUME Init PROVE Guarded /\ Bounded
      BY ShapeInit
    <2>1. Guarded
      BY BoundsAssumption DEF Init, Guarded, OffLimitsUntouched
    <2>2. plan = <<>> /\ skip = <<>> /\ done = <<>> /\ at = 1 /\ audit = <<>> /\ report = NoReport
          /\ runs = 0 /\ kills = 0 /\ expired = FALSE
      BY DEF Init
    <2>3. report.sealed = 0 /\ report.steps = <<>>
      BY <2>2 DEF NoReport
    <2>4. Results(report.steps)
      BY <2>3 DEF Results
    <2>5. runs \in 0 .. MaxRuns /\ kills \in 0 .. MaxKills
      BY <2>2, BoundsAssumption
    <2>6. Len(plan) = 0 /\ Len(audit) = 0 /\ at \in 1 .. Len(plan) + 1
          /\ report.sealed \in 0 .. Len(audit)
      BY <2>2, <2>3
    <2>7. DOMAIN skip = DOMAIN plan /\ DOMAIN done \subseteq DOMAIN plan /\ expired \in BOOLEAN
      BY <2>2
    <2> QED BY <2>1, <2>4, <2>5, <2>6, <2>7 DEF Bounded
  <1>2. I /\ [Next]_vars => I'
    BY ShapeNext, GuardedNext, BoundedNext
  <1>3. I => TypeOK
    <2> SUFFICES ASSUME I PROVE TypeOK
      OBVIOUS
    <2>1. Len(plan) \in Nat /\ DOMAIN plan = 1 .. Len(plan)
      BY PlanDomain
    <2>2. phase \in {"undo", "record"} => at <= Len(plan)
      BY <2>1 DEF Placed
    <2>3. Results(done) /\ \A i \in DOMAIN done : i < at
      BY <2>1 DEF Passed, Results, Bounded
    <2> QED BY <2>2, <2>3 DEF TypeOK, Placed, Logged, Guarded, Bounded
  <1> QED BY <1>1, <1>2, <1>3, PTL DEF Spec
=============================================================================
