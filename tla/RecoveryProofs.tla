---------------------------- MODULE RecoveryProofs ----------------------------
(***************************************************************************)
(* What a kill between two writes cannot break: the routers of Routing,    *)
(* which pin, submit and write back, and the store of Checkpoint, which    *)
(* writes a payload and then the file that lists it.  The two systems have *)
(* nothing in common but that; part 1 is about the routers, part 2 about   *)
(* the store.                                                              *)
(*                                                                         *)
(* Routing: as long as the routers that overlap are of one source, two of  *)
(* them that plan before either files plan the same numbers for the same   *)
(* claims, so what the slower one files is already there, and a claim once *)
(* on an event is never superseded.                                        *)
(*                                                                         *)
(* Checkpoint: a live session always knows exactly what progress.json      *)
(* says, so the next payload it writes is never one that progress.json     *)
(* already lists, and what it lists next is what it has just written.      *)
(***************************************************************************)
EXTENDS Routing, Checkpoint, FiniteSetTheorems, WellFoundedInduction, NaturalsInduction, TLAPS

-----------------------------------------------------------------------------
(* 1. The routers.  Numbers first.                                         *)

LEMMA NatLeast ==
  ASSUME NEW T \in SUBSET Nat, T # {}
  PROVE  \E x \in T : \A y \in T : x <= y
<1> DEFINE LT == {p \in Nat \X Nat : p[1] < p[2]}
<1>1. \E x \in T : \A y \in T : ~ (<<y, x>> \in LT)
  <2>1. IsWellFoundedOn(LT, Nat)
    BY NatLessThanWellFounded DEF OpToRel
  <2> HIDE DEF LT
  <2> QED BY <2>1, WFMin
<1>2. \A x, y \in T : ~ (<<y, x>> \in LT) => x <= y
  <2> TAKE x \in T, y \in T
  <2>1. <<y, x>> \in Nat \X Nat /\ <<y, x>>[1] = y /\ <<y, x>>[2] = x
    OBVIOUS
  <2> QED BY <2>1
<1> HIDE DEF LT
<1> QED BY <1>1, <1>2

\* The values of a function on a finite set are finitely many.
LEMMA FiniteImage ==
  ASSUME NEW S, IsFiniteSet(S), NEW f, f = [x \in S |-> f[x]]
  PROVE  IsFiniteSet({f[x] : x \in S})
<1> DEFINE T == {f[x] : x \in S}
<1>1. f \in [S -> T]
  OBVIOUS
<1>2. \A t \in T : \E s \in S : f[s] = t
  OBVIOUS
<1> HIDE DEF T
<1>3. f \in Surjection(S, T)
  BY <1>1, <1>2 DEF Surjection
<1>4. IsFiniteSet(T)
  BY <1>3, FS_Surjection
<1> QED BY <1>4 DEF T

\* Finitely many numbers have a bound: the first prefix of an enumeration without
\* one would be one element longer than a prefix that has one.
LEMMA FiniteBound ==
  ASSUME NEW S \in SUBSET Nat, IsFiniteSet(S)
  PROVE  \E b \in Nat : \A x \in S : x <= b
<1> DEFINE n == Cardinality(S)
<1>1. n \in Nat
  BY FS_CardinalityType
<1>2. PICK f : f \in Bijection(1 .. n, S)
  BY FS_CardinalityType DEF ExistsBijection
<1>3. f \in [1 .. n -> S] /\ \A x \in S : \E i \in 1 .. n : f[i] = x
  BY <1>2 DEF Bijection, Surjection, Injection
<1> HIDE DEF n
<1> DEFINE Bounded(m) == \E b \in Nat : \A i \in 1 .. m : f[i] <= b
           T == {m \in 1 .. n : ~Bounded(m)}
<1>4. ASSUME T # {} PROVE FALSE
  <2>1. PICK k \in T : \A m \in T : k <= m
    <3>1. T \in SUBSET Nat
      BY <1>1
    <3> HIDE DEF T
    <3> QED BY <1>4, <3>1, NatLeast
  <2>2. k \in 1 .. n /\ f[k] \in Nat
    BY <1>3
  <2>3. k # 1
    <3> SUFFICES ASSUME k = 1 PROVE FALSE
      OBVIOUS
    <3>1. \A i \in 1 .. k : f[i] <= f[1]
      BY <2>2
    <3> QED BY <2>1, <2>2, <3>1
  <2>4. k - 1 \in 1 .. n /\ k - 1 \notin T
    <3>1. k \in Nat /\ k - 1 \in Nat /\ ~(k <= k - 1)
      BY <2>2, <2>3
    <3>2. k - 1 \in 1 .. n
      BY <1>1, <2>2, <2>3
    <3>3. k - 1 \notin T
      BY ONLY <2>1, <3>1
    <3> QED BY <3>2, <3>3
  <2>5. PICK b \in Nat : \A i \in 1 .. k - 1 : f[i] <= b
    BY <2>4
  <2>6. \E c \in Nat : c >= b /\ c >= f[k]
    BY <2>2
  <2>7. PICK c \in Nat : c >= b /\ c >= f[k]
    BY <2>6
  <2>8. \A i \in 1 .. k : f[i] <= c
    <3> TAKE i \in 1 .. k
    <3>1. f[i] \in Nat /\ k \in Nat /\ i \in Nat
      <4>1. k \in Nat /\ i \in Nat /\ i \in 1 .. n
        BY <1>1, <2>2
      <4>2. f[i] \in S
        BY <1>3, <4>1
      <4> QED BY <4>1, <4>2
    <3>2. CASE i = k
      BY <2>7, <3>2, <3>1
    <3>3. CASE i # k
      <4>1. i \in 1 .. k - 1
        BY <3>1, <3>3
      <4>2. f[i] <= b
        BY <2>5, <4>1
      <4> QED BY <2>7, <3>1, <4>2
    <3> QED BY <3>2, <3>3
  <2> QED BY <2>1, <2>8
<1>5. CASE n = 0
  BY <1>3, <1>5
<1>6. CASE n # 0
  <2>1. Bounded(n)
    BY <1>1, <1>4, <1>6
  <2> QED BY <1>3, <2>1
<1> QED BY <1>5, <1>6

LEMMA MaxOfFinite ==
  ASSUME NEW S \in SUBSET Nat, IsFiniteSet(S), S # {}
  PROVE  Max(S) \in S /\ \A x \in S : x <= Max(S)
<1> DEFINE U == {b \in Nat : \A x \in S : x <= b}
<1>1. PICK u \in U : \A b \in U : u <= b
  <2>1. U \in SUBSET Nat /\ U # {}
    BY FiniteBound
  <2> HIDE DEF U
  <2> QED BY <2>1, NatLeast
<1>2. u \in S
  <2> SUFFICES ASSUME u \notin S PROVE FALSE
    OBVIOUS
  <2>1. \A x \in S : x < u
    BY <1>1
  <2>2. u \in Nat /\ u # 0
    <3>1. PICK x \in S : x < u
      BY <2>1
    <3>2. x \in Nat /\ u \in Nat
      BY <1>1
    <3> QED BY <3>1, <3>2
  <2>3. u - 1 \in U
    BY <2>1, <2>2
  <2> QED BY <1>1, <2>2, <2>3
<1>3. \A x \in S : u >= x
  BY <1>1
<1> HIDE DEF U
<1>4. Max(S) \in S /\ \A y \in S : Max(S) >= y
  BY <1>2, <1>3 DEF Max
<1>5. ASSUME NEW x \in S PROVE x <= Max(S)
  <2>1. Max(S) >= x /\ x \in Nat /\ Max(S) \in Nat
    BY <1>4
  <2> QED BY <2>1
<1> QED BY <1>4, <1>5

LEMMA MinOfNats ==
  ASSUME NEW S \in SUBSET Nat, S # {}
  PROVE  Min(S) \in S /\ \A x \in S : Min(S) <= x
BY NatLeast DEF Min

-----------------------------------------------------------------------------
(* Layers.                                                                 *)

FiledClaims == Regs \cup Advisories

Carrying(evs) == {e \in evs : e.claim # NoClaim}

\* Numbers and claims that events carry are in one-to-one correspondence and
\* disjoint from the baseline's, and no event has a number nothing is filed under.
Layer(evs) ==
  /\ evs \subseteq Event /\ IsFiniteSet(evs)
  /\ \A e \in Carrying(evs) : /\ e.claim \in FiledClaims /\ e.id \notin BaseIds
                              /\ \A i \in BaseIds : Baseline[i] # e.claim
  /\ \A d, e \in Carrying(evs) : d.id = e.id \/ d.claim = e.claim => d = e
  /\ \A e \in evs : e.id \in KnownIds(evs)

\* Routers of one source at a time, over a baseline that does not file a
\* regression or an advisory twice itself.
Serial ==
  /\ ~Mixed
  /\ \A i, j \in BaseIds : Baseline[i] = Baseline[j] /\ Baseline[i] \in FiledClaims => i = j

LEMMA Carried ==
  ASSUME NEW evs, Layer(evs), NEW e \in Carrying(evs)
  PROVE  /\ Carriers(evs, e.id) = {e}
         /\ CarriedClaim(evs, e.id) = e.claim
         /\ e.id \in CarriedIds(evs)
<1>1. Carriers(evs, e.id) = {e}
  BY DEF Carriers, Carrying, Layer
<1>2. e.at <= e.at
  <2>1. e.at \in Nat
    BY DEF Layer, Carrying, Event
  <2> QED BY <2>1
<1>3. CarriedClaim(evs, e.id) = e.claim
  BY <1>1, <1>2 DEF CarriedClaim
<1> QED BY <1>1, <1>3 DEF CarriedIds, Carrying

LEMMA IdsAre ==
  ASSUME NEW evs, Layer(evs), NEW c, NEW id
  PROVE  id \in IdsOf(evs, c) <=> \/ id \in BaseIds /\ Baseline[id] = c
                                  \/ \E e \in Carrying(evs) : e.id = id /\ e.claim = c
<1>1. \A e \in Carrying(evs) : CarriedClaim(evs, e.id) = e.claim /\ e.id \in CarriedIds(evs)
  BY Carried
<1>2. id \in CarriedIds(evs) <=> \E e \in Carrying(evs) : e.id = id
  BY DEF CarriedIds, Carrying
<1> QED BY <1>1, <1>2 DEF IdsOf

LEMMA OneId ==
  ASSUME Serial, NEW evs, Layer(evs), NEW c \in FiledClaims,
         NEW i \in IdsOf(evs, c), NEW j \in IdsOf(evs, c)
  PROVE  i = j
<1>1. /\ \/ i \in BaseIds /\ Baseline[i] = c
         \/ \E e \in Carrying(evs) : e.id = i /\ e.claim = c
      /\ \/ j \in BaseIds /\ Baseline[j] = c
         \/ \E e \in Carrying(evs) : e.id = j /\ e.claim = c
  BY IdsAre
<1> QED BY <1>1 DEF Serial, Layer

LEMMA KnownAre ==
  ASSUME NEW evs, Layer(evs)
  PROVE  /\ KnownIds(evs) = BaseIds \cup {e.id : e \in Carrying(evs)}
         /\ KnownIds(evs) \subseteq Nat \ {0}
         /\ IsFiniteSet(KnownIds(evs))
<1>1. KnownIds(evs) = BaseIds \cup {e.id : e \in Carrying(evs)}
  BY DEF KnownIds, CarriedIds, Carrying
<1>2. KnownIds(evs) \subseteq Nat \ {0}
  BY <1>1, BoundsAssumption DEF Layer, Carrying, Event
<1>3. IsFiniteSet(Carrying(evs))
  BY FS_Subset DEF Layer, Carrying
<1>4. IsFiniteSet({e.id : e \in Carrying(evs)})
  <2> DEFINE f == [e \in Carrying(evs) |-> e.id]
  <2>1. f = [e \in Carrying(evs) |-> f[e]] /\ {e.id : e \in Carrying(evs)} = {f[e] : e \in Carrying(evs)}
    OBVIOUS
  <2> HIDE DEF f
  <2>2. IsFiniteSet({f[e] : e \in Carrying(evs)})
    BY <1>3, <2>1, FiniteImage
  <2> QED BY <2>1, <2>2
<1>5. IsFiniteSet(KnownIds(evs))
  <2> DEFINE C == {e.id : e \in Carrying(evs)}
  <2>1. IsFiniteSet(BaseIds) /\ IsFiniteSet(C) /\ KnownIds(evs) = BaseIds \cup C
    BY <1>1, <1>4, BoundsAssumption
  <2> HIDE DEF C
  <2>2. IsFiniteSet(BaseIds \cup C)
    BY ONLY <2>1, FS_Union
  <2> QED BY <2>1, <2>2
<1> QED BY <1>1, <1>2, <1>5

LEMMA IdsResolve ==
  ASSUME NEW evs, Layer(evs), NEW c, NEW id \in IdsOf(evs, c)
  PROVE  /\ id \in KnownIds(evs) /\ id \in Nat \ {0}
         /\ ClaimOf(evs, id) = c
<1>1. \/ id \in BaseIds /\ Baseline[id] = c
      \/ \E e \in Carrying(evs) : e.id = id /\ e.claim = c
  BY IdsAre
<1>2. id \in KnownIds(evs) /\ id \in Nat \ {0}
  BY <1>1, KnownAre
<1>3. CASE id \in BaseIds /\ Baseline[id] = c
  BY <1>2, <1>3 DEF ClaimOf
<1>4. ASSUME NEW e \in Carrying(evs), e.id = id, e.claim = c PROVE ClaimOf(evs, id) = c
  <2>1. CarriedClaim(evs, id) = c /\ id \notin BaseIds
    BY <1>4, Carried DEF Layer
  <2> QED BY <2>1 DEF ClaimOf
<1> QED BY <1>1, <1>2, <1>3, <1>4

LEMMA NextIsFree ==
  ASSUME NEW evs, Layer(evs)
  PROVE  /\ NextSequence(evs) \in Nat \ {0}
         /\ \A id \in KnownIds(evs) : id < NextSequence(evs)
<1> DEFINE S == KnownIds(evs) \cup {0}
<1>1. S \in SUBSET Nat /\ IsFiniteSet(S) /\ S # {}
  <2>1. IsFiniteSet({0}) /\ IsFiniteSet(KnownIds(evs)) /\ KnownIds(evs) \subseteq Nat
    BY KnownAre, FS_Singleton
  <2>2. IsFiniteSet(S)
    BY <2>1, FS_Union
  <2> QED BY <2>1, <2>2
<1>2. NextSequence(evs) = 1 + Max(S)
  BY DEF NextSequence
<1> HIDE DEF S
<1>3. Max(S) \in S /\ \A x \in S : x <= Max(S)
  BY <1>1, MaxOfFinite
<1>4. Max(S) \in Nat
  BY <1>1, <1>3
<1>5. ASSUME NEW id \in KnownIds(evs) PROVE id < NextSequence(evs)
  <2>1. id \in S
    BY DEF S
  <2>2. id \in Nat /\ id <= Max(S)
    BY <1>1, <1>3, <2>1
  <2> QED BY <1>2, <1>4, <2>2
<1> QED BY <1>2, <1>4, <1>5

LEMMA EndTyped ==
  ASSUME NEW evs, evs \subseteq Event, IsFiniteSet(evs)
  PROVE  End(evs) \in Nat
<1> DEFINE f == [e \in evs |-> e.at]
<1>1. IsFiniteSet({e.at : e \in evs})
  <2>1. f = [e \in evs |-> f[e]] /\ {e.at : e \in evs} = {f[e] : e \in evs}
    OBVIOUS
  <2> HIDE DEF f
  <2> QED BY <2>1, FiniteImage
<1> DEFINE S == {e.at : e \in evs} \cup {0}
<1>2. S \in SUBSET Nat /\ IsFiniteSet(S) /\ S # {}
  <2>1. IsFiniteSet({0})
    BY FS_Singleton
  <2>2. IsFiniteSet(S)
    BY <1>1, <2>1, FS_Union
  <2>3. \A e \in evs : e.at \in Nat
    BY DEF Event
  <2> QED BY <2>2, <2>3
<1>3. End(evs) = Max(S)
  BY DEF End
<1> HIDE DEF S
<1> QED BY <1>2, <1>3, MaxOfFinite

\* What a layer says depends on the events that carry a claim.
LEMMA SameCarrying ==
  ASSUME NEW d, NEW e, Carrying(d) = Carrying(e)
  PROVE  /\ CarriedIds(d) = CarriedIds(e) /\ KnownIds(d) = KnownIds(e)
         /\ NextSequence(d) = NextSequence(e)
         /\ \A id : CarriedClaim(d, id) = CarriedClaim(e, id)
         /\ \A c : IdsOf(d, c) = IdsOf(e, c)
<1>1. CarriedIds(d) = CarriedIds(e)
  BY DEF CarriedIds, Carrying
<1>2. KnownIds(d) = KnownIds(e)
  BY <1>1 DEF KnownIds
<1>3. NextSequence(d) = NextSequence(e)
  BY <1>2 DEF NextSequence
<1>4. \A id : CarriedClaim(d, id) = CarriedClaim(e, id)
  <2> TAKE id
  <2>1. Carriers(d, id) = Carriers(e, id)
    BY DEF Carriers, Carrying
  <2> QED BY <2>1 DEF CarriedClaim
<1>5. \A c : IdsOf(d, c) = IdsOf(e, c)
  BY <1>1, <1>4 DEF IdsOf
<1> QED BY <1>1, <1>2, <1>3, <1>4, <1>5

LEMMA MoreCarrying ==
  ASSUME NEW d, NEW e, Layer(d), Layer(e), Carrying(d) \subseteq Carrying(e)
  PROVE  /\ KnownIds(d) \subseteq KnownIds(e)
         /\ \A c : IdsOf(d, c) \subseteq IdsOf(e, c)
         /\ \A id \in CarriedIds(d) : CarriedClaim(e, id) = CarriedClaim(d, id)
<1>1. KnownIds(d) \subseteq KnownIds(e)
  BY KnownAre
<1>2. \A c : IdsOf(d, c) \subseteq IdsOf(e, c)
  <2> TAKE c
  <2> SUFFICES ASSUME NEW id \in IdsOf(d, c) PROVE id \in IdsOf(e, c)
    OBVIOUS
  <2>1. \/ id \in BaseIds /\ Baseline[id] = c
        \/ \E x \in Carrying(d) : x.id = id /\ x.claim = c
    BY IdsAre
  <2>2. \/ id \in BaseIds /\ Baseline[id] = c
        \/ \E x \in Carrying(e) : x.id = id /\ x.claim = c
    BY <2>1
  <2> QED BY <2>2, IdsAre
<1>3. ASSUME NEW id \in CarriedIds(d) PROVE CarriedClaim(e, id) = CarriedClaim(d, id)
  <2>1. PICK x \in Carrying(d) : x.id = id
    BY DEF CarriedIds, Carrying
  <2>2. CarriedClaim(d, x.id) = x.claim
    BY <2>1, Carried
  <2>3. CarriedClaim(e, x.id) = x.claim
    BY <2>1, Carried
  <2> QED BY <2>1, <2>2, <2>3
<1> QED BY <1>1, <1>2, <1>3

-----------------------------------------------------------------------------
(* What a router would file.                                               *)

Unfiled(evs, v) == {r \in RegsIn(v) : IdsOf(evs, r) = {}}

Minted(evs, v, r) ==
  NextSequence(evs) + Cardinality({s \in Unfiled(evs, v) : Place(v, s) < Place(v, r)})

\* The births a router of this source would append to this layer.
BirthsOf(evs, src) ==
  IF src \in Reports
    THEN {Birth(src, Minted(evs, src, r), r, Place(src, r)) : r \in Unfiled(evs, src)}
    ELSE {b \in {Birth(src, NextSequence(evs), src, 1)} : IdsOf(evs, src) = {}}

\* Births that may be appended together: new claims under numbers of their own.
Mintable(evs, births) ==
  /\ births \subseteq Event
  /\ \A b \in births : /\ b.claim \in FiledClaims /\ IdsOf(evs, b.claim) = {}
                       /\ b.id \notin KnownIds(evs)
  /\ \A b, d \in births : b.id = d.id \/ b.claim = d.claim => b = d

LEMMA RegsTyped ==
  ASSUME NEW v \in Reports
  PROVE  /\ IsFiniteSet(RegsIn(v)) /\ RegsIn(v) \subseteq Regs
         /\ \A r \in RegsIn(v) : Place(v, r) \in Nat \ {0} /\ RegsOf[v][Place(v, r)] = r
<1>1. RegsOf[v] \in Seq(Regs)
  BY BoundsAssumption
<1> DEFINE q == RegsOf[v]
<1>2. DOMAIN q = 1 .. Len(q) /\ Len(q) \in Nat /\ q = [i \in DOMAIN q |-> q[i]]
  BY <1>1
<1>3. IsFiniteSet(1 .. Len(q))
  <2>1. 1 \in Int /\ Len(q) \in Int
    BY <1>2
  <2> QED BY <2>1, FS_Interval
<1>4. RegsIn(v) = {q[i] : i \in DOMAIN q}
  BY DEF RegsIn, Range
<1>5. IsFiniteSet(RegsIn(v))
  <2>1. IsFiniteSet(DOMAIN q)
    BY <1>2, <1>3
  <2> HIDE DEF q
  <2>2. IsFiniteSet({q[i] : i \in DOMAIN q})
    BY <1>2, <2>1, FiniteImage
  <2> QED BY <1>4, <2>2
<1>6. RegsIn(v) \subseteq Regs
  BY <1>1, <1>4
<1>7. ASSUME NEW r \in RegsIn(v) PROVE Place(v, r) \in Nat \ {0} /\ RegsOf[v][Place(v, r)] = r
  <2> DEFINE S == {i \in DOMAIN q : q[i] = r}
  <2>1. S \in SUBSET Nat /\ S # {} /\ \A i \in S : i # 0
    BY <1>2, <1>4
  <2>2. Place(v, r) = Min(S)
    BY DEF Place
  <2>3. Min(S) \in S
    <3> HIDE DEF S
    <3> QED BY <2>1, MinOfNats
  <2> QED BY <2>1, <2>2, <2>3
<1> QED BY <1>5, <1>6, <1>7

LEMMA MintedDistinct ==
  ASSUME NEW evs, Layer(evs), NEW v \in Reports
  PROVE  /\ \A r \in Unfiled(evs, v) : /\ Minted(evs, v, r) \in Nat \ {0}
                                       /\ Minted(evs, v, r) \notin KnownIds(evs)
         /\ \A r, s \in Unfiled(evs, v) : Minted(evs, v, r) = Minted(evs, v, s) => r = s
<1> DEFINE Before(r) == {s \in Unfiled(evs, v) : Place(v, s) < Place(v, r)}
<1>1. IsFiniteSet(Unfiled(evs, v))
  BY RegsTyped, FS_Subset DEF Unfiled
<1>2. \A r \in Unfiled(evs, v) : IsFiniteSet(Before(r)) /\ Cardinality(Before(r)) \in Nat
  <2> TAKE r \in Unfiled(evs, v)
  <2>1. Before(r) \in SUBSET Unfiled(evs, v)
    OBVIOUS
  <2> HIDE DEF Before
  <2>2. IsFiniteSet(Before(r))
    BY <1>1, <2>1, FS_Subset
  <2> QED BY <2>2, FS_CardinalityType
<1>3. NextSequence(evs) \in Nat \ {0} /\ \A id \in KnownIds(evs) : id < NextSequence(evs)
  BY NextIsFree
<1>4. KnownIds(evs) \subseteq Nat \ {0}
  BY KnownAre
<1>5. \A r \in Unfiled(evs, v) : Minted(evs, v, r) = NextSequence(evs) + Cardinality(Before(r))
  BY DEF Minted
<1>6. \A r \in Unfiled(evs, v) : Place(v, r) \in Nat /\ RegsOf[v][Place(v, r)] = r
  BY RegsTyped DEF Unfiled
<1>7. ASSUME NEW r \in Unfiled(evs, v), NEW s \in Unfiled(evs, v), Place(v, r) < Place(v, s)
      PROVE  Cardinality(Before(r)) # Cardinality(Before(s))
  <2>1. Before(r) \in SUBSET Before(s)
    BY <1>6, <1>7
  <2>2. r \in Before(s) /\ r \notin Before(r)
    BY <1>6, <1>7
  <2>3. IsFiniteSet(Before(s))
    BY <1>2
  <2> HIDE DEF Before
  <2> QED BY <2>1, <2>2, <2>3, FS_Subset
<1> HIDE DEF Before
<1>8. ASSUME NEW r \in Unfiled(evs, v)
      PROVE  Minted(evs, v, r) \in Nat \ {0} /\ Minted(evs, v, r) \notin KnownIds(evs)
  BY <1>2, <1>3, <1>4, <1>5
<1>9. ASSUME NEW r \in Unfiled(evs, v), NEW s \in Unfiled(evs, v),
             Minted(evs, v, r) = Minted(evs, v, s)
      PROVE  r = s
  <2>1. Cardinality(Before(r)) = Cardinality(Before(s))
    BY <1>2, <1>3, <1>5, <1>9
  <2>2. ~(Place(v, r) < Place(v, s)) /\ ~(Place(v, s) < Place(v, r))
    BY <1>7, <2>1
  <2>3. Place(v, r) = Place(v, s)
    BY <1>6, <2>2
  <2> QED BY <1>6, <2>3
<1> QED BY <1>8, <1>9

LEMMA ClaimsDiffer == FiledClaims \subseteq Claims /\ NoClaim \notin FiledClaims
BY BoundsAssumption DEF FiledClaims, Claims

LEMMA BirthsMintable ==
  ASSUME NEW evs, Layer(evs), NEW src \in Reports \cup Advisories
  PROVE  /\ Mintable(evs, BirthsOf(evs, src)) /\ IsFiniteSet(BirthsOf(evs, src))
         /\ \A b \in BirthsOf(evs, src) : b.src = src
<1>1. CASE src \in Reports
  <2> DEFINE B(r) == Birth(src, Minted(evs, src, r), r, Place(src, r))
             f == [r \in Unfiled(evs, src) |-> B(r)]
  <2>1. BirthsOf(evs, src) = {B(r) : r \in Unfiled(evs, src)}
    BY <1>1 DEF BirthsOf
  <2>2. \A r \in Unfiled(evs, src) : /\ r \in Regs /\ r \in FiledClaims /\ IdsOf(evs, r) = {}
                                     /\ Place(src, r) \in Nat \ {0}
                                     /\ Minted(evs, src, r) \in Nat \ {0}
                                     /\ Minted(evs, src, r) \notin KnownIds(evs)
    BY <1>1, RegsTyped, MintedDistinct DEF Unfiled, FiledClaims
  <2>3. \A r \in Unfiled(evs, src) :
          /\ B(r).src = src /\ B(r).id = Minted(evs, src, r) /\ B(r).claim = r
          /\ B(r) \in Event
    BY <2>2, ClaimsDiffer DEF Birth, Event
  <2>4. \A r, s \in Unfiled(evs, src) : B(r).id = B(s).id \/ B(r).claim = B(s).claim => B(r) = B(s)
    BY <1>1, <2>3, MintedDistinct
  <2>5. IsFiniteSet({f[r] : r \in Unfiled(evs, src)})
    <3>1. IsFiniteSet(Unfiled(evs, src))
      BY <1>1, RegsTyped, FS_Subset DEF Unfiled
    <3>2. f = [r \in Unfiled(evs, src) |-> f[r]]
      OBVIOUS
    <3> HIDE DEF f
    <3> QED BY <3>1, <3>2, FiniteImage
  <2>6. IsFiniteSet(BirthsOf(evs, src))
    <3>1. \A r \in Unfiled(evs, src) : f[r] = B(r)
      OBVIOUS
    <3> HIDE DEF f, B
    <3>2. {f[r] : r \in Unfiled(evs, src)} = {B(r) : r \in Unfiled(evs, src)}
      BY <3>1
    <3> QED BY <2>1, <2>5, <3>2
  <2> HIDE DEF B, f
  <2>7. Mintable(evs, BirthsOf(evs, src))
    BY <2>1, <2>2, <2>3, <2>4 DEF Mintable
  <2> QED BY <2>1, <2>3, <2>6, <2>7
<1>2. CASE src \notin Reports
  <2> DEFINE b == Birth(src, NextSequence(evs), src, 1)
  <2>1. src \in Advisories /\ src \in FiledClaims
    BY <1>2 DEF FiledClaims
  <2>2. NextSequence(evs) \in Nat \ {0} /\ NextSequence(evs) \notin KnownIds(evs)
    BY NextIsFree, KnownAre
  <2>3. b.src = src /\ b.id = NextSequence(evs) /\ b.claim = src /\ b \in Event
    BY <2>1, <2>2, ClaimsDiffer DEF Birth, Event
  <2>4. BirthsOf(evs, src) = {x \in {b} : IdsOf(evs, src) = {}}
    BY <1>2 DEF BirthsOf
  <2> HIDE DEF b
  <2>5. IsFiniteSet({b}) /\ BirthsOf(evs, src) \in SUBSET {b}
    BY <2>4, FS_Singleton
  <2>6. IsFiniteSet(BirthsOf(evs, src))
    BY ONLY <2>5, FS_Subset
  <2>7. Mintable(evs, BirthsOf(evs, src))
    BY <2>1, <2>2, <2>3, <2>4 DEF Mintable
  <2> QED BY <2>3, <2>4, <2>6, <2>7
<1> QED BY <1>1, <1>2

-----------------------------------------------------------------------------
(* Appending.                                                              *)

\* A birth at its place behind the end of the layer.
Moved(evs, b) == [b EXCEPT !.at = End(evs) + b.at]

LEMMA AppendTyped ==
  ASSUME NEW evs, evs \subseteq Event, IsFiniteSet(evs),
         NEW new, new \subseteq Event, IsFiniteSet(new)
  PROVE  /\ AppendFresh(evs, new) = evs \cup {Moved(evs, b) : b \in {x \in new : ~Filed(evs, x)}}
         /\ AppendFresh(evs, new) \subseteq Event /\ IsFiniteSet(AppendFresh(evs, new))
         /\ \A b \in new : /\ Moved(evs, b).src = b.src /\ Moved(evs, b).id = b.id
                           /\ Moved(evs, b).claim = b.claim
         /\ \A b \in new : Filed(AppendFresh(evs, new), b)
<1> DEFINE F == {x \in new : ~Filed(evs, x)}
           f == [b \in F |-> Moved(evs, b)]
<1>1. End(evs) \in Nat
  BY EndTyped
<1>2. \A b \in new : /\ Moved(evs, b).src = b.src /\ Moved(evs, b).id = b.id
                     /\ Moved(evs, b).claim = b.claim /\ Moved(evs, b) \in Event
  BY <1>1 DEF Moved, Event
<1>3. AppendFresh(evs, new) = evs \cup {Moved(evs, b) : b \in F}
  BY DEF AppendFresh, Moved
<1>4. IsFiniteSet({f[b] : b \in F})
  <2>1. F \in SUBSET new /\ f = [b \in F |-> f[b]]
    OBVIOUS
  <2> HIDE DEF f, F
  <2>2. IsFiniteSet(F)
    BY <2>1, FS_Subset
  <2> QED BY <2>1, <2>2, FiniteImage
<1>5. {f[b] : b \in F} = {Moved(evs, b) : b \in F}
  OBVIOUS
<1>6. \A b \in new : Filed(AppendFresh(evs, new), b)
  <2> TAKE b \in new
  <2>1. CASE Filed(evs, b)
    BY <1>3, <2>1 DEF Filed
  <2>2. CASE ~Filed(evs, b)
    <3>1. Moved(evs, b) \in AppendFresh(evs, new) /\ SameEventId(Moved(evs, b), b)
      BY <1>2, <1>3, <2>2 DEF SameEventId
    <3> QED BY <3>1 DEF Filed
  <2> QED BY <2>1, <2>2
<1>7. AppendFresh(evs, new) \subseteq Event
  BY <1>2, <1>3
<1> HIDE DEF f, F
<1>8. IsFiniteSet(AppendFresh(evs, new))
  BY <1>3, <1>4, <1>5, FS_Union
<1> QED BY <1>2, <1>3, <1>6, <1>7, <1>8 DEF F

\* A second run of the same plan adds nothing that carries a claim.
LEMMA AppendAgain ==
  ASSUME NEW evs, Layer(evs), NEW new, new \subseteq Event, IsFiniteSet(new),
         \A b \in Carrying(new) : Filed(evs, b),
         \A b \in new \ Carrying(new) : b.id \in KnownIds(evs)
  PROVE  LET after == AppendFresh(evs, new)
         IN  /\ Layer(after) /\ Carrying(after) = Carrying(evs)
             /\ \A b \in new : Filed(after, b)
<1> DEFINE after == AppendFresh(evs, new)
<1>1. /\ after = evs \cup {Moved(evs, b) : b \in {x \in new : ~Filed(evs, x)}}
      /\ after \subseteq Event /\ IsFiniteSet(after)
      /\ \A b \in new : Moved(evs, b).id = b.id /\ Moved(evs, b).claim = b.claim
      /\ \A b \in new : Filed(after, b)
  BY AppendTyped DEF Layer
<1> HIDE DEF after
<1>2. Carrying(after) = Carrying(evs)
  BY <1>1 DEF Carrying
<1>3. KnownIds(after) = KnownIds(evs)
  BY <1>2, SameCarrying
<1>4. \A e \in after : e.id \in KnownIds(after)
  BY <1>1, <1>3 DEF Layer, Carrying
<1>5. Layer(after)
  BY <1>1, <1>2, <1>4 DEF Layer
<1> QED BY <1>1, <1>2, <1>5 DEF after

LEMMA AppendNew ==
  ASSUME NEW evs, Layer(evs), NEW new, new \subseteq Event, IsFiniteSet(new),
         Mintable(evs, Carrying(new)),
         \A b \in new \ Carrying(new) : b.id \in KnownIds(evs)
  PROVE  LET after == AppendFresh(evs, new)
         IN  /\ Layer(after) /\ Carrying(evs) \subseteq Carrying(after)
             /\ \A b \in new : Filed(after, b)
             /\ \A b \in Carrying(new) : b.id \in IdsOf(after, b.claim)
<1> DEFINE after == AppendFresh(evs, new)
<1>1. /\ after = evs \cup {Moved(evs, b) : b \in {x \in new : ~Filed(evs, x)}}
      /\ after \subseteq Event /\ IsFiniteSet(after)
      /\ \A b \in new : Moved(evs, b).id = b.id /\ Moved(evs, b).claim = b.claim
      /\ \A b \in new : Filed(after, b)
  BY AppendTyped DEF Layer
<1> HIDE DEF after
<1>2. \A b \in Carrying(new) : ~Filed(evs, b)
  BY DEF Filed, SameEventId, Layer, Mintable
<1>3. Carrying(after) = Carrying(evs) \cup {Moved(evs, b) : b \in Carrying(new)}
  BY <1>1, <1>2 DEF Carrying
<1>4. KnownIds(evs) = BaseIds \cup {e.id : e \in Carrying(evs)}
  BY KnownAre
<1>5. KnownIds(after) = BaseIds \cup {e.id : e \in Carrying(after)}
  BY DEF KnownIds, CarriedIds, Carrying
<1>6. \A e \in after : e.id \in KnownIds(after)
  <2> TAKE e \in after
  <2>1. KnownIds(evs) \subseteq KnownIds(after)
    BY <1>3, <1>4, <1>5
  <2>2. CASE e \in evs
    BY <2>1, <2>2 DEF Layer
  <2>3. CASE e \in Carrying(after)
    BY <1>5, <2>3
  <2>4. CASE e \notin evs /\ e \notin Carrying(after)
    BY <1>1, <2>1, <2>4 DEF Carrying
  <2> QED BY <2>2, <2>3, <2>4
<1>7. ASSUME NEW b \in Carrying(new)
      PROVE  /\ b.claim \in FiledClaims /\ b.id \notin BaseIds
             /\ \A i \in BaseIds : Baseline[i] # b.claim
             /\ \A e \in Carrying(evs) : e.id # b.id /\ e.claim # b.claim
  <2>1. b.claim \in FiledClaims /\ IdsOf(evs, b.claim) = {} /\ b.id \notin KnownIds(evs)
    BY DEF Mintable
  <2>2. \A id : ~(id \in BaseIds /\ Baseline[id] = b.claim)
    BY <2>1, IdsAre
  <2>3. \A e \in Carrying(evs) : e.claim # b.claim
    BY <2>1, IdsAre
  <2> QED BY <1>4, <2>1, <2>2, <2>3
<1>8. \A d, e \in Carrying(after) : d.id = e.id \/ d.claim = e.claim => d = e
  <2> TAKE d \in Carrying(after), e \in Carrying(after)
  <2>1. CASE d \in Carrying(evs) /\ e \in Carrying(evs)
    BY <2>1 DEF Layer
  <2>2. \A b \in Carrying(new) : Moved(evs, b).id = b.id /\ Moved(evs, b).claim = b.claim
    BY <1>1 DEF Carrying
  <2>3. ASSUME NEW x \in Carrying(new), d = Moved(evs, x), e \in Carrying(evs)
        PROVE  d.id # e.id /\ d.claim # e.claim
    BY <1>7, <2>2, <2>3
  <2>4. ASSUME NEW x \in Carrying(new), e = Moved(evs, x), d \in Carrying(evs)
        PROVE  d.id # e.id /\ d.claim # e.claim
    BY <1>7, <2>2, <2>4
  <2>5. ASSUME NEW x \in Carrying(new), NEW y \in Carrying(new), d = Moved(evs, x), e = Moved(evs, y),
               d.id = e.id \/ d.claim = e.claim
        PROVE  d = e
    BY <2>2, <2>5 DEF Mintable
  <2> QED BY <1>3, <2>1, <2>3, <2>4, <2>5
<1>9. \A e \in Carrying(after) : /\ e.claim \in FiledClaims /\ e.id \notin BaseIds
                                 /\ \A i \in BaseIds : Baseline[i] # e.claim
  BY <1>1, <1>3, <1>7 DEF Layer, Carrying
<1>10. Layer(after)
  BY <1>1, <1>6, <1>8, <1>9 DEF Layer
<1>11. ASSUME NEW b \in Carrying(new) PROVE b.id \in IdsOf(after, b.claim)
  <2>1. /\ Moved(evs, b) \in Carrying(after)
        /\ Moved(evs, b).id = b.id /\ Moved(evs, b).claim = b.claim
    BY <1>1, <1>3 DEF Carrying
  <2> QED BY <1>10, <2>1, IdsAre
<1> QED BY <1>1, <1>3, <1>10, <1>11 DEF after

-----------------------------------------------------------------------------
(* The plan of a regression router.                                        *)

BackOK == \A r \in Regs : routedId[r] # Unrouted => routedId[r] \in IdsOf(events, r)

LEMMA PriorIs ==
  ASSUME Serial, Layer(events), BackOK, NEW r \in Regs
  PROVE  /\ IsFresh(r) <=> IdsOf(events, r) = {}
         /\ ~IsFresh(r) => Prior(r) \in IdsOf(events, r)
<1>1. CASE IdsOf(events, r) = {}
  <2>1. routedId[r] = Unrouted /\ Unrouted \notin KnownIds(events)
    BY <1>1, KnownAre DEF BackOK, Unrouted
  <2> QED BY <1>1, <2>1 DEF IsFresh, Prior
<1>2. CASE IdsOf(events, r) # {}
  <2>1. PICK id \in IdsOf(events, r) : TRUE
    BY <1>2
  <2>2. r \in FiledClaims
    BY DEF FiledClaims
  <2>3. IdsOf(events, r) = {id}
    BY <2>1, <2>2, OneId
  <2>4. Born(id) \in Nat
    <3>1. CASE id \in CarriedIds(events)
      <4>1. PICK e \in Carrying(events) : e.id = id
        BY <3>1 DEF CarriedIds, Carrying
      <4>2. Carriers(events, id) = {e} /\ e.at \in Nat
        BY <4>1, Carried DEF Layer, Carrying, Event
      <4>3. {x.at : x \in Carriers(events, id)} \in SUBSET Nat /\ {x.at : x \in Carriers(events, id)} # {}
        BY <4>2
      <4> QED BY <3>1, <4>3, MinOfNats DEF Born
    <3>2. CASE id \notin CarriedIds(events)
      BY <3>2 DEF Born
    <3> QED BY <3>1, <3>2
  <2>5. Born(id) <= Born(id)
    BY <2>4
  <2>6. LastOf({id}) = id
    BY <2>5 DEF LastOf
  <2>7. Prior(r) = id /\ id # Unrouted
    BY <1>2, <2>1, <2>3, <2>6, IdsResolve DEF Prior, Unrouted
  <2> QED BY <2>1, <2>3, <2>7, <1>2 DEF IsFresh
<1> QED BY <1>1, <1>2

LEMMA NumbersAre ==
  ASSUME Serial, Layer(events), BackOK, NEW v \in Reports
  PROVE  /\ FreshOf(v) = Unfiled(events, v)
         /\ \A r \in Unfiled(events, v) : NumberOf(v, r) = Minted(events, v, r)
         /\ \A r \in RegsIn(v) \ Unfiled(events, v) : NumberOf(v, r) \in IdsOf(events, r)
<1>1. \A r \in RegsIn(v) : /\ IsFresh(r) <=> IdsOf(events, r) = {}
                           /\ ~IsFresh(r) => Prior(r) \in IdsOf(events, r)
  BY RegsTyped, PriorIs
<1>2. FreshOf(v) = Unfiled(events, v)
  BY <1>1 DEF FreshOf, Unfiled
<1>3. \A r \in Unfiled(events, v) : NumberOf(v, r) = Minted(events, v, r)
  BY <1>1, <1>2 DEF NumberOf, Minted, Unfiled
<1>4. \A r \in RegsIn(v) \ Unfiled(events, v) : NumberOf(v, r) \in IdsOf(events, r)
  BY <1>1 DEF NumberOf, Unfiled
<1> QED BY <1>2, <1>3, <1>4

LEMMA NewEventsAre ==
  ASSUME Serial, Layer(events), BackOK, NEW v \in Reports
  PROVE  /\ NewEvents(v) \subseteq Event /\ IsFiniteSet(NewEvents(v))
         /\ Carrying(NewEvents(v)) = BirthsOf(events, v)
         /\ \A b \in NewEvents(v) \ Carrying(NewEvents(v)) : b.id \in KnownIds(events)
<1>1. \A r \in RegsIn(v) :
         r \in Regs /\ r \in FiledClaims /\ r # NoClaim /\ Place(v, r) \in Nat \ {0}
  BY RegsTyped, ClaimsDiffer DEF FiledClaims
<1>2. \A r \in RegsIn(v) : IsFresh(r) <=> r \in Unfiled(events, v)
  BY NumbersAre DEF FreshOf
<1>3. \A r \in Unfiled(events, v) :
        BirthOf(v, r) = Birth(v, Minted(events, v, r), r, Place(v, r))
  BY <1>2, NumbersAre DEF BirthOf, Unfiled
<1>4. \A r \in RegsIn(v) \ Unfiled(events, v) :
        /\ BirthOf(v, r) = Birth(v, NumberOf(v, r), NoClaim, Place(v, r))
        /\ NumberOf(v, r) \in KnownIds(events) /\ NumberOf(v, r) \in Nat \ {0}
  BY <1>2, NumbersAre, IdsResolve DEF BirthOf
<1>5. \A r \in RegsIn(v) : BirthOf(v, r) \in Event
  <2> TAKE r \in RegsIn(v)
  <2>1. CASE r \in Unfiled(events, v)
    BY <1>1, <1>3, <2>1, MintedDistinct, ClaimsDiffer DEF Birth, Event
  <2>2. CASE r \notin Unfiled(events, v)
    BY <1>1, <1>4, <2>2 DEF Birth, Event
  <2> QED BY <2>1, <2>2
<1> DEFINE all == {BirthOf(v, r) : r \in RegsIn(v)}
           f == [r \in RegsIn(v) |-> BirthOf(v, r)]
<1>6. NewEvents(v) \subseteq all
  BY DEF NewEvents
<1>7. IsFiniteSet(NewEvents(v))
  <2>1. f = [r \in RegsIn(v) |-> f[r]] /\ all = {f[r] : r \in RegsIn(v)}
    OBVIOUS
  <2> HIDE DEF f, all
  <2>2. IsFiniteSet({f[r] : r \in RegsIn(v)})
    BY <2>1, RegsTyped, FiniteImage
  <2> QED BY <1>6, <2>1, <2>2, FS_Subset
<1>8. NewEvents(v) \subseteq Event
  BY <1>5, <1>6
<1>9. ASSUME NEW r \in Unfiled(events, v) PROVE BirthOf(v, r) \in NewEvents(v)
  <2>1. r \in RegsIn(v) /\ BirthOf(v, r).id = Minted(events, v, r) /\ BirthOf(v, r).at = Place(v, r)
    BY <1>3 DEF Birth, Unfiled
  <2>2. Minted(events, v, r) \notin KnownIds(events)
    BY MintedDistinct
  <2>3. ~Filed(events, BirthOf(v, r))
    BY <2>1, <2>2 DEF Filed, SameEventId, Layer
  <2>4. ASSUME NEW s \in RegsIn(v), SameEventId(BirthOf(v, s), BirthOf(v, r))
        PROVE  Place(v, r) <= Place(v, s)
    <3>1. BirthOf(v, s).id = Minted(events, v, r)
      BY <2>1, <2>4 DEF SameEventId
    <3>2. s \in Unfiled(events, v)
      <4> SUFFICES ASSUME s \notin Unfiled(events, v) PROVE FALSE
        OBVIOUS
      <4>1. BirthOf(v, s).id \in KnownIds(events)
        BY <1>4 DEF Birth
      <4> QED BY <2>2, <3>1, <4>1
    <3>3. BirthOf(v, s).id = Minted(events, v, s)
      BY <1>3, <3>2 DEF Birth
    <3>4. s = r
      BY <3>1, <3>2, <3>3, MintedDistinct
    <3> QED BY <1>1, <2>1, <3>4
  <2> QED BY <2>1, <2>3, <2>4 DEF NewEvents
<1>10. Carrying(NewEvents(v)) = BirthsOf(events, v)
  <2>1. BirthsOf(events, v) = {BirthOf(v, r) : r \in Unfiled(events, v)}
    BY <1>3 DEF BirthsOf
  <2>2. \A r \in Unfiled(events, v) : BirthOf(v, r).claim # NoClaim
    BY <1>1, <1>3 DEF Birth, Unfiled
  <2>3. \A r \in RegsIn(v) \ Unfiled(events, v) : BirthOf(v, r).claim = NoClaim
    BY <1>4 DEF Birth
  <2> QED BY <1>6, <1>9, <2>1, <2>2, <2>3 DEF Carrying
<1>11. \A b \in NewEvents(v) \ Carrying(NewEvents(v)) : b.id \in KnownIds(events)
  <2> TAKE b \in NewEvents(v) \ Carrying(NewEvents(v))
  <2>1. PICK r \in RegsIn(v) : b = BirthOf(v, r)
    BY <1>6
  <2>2. r \notin Unfiled(events, v)
    BY <1>10, <1>3, <2>1 DEF BirthsOf
  <2> QED BY <1>4, <2>1, <2>2 DEF Birth
<1> QED BY <1>7, <1>8, <1>10, <1>11

-----------------------------------------------------------------------------
(* Routers at work.                                                        *)

\* A plan that still fits the layer it was made for, ...
Ahead(s, evs) ==
  /\ s.step # "write"
  /\ Carrying(s.new) = BirthsOf(evs, s.src)
  /\ s.step # "file" =>
       /\ \A r \in Unfiled(evs, s.src) : s.back[r] = Minted(evs, s.src, r)
       /\ \A r \in RegsIn(s.src) \ Unfiled(evs, s.src) : s.back[r] \in IdsOf(evs, r)

\* ... and one that this router or another of the same source has carried out.
Behind(s, evs) ==
  /\ s.step # "write" => \A b \in Carrying(s.new) : Filed(evs, b)
  /\ s.step # "file" => \A r \in RegsIn(s.src) : s.back[r] \in IdsOf(evs, r)

PlanAt(step, src, new, claims, back) ==
  [step |-> step, src |-> src, new |-> new, pins |-> claims, back |-> back]

Live(s, evs) ==
  /\ s.step \in {"pin", "submit", "write", "file"}
  /\ s.step = "file" => s.src \in Advisories
  /\ s.step # "file" => /\ s = PlanAt(s.step, s.src, s.new, s.pins, s.back)
                        /\ s.src \in Reports /\ s.back = [r \in RegsIn(s.src) |-> s.back[r]]
  /\ s.step # "write" => /\ s.new \subseteq Event /\ IsFiniteSet(s.new)
                         /\ \A b \in s.new \ Carrying(s.new) : b.id \in KnownIds(evs)
  /\ Ahead(s, evs) \/ Behind(s, evs)

LEMMA LiveKept ==
  ASSUME NEW d, NEW e, d \subseteq e, Carrying(d) = Carrying(e), NEW s, Live(s, d)
  PROVE  Live(s, e)
<1>1. /\ KnownIds(d) = KnownIds(e) /\ NextSequence(d) = NextSequence(e)
      /\ \A c : IdsOf(d, c) = IdsOf(e, c)
  BY SameCarrying
<1>2. \A v : Unfiled(d, v) = Unfiled(e, v)
  BY <1>1 DEF Unfiled
<1>3. \A v, r : Minted(d, v, r) = Minted(e, v, r)
  BY <1>1, <1>2 DEF Minted
<1>4. BirthsOf(d, s.src) = BirthsOf(e, s.src)
  BY <1>1, <1>2, <1>3 DEF BirthsOf
<1>5. \A b : Filed(d, b) => Filed(e, b)
  BY DEF Filed
<1>6. Ahead(s, d) => Ahead(s, e)
  BY <1>1, <1>2, <1>3, <1>4 DEF Ahead
<1>7. Behind(s, d) => Behind(s, e)
  BY <1>1, <1>5 DEF Behind
<1> QED BY <1>1, <1>6, <1>7 DEF Live

\* When one of the routers of a source appends, the others' plans are carried out.
LEMMA LiveAppended ==
  ASSUME NEW evs, Layer(evs), NEW s, Live(s, evs), NEW t, Live(t, evs), t.step # "write",
         t.src = s.src
  PROVE  LET after == AppendFresh(evs, t.new)
         IN  /\ Layer(after) /\ Carrying(evs) \subseteq Carrying(after)
             /\ Behind(t, after) /\ Live(s, after)
<1> DEFINE after == AppendFresh(evs, t.new)
<1>1. /\ t.new \subseteq Event /\ IsFiniteSet(t.new)
      /\ \A b \in t.new \ Carrying(t.new) : b.id \in KnownIds(evs)
  BY DEF Live
<1>2. evs \subseteq after
  BY DEF AppendFresh
<1>3. \A b : Filed(evs, b) => Filed(after, b)
  BY <1>2 DEF Filed
<1>4. CASE Behind(t, evs)
  <2>1. /\ Layer(after) /\ Carrying(after) = Carrying(evs)
        /\ \A b \in t.new : Filed(after, b)
    BY <1>1, <1>4, AppendAgain DEF Behind
  <2>2. Live(s, after) /\ Live(t, after)
    BY <1>2, <2>1, LiveKept
  <2>3. \A c : IdsOf(after, c) = IdsOf(evs, c)
    BY <2>1, SameCarrying
  <2>4. Behind(t, after)
    BY <1>3, <1>4, <2>3 DEF Behind
  <2> QED BY <2>1, <2>2, <2>4
<1>5. CASE Ahead(t, evs)
  <2>1. t.src \in Reports \cup Advisories
    BY DEF Live
  <2>2. Carrying(t.new) = BirthsOf(evs, t.src)
    BY <1>5 DEF Ahead
  <2>3. Mintable(evs, Carrying(t.new))
    BY <2>1, <2>2, BirthsMintable
  <2>4. /\ Layer(after) /\ Carrying(evs) \subseteq Carrying(after)
        /\ \A b \in t.new : Filed(after, b)
        /\ \A b \in Carrying(t.new) : b.id \in IdsOf(after, b.claim)
    BY <1>1, <2>3, AppendNew
  <2> HIDE DEF after
  <2>5. KnownIds(evs) \subseteq KnownIds(after) /\ \A c : IdsOf(evs, c) \subseteq IdsOf(after, c)
    BY <2>4, MoreCarrying
  <2>6. ASSUME NEW x, Live(x, evs), Ahead(x, evs), x.src = t.src PROVE Behind(x, after)
    <3>1. Carrying(x.new) = Carrying(t.new)
      BY <2>2, <2>6 DEF Ahead
    <3>2. \A b \in Carrying(x.new) : Filed(after, b)
      BY <2>4, <3>1 DEF Carrying
    <3>3. ASSUME x.step # "file", NEW r \in RegsIn(x.src) PROVE x.back[r] \in IdsOf(after, r)
      <4>1. x.src \in Reports
        BY <2>6, <3>3 DEF Live
      <4>2. CASE r \in Unfiled(evs, x.src)
        <5> DEFINE b == Birth(x.src, Minted(evs, x.src, r), r, Place(x.src, r))
        <5>1. b \in Carrying(t.new)
          BY <2>2, <2>6, <4>1, <4>2 DEF BirthsOf
        <5>2. b.id = Minted(evs, x.src, r) /\ b.claim = r
          BY DEF Birth
        <5>3. x.back[r] = Minted(evs, x.src, r)
          BY <2>6, <3>3, <4>2 DEF Ahead
        <5> HIDE DEF b
        <5> QED BY <2>4, <5>1, <5>2, <5>3
      <4>3. CASE r \notin Unfiled(evs, x.src)
        BY <2>5, <2>6, <3>3, <4>3 DEF Ahead
      <4> QED BY <4>2, <4>3
    <3> QED BY <3>2, <3>3 DEF Behind
  <2>7. Behind(t, after)
    BY <1>5, <2>6
  <2>8. Behind(s, evs) => Behind(s, after)
    BY <1>3, <2>5 DEF Behind, after
  <2>9. Behind(s, after)
    BY <2>6, <2>8 DEF Live
  <2>10. Live(s, after)
    BY <2>5, <2>9 DEF Live
  <2> QED BY <2>4, <2>7, <2>10 DEF after
<1> QED BY <1>4, <1>5 DEF Live

-----------------------------------------------------------------------------
(* The invariant.                                                          *)

OneSource ==
  \A p, q \in Runs : run[p] # Idle /\ run[q] # Idle => run[p].src = run[q].src

IInv ==
  /\ Layer(events) /\ BackOK
  /\ routedId = [r \in Regs |-> routedId[r]] /\ run = [p \in Runs |-> run[p]]
  /\ \A p \in Runs : run[p] # Idle => Live(run[p], events)
  /\ OneSource

\* A router that starts beside others of its source.
LEMMA Started ==
  ASSUME Serial, IInv, NEW p \in Runs, NEW src, MayStart(p, src), NEW s,
         s.src = src, Live(s, events), s # Idle,
         run' = [run EXCEPT ![p] = s], UNCHANGED <<events, pins, routedId>>
  PROVE  IInv'
<1>1. run'[p] = s /\ \A q \in Runs : q # p => run'[q] = run[q]
  BY DEF IInv
<1>2. run' = [q \in Runs |-> run'[q]]
  BY DEF IInv
<1>3. \A q \in Runs : run[q] # Idle => run[q].src = src
  BY DEF MayStart, Serial
<1>4. OneSource'
  BY <1>1, <1>3 DEF OneSource
<1>5. \A q \in Runs : run'[q] # Idle => Live(run'[q], events')
  BY <1>1 DEF IInv
<1>6. Layer(events)' /\ BackOK'
  BY DEF IInv, BackOK
<1> QED BY <1>2, <1>4, <1>5, <1>6 DEF IInv

\* A router that goes on.
LEMMA GoesOn ==
  ASSUME IInv, NEW p \in Runs, run[p] # Idle, NEW s,
         s.src = run[p].src, Live(s, events'),
         run' = [run EXCEPT ![p] = s],
         Layer(events'), BackOK', routedId' = [r \in Regs |-> routedId'[r]],
         \A q \in Runs : q # p /\ run[q] # Idle => Live(run[q], events')
  PROVE  IInv'
<1>1. run'[p] = s /\ \A q \in Runs : q # p => run'[q] = run[q]
  BY DEF IInv
<1>2. run' = [q \in Runs |-> run'[q]]
  BY DEF IInv
<1>3. OneSource'
  BY <1>1 DEF OneSource, IInv
<1>4. \A q \in Runs : run'[q] # Idle => Live(run'[q], events')
  BY <1>1
<1> QED BY <1>2, <1>3, <1>4 DEF IInv

\* A router that ends.
LEMMA Ends ==
  ASSUME IInv, NEW p \in Runs, run' = [run EXCEPT ![p] = Idle],
         Layer(events'), BackOK', routedId' = [r \in Regs |-> routedId'[r]],
         \A q \in Runs : q # p /\ run[q] # Idle => Live(run[q], events')
  PROVE  IInv'
<1>1. run'[p] = Idle /\ \A q \in Runs : q # p => run'[q] = run[q]
  BY DEF IInv
<1>2. run' = [q \in Runs |-> run'[q]]
  BY DEF IInv
<1>3. OneSource'
  BY <1>1 DEF OneSource, IInv
<1>4. \A q \in Runs : run'[q] # Idle => Live(run'[q], events')
  BY <1>1
<1> QED BY <1>2, <1>3, <1>4 DEF IInv

LEMMA InitInv == Init => IInv
<1> SUFFICES ASSUME Init PROVE IInv
  OBVIOUS
<1>1. events = {} /\ Carrying(events) = {}
  BY DEF Init, Carrying
<1>2. Layer(events)
  BY <1>1, FS_EmptySet DEF Layer
<1> QED BY <1>2 DEF Init, IInv, BackOK, OneSource

LEMMA RouteRegressionsKeeps ==
  ASSUME Serial, IInv, NEW p \in Runs, NEW v \in Reports, RouteRegressions(p, v)
  PROVE  IInv'
<1> DEFINE back == [r \in RegsIn(v) |-> NumberOf(v, r)]
           s == PlanAt("pin", v, NewEvents(v), PinsOf(v), back)
<1>1. /\ MayStart(p, v) /\ run' = [run EXCEPT ![p] = s]
      /\ UNCHANGED <<events, pins, routedId>>
  BY DEF RouteRegressions, PlanAt
<1>2. /\ s.step = "pin" /\ s.src = v /\ s.new = NewEvents(v) /\ s.back = back
      /\ s = PlanAt(s.step, s.src, s.new, s.pins, s.back) /\ s # Idle
  BY DEF PlanAt, Idle
<1>3. /\ NewEvents(v) \subseteq Event /\ IsFiniteSet(NewEvents(v))
      /\ Carrying(NewEvents(v)) = BirthsOf(events, v)
      /\ \A b \in NewEvents(v) \ Carrying(NewEvents(v)) : b.id \in KnownIds(events)
  BY NewEventsAre DEF IInv
<1>4. /\ \A r \in Unfiled(events, v) : back[r] = Minted(events, v, r)
      /\ \A r \in RegsIn(v) \ Unfiled(events, v) : back[r] \in IdsOf(events, r)
  BY NumbersAre DEF IInv, Unfiled
<1>5. back = [r \in RegsIn(v) |-> back[r]]
  OBVIOUS
<1> HIDE DEF s, back
<1>6. Ahead(s, events)
  BY <1>2, <1>3, <1>4 DEF Ahead
<1>7. Live(s, events)
  BY <1>2, <1>3, <1>5, <1>6 DEF Live
<1> QED BY <1>1, <1>2, <1>7, Started

LEMMA RouteImpactKeeps ==
  ASSUME Serial, IInv, NEW p \in Runs, NEW a \in Advisories, RouteImpact(p, a)
  PROVE  IInv'
<1> DEFINE b == Birth(a, NextSequence(events), a, 1)
           s == [step |-> "file", src |-> a, new |-> {b}]
<1>1. /\ MayStart(p, a) /\ IdsOf(events, a) = {} /\ run' = [run EXCEPT ![p] = s]
      /\ UNCHANGED <<events, pins, routedId>>
  BY DEF RouteImpact
<1>2. s.step = "file" /\ s.src = a /\ s.new = {b} /\ s # Idle
  BY DEF Idle
<1>3. b \in Event /\ b.claim # NoClaim
  BY NextIsFree, ClaimsDiffer DEF IInv, Birth, Event, FiledClaims
<1>4. BirthsOf(events, a) = {b}
  BY <1>1, BoundsAssumption DEF BirthsOf
<1> HIDE DEF s, b
<1>5. Carrying(s.new) = {b} /\ s.new \subseteq Event /\ IsFiniteSet(s.new)
  BY <1>2, <1>3, FS_Singleton DEF Carrying
<1>6. Live(s, events)
  BY <1>2, <1>4, <1>5 DEF Live, Ahead
<1> QED BY <1>1, <1>2, <1>6, Started

LEMMA PinKeeps ==
  ASSUME IInv, NEW p \in Runs, Pin(p)
  PROVE  IInv'
<1> DEFINE s == [run[p] EXCEPT !.step = "submit"]
<1>1. /\ run[p].step = "pin" /\ run' = [run EXCEPT ![p] = s] /\ UNCHANGED <<events, routedId>>
  BY DEF Pin
<1>2. run[p] # Idle /\ Live(run[p], events)
  BY <1>1 DEF IInv, Idle
<1>3. run[p] = PlanAt("pin", run[p].src, run[p].new, run[p].pins, run[p].back)
  BY <1>1, <1>2 DEF Live
<1>4. s = PlanAt("submit", run[p].src, run[p].new, run[p].pins, run[p].back)
  BY <1>3 DEF PlanAt
<1> HIDE DEF s
<1>5. /\ s.step = "submit" /\ s.src = run[p].src /\ s.new = run[p].new /\ s.back = run[p].back
      /\ s = PlanAt(s.step, s.src, s.new, s.pins, s.back)
  BY <1>4 DEF PlanAt
<1>6. Live(s, events)
  BY <1>1, <1>2, <1>5 DEF Live, Ahead, Behind
<1>7. Layer(events') /\ BackOK' /\ routedId' = [r \in Regs |-> routedId'[r]]
  BY <1>1 DEF IInv, BackOK
<1>8. \A q \in Runs : q # p /\ run[q] # Idle => Live(run[q], events')
  BY <1>1 DEF IInv
<1>9. Live(s, events')
  BY <1>1, <1>6
<1> QED BY <1>1, <1>2, <1>5, <1>7, <1>8, <1>9, GoesOn

\* What an append keeps, for the router that appends and for the others.
LEMMA Appends ==
  ASSUME IInv, NEW p \in Runs, run[p] # Idle, run[p].step # "write",
         events' = AppendFresh(events, run[p].new), routedId' = routedId
  PROVE  /\ Layer(events') /\ BackOK' /\ routedId' = [r \in Regs |-> routedId'[r]]
         /\ Carrying(events) \subseteq Carrying(events')
         /\ Behind(run[p], events')
         /\ \A q \in Runs : run[q] # Idle => Live(run[q], events')
<1>1. Layer(events) /\ Live(run[p], events)
  BY DEF IInv
<1>2. ASSUME NEW q \in Runs, run[q] # Idle
      PROVE  /\ Layer(events') /\ Carrying(events) \subseteq Carrying(events')
             /\ Behind(run[p], events') /\ Live(run[q], events')
  <2>1. Live(run[q], events) /\ run[p].src = run[q].src
    BY <1>2 DEF IInv, OneSource
  <2> QED BY <1>1, <2>1, LiveAppended
<1>3. /\ Layer(events') /\ Carrying(events) \subseteq Carrying(events')
      /\ Behind(run[p], events')
  BY <1>2
<1>4. \A c : IdsOf(events, c) \subseteq IdsOf(events', c)
  BY <1>1, <1>3, MoreCarrying
<1>5. \A r \in Regs : routedId'[r] # Unrouted => routedId'[r] \in IdsOf(events', r)
  BY <1>4 DEF IInv, BackOK
<1>6. BackOK'
  BY <1>5 DEF BackOK
<1> QED BY <1>2, <1>3, <1>6 DEF IInv

LEMMA SubmitKeeps ==
  ASSUME IInv, NEW p \in Runs, Submit(p)
  PROVE  IInv' /\ Carrying(events) \subseteq Carrying(events') /\ Layer(events')
<1> DEFINE s == [run[p] EXCEPT !.step = "write"]
<1>1. /\ run[p].step = "submit" /\ run' = [run EXCEPT ![p] = s]
      /\ events' = AppendFresh(events, run[p].new) /\ routedId' = routedId
  BY DEF Submit
<1>2. run[p] # Idle /\ Live(run[p], events)
  BY <1>1 DEF IInv, Idle
<1>3. run[p] = PlanAt("submit", run[p].src, run[p].new, run[p].pins, run[p].back)
  BY <1>1, <1>2 DEF Live
<1>4. s = PlanAt("write", run[p].src, run[p].new, run[p].pins, run[p].back)
  BY <1>3 DEF PlanAt
<1> HIDE DEF s
<1>5. /\ s.step = "write" /\ s.src = run[p].src /\ s.new = run[p].new /\ s.back = run[p].back
      /\ s = PlanAt(s.step, s.src, s.new, s.pins, s.back)
  BY <1>4 DEF PlanAt
<1>6. /\ Layer(events') /\ BackOK' /\ routedId' = [r \in Regs |-> routedId'[r]]
      /\ Carrying(events) \subseteq Carrying(events')
      /\ Behind(run[p], events')
      /\ \A q \in Runs : run[q] # Idle => Live(run[q], events')
  BY <1>1, <1>2, Appends
<1>7. Live(s, events')
  <2>1. Behind(s, events')
    BY <1>1, <1>5, <1>6 DEF Behind
  <2> QED BY <1>1, <1>2, <1>5, <2>1 DEF Live
<1> QED BY <1>1, <1>2, <1>5, <1>6, <1>7, GoesOn

LEMMA FileKeeps ==
  ASSUME IInv, NEW p \in Runs, File(p)
  PROVE  IInv' /\ Carrying(events) \subseteq Carrying(events') /\ Layer(events')
<1>1. /\ run[p].step = "file" /\ run' = [run EXCEPT ![p] = Idle]
      /\ events' = AppendFresh(events, run[p].new) /\ routedId' = routedId
  BY DEF File
<1>2. run[p] # Idle
  BY <1>1 DEF Idle
<1>3. /\ Layer(events') /\ BackOK' /\ routedId' = [r \in Regs |-> routedId'[r]]
      /\ Carrying(events) \subseteq Carrying(events')
      /\ \A q \in Runs : run[q] # Idle => Live(run[q], events')
  BY <1>1, <1>2, Appends
<1> QED BY <1>1, <1>3, Ends

LEMMA WriteReportKeeps ==
  ASSUME IInv, NEW p \in Runs, WriteReport(p)
  PROVE  IInv'
<1>1. /\ run[p].step = "write" /\ run' = [run EXCEPT ![p] = Idle] /\ events' = events
      /\ routedId' = [r \in Regs |-> IF r \in DOMAIN run[p].back THEN run[p].back[r] ELSE routedId[r]]
  BY DEF WriteReport
<1>2. run[p] # Idle /\ Live(run[p], events)
  BY <1>1 DEF IInv, Idle
<1> DEFINE back == run[p].back
           mine == RegsIn(run[p].src)
<1>3. /\ DOMAIN back = mine /\ run[p].src \in Reports
      /\ \A r \in mine : back[r] \in IdsOf(events, r)
  BY <1>1, <1>2 DEF Live, Ahead, Behind
<1>4. mine \subseteq Regs
  BY <1>3, RegsTyped
<1>5. routedId' = [r \in Regs |-> IF r \in mine THEN back[r] ELSE routedId[r]]
  BY <1>1, <1>3
<1>6. \A r \in Regs : routedId'[r] # Unrouted => routedId'[r] \in IdsOf(events', r)
  BY <1>1, <1>3, <1>5 DEF IInv, BackOK
<1>7. BackOK' /\ routedId' = [r \in Regs |-> routedId'[r]] /\ Layer(events')
  BY <1>1, <1>5, <1>6 DEF BackOK, IInv
<1>8. \A q \in Runs : q # p /\ run[q] # Idle => Live(run[q], events')
  BY <1>1 DEF IInv
<1> QED BY <1>1, <1>7, <1>8, Ends

LEMMA CrashKeeps ==
  ASSUME IInv, NEW p \in Runs, Crash(p)
  PROVE  IInv'
<1>1. /\ run[p] # Idle /\ run' = [run EXCEPT ![p] = Idle] /\ UNCHANGED <<events, routedId>>
  BY DEF Crash
<1>2. Layer(events') /\ BackOK' /\ routedId' = [r \in Regs |-> routedId'[r]]
  BY <1>1 DEF IInv, BackOK
<1>3. \A q \in Runs : q # p /\ run[q] # Idle => Live(run[q], events')
  BY <1>1 DEF IInv
<1> QED BY <1>1, <1>2, <1>3, Ends

ClaimsStay == \A id \in CarriedIds(events) : CarriedClaim(events', id) = CarriedClaim(events, id)

LEMMA StepInv ==
  ASSUME Serial, IInv, [Next]_vars
  PROVE  IInv' /\ ClaimsStay
<1>1. events' = events => ClaimsStay
  BY DEF ClaimsStay
<1>2. Layer(events') /\ Carrying(events) \subseteq Carrying(events') => ClaimsStay
  BY MoreCarrying DEF ClaimsStay, IInv
<1>3. ASSUME NEW p \in Runs, NEW v \in Reports, RouteRegressions(p, v) PROVE IInv' /\ ClaimsStay
  BY <1>1, <1>3, RouteRegressionsKeeps DEF RouteRegressions
<1>4. ASSUME NEW p \in Runs, NEW a \in Advisories, RouteImpact(p, a) PROVE IInv' /\ ClaimsStay
  BY <1>1, <1>4, RouteImpactKeeps DEF RouteImpact
<1>5. ASSUME NEW p \in Runs, Pin(p) PROVE IInv' /\ ClaimsStay
  BY <1>1, <1>5, PinKeeps DEF Pin
<1>6. ASSUME NEW p \in Runs, Submit(p) PROVE IInv' /\ ClaimsStay
  BY <1>2, <1>6, SubmitKeeps
<1>7. ASSUME NEW p \in Runs, WriteReport(p) PROVE IInv' /\ ClaimsStay
  BY <1>1, <1>7, WriteReportKeeps DEF WriteReport
<1>8. ASSUME NEW p \in Runs, File(p) PROVE IInv' /\ ClaimsStay
  BY <1>2, <1>8, FileKeeps
<1>9. ASSUME NEW p \in Runs, Crash(p) PROVE IInv' /\ ClaimsStay
  BY <1>1, <1>9, CrashKeeps DEF Crash
<1>10. CASE UNCHANGED vars
  <2>1. events' = events /\ routedId' = routedId /\ run' = run
    BY <1>10 DEF vars
  <2> QED BY <1>1, <2>1 DEF IInv, BackOK, OneSource
<1> QED BY <1>3, <1>4, <1>5, <1>6, <1>7, <1>8, <1>9, <1>10 DEF Next

LEMMA Invariance == ASSUME Serial PROVE Spec => []IInv
<1>1. IInv /\ [Next]_vars => IInv'
  BY StepInv
<1> QED BY InitInv, <1>1, PTL DEF Spec

\* However routers of one source overlap, are killed and run again, an advisory
\* and a regression have one number (already_filed; already_routed in route).
THEOREM RoutingFilesOnce == ASSUME Serial PROVE Spec => []FiledOnce
<1>1. IInv => FiledOnce
  <2> SUFFICES ASSUME IInv, NEW c \in FiledClaims PROVE Cardinality(IdsOf(events, c)) <= 1
    BY DEF FiledOnce, FiledClaims
  <2>1. \A i, j \in IdsOf(events, c) : i = j
    BY OneId DEF IInv
  <2>2. CASE IdsOf(events, c) = {}
    BY <2>2, FS_EmptySet
  <2>3. CASE IdsOf(events, c) # {}
    <3>1. PICK i \in IdsOf(events, c) : TRUE
      BY <2>3
    <3>2. IdsOf(events, c) = {i}
      BY <2>1, <3>1
    <3>3. Cardinality({i}) = 1
      BY FS_Singleton
    <3> QED BY <3>2, <3>3
  <2> QED BY <2>2, <2>3
<1> QED BY <1>1, Invariance, PTL

\* A routed_id that stands in a report is the number of that regression's claim
\* in the layer or the baseline (reg["routed_id"] in route).
THEOREM BackReferencesResolve == ASSUME Serial PROVE Spec => []BackReferenceResolves
<1>1. IInv => BackReferenceResolves
  BY IdsResolve DEF IInv, BackOK, BackReferenceResolves
<1> QED BY <1>1, Invariance, PTL

\* No later event gives a number another claim (findings_from_events).
THEOREM FiledClaimsAreKept == ASSUME Serial PROVE Spec => FiledClaimsStay
<1>1. IInv /\ [Next]_vars =>
        [\A id \in CarriedIds(events) : CarriedClaim(events, id)' = CarriedClaim(events, id)]_events
  BY StepInv DEF ClaimsStay
<1> QED BY <1>1, Invariance, PTL DEF Spec, FiledClaimsStay

-----------------------------------------------------------------------------
(* 2. The checkpoint store.                                                *)

SessionLive == session.step \in {"resuming", "working", "shard", "save"}

\* Between its writes, a live session and progress.json agree; before its
\* first save there is no progress.json.
InStep ==
  SessionLive =>
    /\ session.by \in 1 .. MaxRuns
    /\ \/ /\ progress.status = "running"
          /\ session.by = progress.by
          /\ session.phase = progress.phase_done + 1
          /\ session.shards = progress.shards_done
       \/ /\ progress = Absent
          /\ session.phase = 0
          /\ session.shards = {}
          /\ session.step \in {"working", "save"}

\* A payload is on disk before the step that records it.
PayloadWritten ==
  /\ session.step = "shard" =>
       /\ session.busy \in Candidates
       /\ shardFile[session.busy] = session.by
  /\ session.step = "save" =>
       /\ session.phase < LastPhase
       /\ phaseFile[session.phase] = session.by
  /\ session.step = "resetting" => runs < MaxRuns

RecordIsWhole ==
  /\ progress.status = "absent" => progress = Absent
  /\ progress.status # "absent" => progress.by \in 1 .. MaxRuns
  /\ progress.status = "running" => progress.phase_done < LastPhase

\* What progress.json lists is there, written by its own run.
Listed ==
  ~FreshFlag /\ progress.status = "running" =>
    /\ session.step # "resetting"
    /\ \A n \in 0 .. progress.phase_done : phaseFile[n] = progress.by
    /\ \A c \in progress.shards_done : shardFile[c] = progress.by

StoreInv == StoreTypeOK /\ InStep /\ PayloadWritten /\ RecordIsWhole /\ Listed

-----------------------------------------------------------------------------
LEMMA StoreBounds ==
  /\ LastPhase \in Nat /\ ShardPhase \in Nat /\ MaxRuns \in Nat
  /\ 1 <= ShardPhase /\ ShardPhase < LastPhase /\ 1 <= MaxRuns
  /\ None \in 1 .. None /\ None \notin 1 .. MaxRuns
  /\ 1 .. MaxRuns \subseteq 1 .. None
BY StoreAssumption DEF None

LEMMA NoSessionTyped == NoSession \in Session
BY StoreBounds DEF NoSession, Session, Phases

LEMMA AbsentTyped == Absent \in Progress
BY StoreBounds DEF Absent, Progress, Phases

LEMMA StoreInitially == StoreInit => StoreInv
<1> SUFFICES ASSUME StoreInit PROVE StoreInv
  OBVIOUS
<1>1. StoreTypeOK
  BY StoreBounds, NoSessionTyped, AbsentTyped DEF StoreInit, StoreTypeOK
<1>2. InStep /\ PayloadWritten /\ RecordIsWhole /\ Listed
  BY DEF StoreInit, InStep, SessionLive, PayloadWritten, RecordIsWhole, Listed, NoSession, Absent
<1>3. QED
  BY <1>1, <1>2 DEF StoreInv

-----------------------------------------------------------------------------
\* A session that ends, however it ends, leaves the files as they are.
LEMMA EndPreserves ==
  ASSUME StoreInv, session' = NoSession, UNCHANGED <<phaseFile, shardFile, progress, runs>>
  PROVE  StoreInv'
<1>1. StoreTypeOK'
  BY NoSessionTyped DEF StoreInv, StoreTypeOK
<1>2. InStep' /\ PayloadWritten' /\ RecordIsWhole' /\ Listed'
  BY DEF StoreInv, InStep, SessionLive, PayloadWritten, RecordIsWhole, Listed, NoSession
<1>3. QED
  BY <1>1, <1>2 DEF StoreInv

LEMMA LoadPreserves ==
  ASSUME StoreInv, Load
  PROVE  StoreInv'
<1> USE DEF StoreInv
<1>1. CASE /\ progress.status = "running"
           /\ session' = [Working(progress.phase_done + 1, progress.shards_done, progress.by)
                            EXCEPT !.step = "resuming"]
  <2>1. progress.phase_done + 1 \in Phases
    BY <1>1, StoreBounds DEF RecordIsWhole, StoreTypeOK, Progress, Phases
  <2>2. session' \in Session
    BY <1>1, <2>1, StoreBounds DEF StoreTypeOK, Progress, Session, Working
  <2>3. StoreTypeOK'
    BY <2>2 DEF Load, StoreTypeOK
  <2>4. InStep' /\ PayloadWritten' /\ RecordIsWhole' /\ Listed'
    BY <1>1 DEF Load, InStep, SessionLive, PayloadWritten, RecordIsWhole, Listed, Working
  <2> QED BY <2>3, <2>4
<1>2. CASE /\ progress.status \in {"absent", "complete"} \/ FreshFlag
           /\ runs < MaxRuns
           /\ session' = [NoSession EXCEPT !.step = "resetting"]
  <2>1. session' \in Session
    BY <1>2, StoreBounds DEF Session, NoSession, Phases
  <2>2. StoreTypeOK'
    BY <2>1 DEF Load, StoreTypeOK
  <2>3. InStep' /\ PayloadWritten' /\ RecordIsWhole' /\ Listed'
    BY <1>2, StoreAssumption DEF Load, InStep, SessionLive, PayloadWritten, RecordIsWhole,
       Listed, NoSession
  <2> QED BY <2>2, <2>3
<1>3. QED
  BY <1>1, <1>2 DEF Load

LEMMA ResumePreserves ==
  ASSUME StoreInv, Resume
  PROVE  StoreInv'
<1>1. CASE session' = NoSession
  BY <1>1, EndPreserves DEF Resume
<1>2. CASE session' = [session EXCEPT !.step = "working"]
  <2>1. StoreTypeOK'
    BY <1>2 DEF Resume, StoreInv, StoreTypeOK, Session
  <2>2. InStep' /\ PayloadWritten' /\ RecordIsWhole' /\ Listed'
    BY <1>2 DEF Resume, StoreInv, StoreTypeOK, Session, InStep, SessionLive, PayloadWritten,
       RecordIsWhole, Listed
  <2> QED BY <2>1, <2>2 DEF StoreInv
<1>3. QED
  BY <1>1, <1>2 DEF Resume

LEMMA RemoveFilePreserves ==
  ASSUME StoreInv, RemoveFile
  PROVE  StoreInv'
<1> USE DEF StoreInv, RemoveFile
<1>1. StoreTypeOK'
  BY StoreBounds, AbsentTyped DEF StoreTypeOK
<1>2. InStep' /\ PayloadWritten' /\ RecordIsWhole'
  BY DEF InStep, SessionLive, PayloadWritten, RecordIsWhole, Absent
<1>3. Listed'
  BY DEF Listed, Absent
<1>4. QED
  BY <1>1, <1>2, <1>3

LEMMA StartRunPreserves ==
  ASSUME StoreInv, StartRun
  PROVE  StoreInv'
<1> USE DEF StoreInv, StartRun
<1>1. runs + 1 \in 1 .. MaxRuns
  BY StoreBounds DEF StoreTypeOK, PayloadWritten
<1>2. session' \in Session
  BY <1>1, StoreBounds DEF Session, Working, Phases
<1>3. StoreTypeOK'
  BY <1>1, <1>2 DEF StoreTypeOK
<1>4. InStep' /\ PayloadWritten' /\ RecordIsWhole' /\ Listed'
  BY <1>1 DEF InStep, SessionLive, PayloadWritten, RecordIsWhole, Listed, Working, DirEmpty,
     Absent
<1>5. QED
  BY <1>3, <1>4

-----------------------------------------------------------------------------
LEMMA ShardPayloadPreserves ==
  ASSUME StoreInv, ShardPayload
  PROVE  StoreInv'
<1> USE DEF StoreInv
<1> PICK c \in Candidates \ session.shards :
           /\ shardFile' = [shardFile EXCEPT ![c] = session.by]
           /\ session' = [session EXCEPT !.step = "shard", !.busy = c]
  BY DEF ShardPayload
<1>1. progress.status = "running" /\ session.by = progress.by
      /\ session.shards = progress.shards_done /\ session.by \in 1 .. MaxRuns
      /\ session.phase = progress.phase_done + 1
  BY StoreBounds DEF ShardPayload, InStep, SessionLive
<1>2. StoreTypeOK'
  BY <1>1, StoreBounds DEF ShardPayload, StoreTypeOK, Session
<1>3. InStep' /\ PayloadWritten' /\ RecordIsWhole'
  BY <1>1 DEF ShardPayload, StoreTypeOK, Session, InStep, SessionLive, PayloadWritten,
     RecordIsWhole
<1>4. Listed'
  BY <1>1 DEF ShardPayload, StoreTypeOK, Session, Listed
<1>5. QED
  BY <1>2, <1>3, <1>4

LEMMA ShardProgressPreserves ==
  ASSUME StoreInv, ShardProgress
  PROVE  StoreInv'
<1> USE DEF StoreInv, ShardProgress
<1>1. /\ progress.status = "running" /\ session.by = progress.by
      /\ session.shards = progress.shards_done /\ session.by \in 1 .. MaxRuns
      /\ session.phase = progress.phase_done + 1
      /\ session.busy \in Candidates /\ shardFile[session.busy] = session.by
  BY DEF InStep, SessionLive, PayloadWritten
<1>2. StoreTypeOK'
  BY <1>1, StoreBounds DEF StoreTypeOK, Session, Progress, ShardList
<1>3. /\ progress'.status = "running" /\ progress'.by = progress.by
      /\ progress'.phase_done = progress.phase_done
      /\ progress'.shards_done = progress.shards_done \cup {session.busy}
  BY <1>1 DEF StoreTypeOK, Progress, ShardList
<1>4. /\ session'.step = "working" /\ session'.by = session.by
      /\ session'.phase = session.phase
      /\ session'.shards = session.shards \cup {session.busy}
  BY DEF StoreTypeOK, Session
<1>5. InStep' /\ PayloadWritten'
  BY <1>1, <1>3, <1>4 DEF InStep, SessionLive, PayloadWritten
<1>6. RecordIsWhole' /\ Listed'
  BY <1>1, <1>3, <1>4 DEF RecordIsWhole, Listed
<1>7. QED
  BY <1>2, <1>5, <1>6

LEMMA PhasePayloadPreserves ==
  ASSUME StoreInv, PhasePayload
  PROVE  StoreInv'
<1> USE DEF StoreInv, PhasePayload
<1>1. session.phase \in Saves /\ session.phase \in Nat /\ session.by \in 1 .. None
  BY StoreBounds DEF StoreTypeOK, Session, Phases, Saves
<1>2. /\ session'.step = "save" /\ session'.by = session.by
      /\ session'.phase = session.phase /\ session'.shards = session.shards
  BY DEF StoreTypeOK, Session
<1>3. StoreTypeOK'
  BY <1>1 DEF StoreTypeOK, Session
<1>4. phaseFile'[session.phase] = session.by
      /\ \A n \in Saves : n # session.phase => phaseFile'[n] = phaseFile[n]
  BY <1>1 DEF StoreTypeOK
<1>5. InStep' /\ PayloadWritten' /\ RecordIsWhole'
  BY <1>1, <1>2, <1>4 DEF InStep, SessionLive, PayloadWritten, RecordIsWhole, Absent
<1>6. Listed'
  <2> SUFFICES ASSUME ~FreshFlag, progress.status = "running"
               PROVE  /\ \A n \in 0 .. progress.phase_done : phaseFile'[n] = progress.by
                      /\ \A c \in progress.shards_done : shardFile'[c] = progress.by
    BY <1>2 DEF Listed
  <2>1. session.phase = progress.phase_done + 1 /\ progress.phase_done \in Nat
    BY DEF InStep, SessionLive, Absent, StoreTypeOK, Progress, Phases
  <2>2. 0 .. progress.phase_done \subseteq Saves
        /\ session.phase \notin 0 .. progress.phase_done
    BY <1>1, <2>1, StoreBounds DEF Saves
  <2> QED BY <1>4, <2>2 DEF Listed
<1>7. QED
  BY <1>3, <1>5, <1>6

\* cmd_save and cmd_done both write progress.json anew.
LEMMA PhaseProgressPreserves ==
  ASSUME StoreInv, PhaseProgress
  PROVE  StoreInv'
<1> USE DEF StoreInv, PhaseProgress
<1>1. /\ session.by \in 1 .. MaxRuns /\ session.phase \in Saves /\ session.phase \in Nat
      /\ phaseFile[session.phase] = session.by
      /\ session.phase < LastPhase
  BY StoreBounds DEF InStep, SessionLive, PayloadWritten, StoreTypeOK, Session, Phases, Saves
<1>2. progress' = Saved(session.phase, session.by)
      /\ session' = Working(session.phase + 1, {}, session.by)
  OBVIOUS
<1>3. StoreTypeOK'
  <2>1. progress' \in Progress
    BY <1>1, <1>2, StoreBounds DEF Saved, Progress, Phases
  <2>2. session' \in Session
    BY <1>1, <1>2, StoreBounds DEF Working, Session, Phases
  <2> QED BY <2>1, <2>2 DEF StoreTypeOK
<1>4. InStep' /\ PayloadWritten' /\ RecordIsWhole'
  BY <1>1, <1>2 DEF InStep, SessionLive, PayloadWritten, RecordIsWhole, Saved, Working
<1>5. Listed'
  <2> SUFFICES ASSUME ~FreshFlag, NEW n \in 0 .. session.phase
               PROVE  phaseFile[n] = session.by
    BY <1>2 DEF Listed, Saved, Working
  <2>1. CASE n = session.phase
    BY <1>1, <2>1
  <2>2. CASE n # session.phase
    <3>1. n < session.phase /\ n \in Nat
      BY <1>1, <2>2
    <3>2. /\ progress.status = "running" /\ session.by = progress.by
          /\ session.phase = progress.phase_done + 1
      BY <1>1, <3>1 DEF InStep, SessionLive
    <3>3. n \in 0 .. progress.phase_done
      BY <1>1, <3>1, <3>2 DEF StoreTypeOK, Progress, Phases
    <3> QED BY <3>2, <3>3 DEF Listed
  <2> QED BY <2>1, <2>2
<1>6. QED
  BY <1>3, <1>4, <1>5

LEMMA DonePreserves ==
  ASSUME StoreInv, Done
  PROVE  StoreInv'
<1> USE DEF StoreInv, Done
<1>1. session.by \in 1 .. MaxRuns
  BY DEF InStep, SessionLive
<1>2. StoreTypeOK'
  <2>1. progress' \in Progress
    BY <1>1, StoreBounds DEF Saved, Progress, Phases
  <2> QED BY <2>1, NoSessionTyped DEF StoreTypeOK
<1>3. InStep' /\ PayloadWritten' /\ RecordIsWhole' /\ Listed'
  BY <1>1 DEF InStep, SessionLive, PayloadWritten, RecordIsWhole, Listed, Saved, NoSession
<1>4. QED
  BY <1>2, <1>3

LEMMA StoreStep == StoreInv /\ [StoreNext]_storeVars => StoreInv'
<1> SUFFICES ASSUME StoreInv, [StoreNext]_storeVars PROVE StoreInv'
  OBVIOUS
<1>1. CASE Kill
  BY <1>1, EndPreserves DEF Kill
<1>2. CASE UNCHANGED storeVars
  BY <1>2 DEF storeVars, StoreInv, StoreTypeOK, InStep, SessionLive, PayloadWritten,
     RecordIsWhole, Listed
<1>3. QED
  BY <1>1, <1>2, LoadPreserves, ResumePreserves, RemoveFilePreserves, StartRunPreserves,
     ShardPayloadPreserves, ShardProgressPreserves, PhasePayloadPreserves,
     PhaseProgressPreserves, DonePreserves DEF StoreNext

-----------------------------------------------------------------------------
LEMMA ListedIsComplete ==
  ASSUME StoreInv, ~FreshFlag
  PROVE  ResumeIsComplete
<1> SUFFICES ASSUME progress.status = "running"
             PROVE  FilesOf(progress.phase_done, progress.shards_done) = {progress.by}
  BY DEF ResumeIsComplete
<1>1. 0 \in 0 .. progress.phase_done
  BY DEF StoreInv, StoreTypeOK, Progress, Phases
<1>2. \A n \in 0 .. progress.phase_done : phaseFile[n] = progress.by
  BY DEF StoreInv, Listed
<1>3. \A c \in progress.shards_done : shardFile[c] = progress.by
  BY DEF StoreInv, Listed
<1>4. QED
  BY <1>1, <1>2, <1>3 DEF FilesOf

LEMMA StepMovesForward ==
  ASSUME StoreInv, [StoreNext]_storeVars, progress' # progress, progress'.by = progress.by
  PROVE  \/ progress'.phase_done > progress.phase_done
         \/ /\ progress'.phase_done = progress.phase_done
            /\ progress.shards_done \subseteq progress'.shards_done
<1> USE DEF StoreInv
<1>1. CASE ShardProgress
  BY <1>1 DEF ShardProgress, ShardList, StoreTypeOK, Progress
<1>2. CASE PhaseProgress
  <2>1. session.by \in 1 .. MaxRuns /\ progress'.by = session.by
        /\ progress'.phase_done = session.phase
    BY <1>2 DEF PhaseProgress, InStep, SessionLive, Saved
  <2>2. progress # Absent
    <3>1. progress.by \in 1 .. MaxRuns
      BY <2>1
    <3>2. Absent.by = None
      BY DEF Absent
    <3> QED BY <3>1, <3>2, StoreBounds
  <2>3. session.phase = progress.phase_done + 1
    BY <1>2, <2>2 DEF PhaseProgress, InStep, SessionLive
  <2> QED BY <2>1, <2>3 DEF StoreTypeOK, Progress, Phases
<1>3. CASE Done
  <2>1. session.phase = progress.phase_done + 1 /\ progress'.phase_done = LastPhase
    BY <1>3, StoreBounds DEF Done, InStep, SessionLive, Saved
  <2> QED BY <1>3, <2>1 DEF Done, StoreTypeOK, Progress, Phases
<1>4. CASE RemoveFile
  <2>1. progress # Absent /\ progress' = Absent
    BY <1>4 DEF RemoveFile
  <2>2. progress.by \in 1 .. MaxRuns
    BY <2>1 DEF RecordIsWhole
  <2> QED BY <2>1, <2>2, StoreBounds DEF Absent
<1>5. QED
  BY <1>1, <1>2, <1>3, <1>4 DEF StoreNext, storeVars, Load, Resume, StartRun, ShardPayload,
     PhasePayload, Kill

-----------------------------------------------------------------------------
\* The store and the session stay well typed, --fresh or not.
THEOREM StoreTypeCorrect == StoreSpec => []StoreTypeOK
<1>1. StoreSpec => []StoreInv
  BY StoreInitially, StoreStep, PTL DEF StoreSpec
<1>2. StoreInv => StoreTypeOK
  BY DEF StoreInv
<1>3. QED
  BY <1>1, <1>2, PTL

\* As long as no running directory is reset by --fresh, a session killed before
\* any file operation leaves a directory that the next one can resume from.
THEOREM Resumable == ASSUME ~FreshFlag PROVE StoreSpec => []ResumeIsComplete
<1>1. StoreSpec => []StoreInv
  BY StoreInitially, StoreStep, PTL DEF StoreSpec
<1>2. StoreInv => ResumeIsComplete
  BY ListedIsComplete
<1>3. QED
  BY <1>1, <1>2, PTL

\* No recorded phase and no recorded candidate is ever paid for a second time.
THEOREM NothingIsPaidTwice == StoreSpec => PositionMovesForward
<1>1. StoreSpec => []StoreInv
  BY StoreInitially, StoreStep, PTL DEF StoreSpec
<1>2. StoreInv /\ [StoreNext]_storeVars =>
        [progress.by = progress'.by =>
           \/ progress'.phase_done > progress.phase_done
           \/ /\ progress'.phase_done = progress.phase_done
              /\ progress.shards_done \subseteq progress'.shards_done]_progress
  BY StepMovesForward
<1>3. QED
  BY <1>1, <1>2, PTL DEF StoreSpec, PositionMovesForward
=============================================================================
