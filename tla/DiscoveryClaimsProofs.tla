------------------------- MODULE DiscoveryClaimsProofs -------------------------
(***************************************************************************)
(* Proofs about discovery for any plan, prices, cap and number of ticks:   *)
(* what is spent stays within the cap, no request goes out twice, facts    *)
(* match the confirmed scope, a declined hold is final and no claim is     *)
(* forgotten.                                                              *)
(***************************************************************************)
EXTENDS DiscoveryClaims, FiniteSetTheorems, TLAPS

-----------------------------------------------------------------------------
(* Sums *)

\* A set of natural numbers that has 0 and every successor has them all.
LEMMA Induction ==
    ASSUME NEW W, 0 \in W, \A n \in Nat : n \in W => n + 1 \in W
    PROVE  Nat \subseteq W
<1> DEFINE V == Nat \ W
<1> SUFFICES ASSUME V # {} PROVE FALSE
  OBVIOUS
<1>1. PICK n \in V : \A m \in V : ~(<<m, n>> \in OpToRel(<, Nat))
  <2> HIDE DEF V
  <2>1. V \subseteq Nat
    BY DEF V
  <2> QED BY <2>1, WFMin, NatLessThanWellFounded
<1>2. n # 0 /\ n - 1 \in Nat /\ n - 1 < n
  OBVIOUS
<1>3. n - 1 \in W
  BY <1>1, <1>2 DEF OpToRel
<1> QED BY <1>2, <1>3

\* A finite set that has a part with some property has a smallest such part.
LEMMA SmallestPart ==
    ASSUME NEW S, IsFiniteSet(S), NEW W \in SUBSET SUBSET S, W # {}
    PROVE  \E T \in W : \A U \in W : U \subseteq T => U = T
<1>1. PICK T \in W : \A U \in W : ~(<<U, T>> \in StrictSubsetOrdering(S))
  <2>1. W \subseteq FiniteSubsetsOf(S)
    BY FS_FiniteSubsetsOfFinite
  <2> QED BY <2>1, WFMin, FS_StrictSubsetOrderingWellFounded
<1> QED BY <1>1 DEF StrictSubsetOrdering

Picked(s) == CHOOSE x \in s : TRUE

\* g is the recursive function in the definition of a sum.
Body(g, f, s) == IF s = {} THEN 0 ELSE f[Picked(s)] + g[s \ {Picked(s)}]
Summing(g, f, S) == g = [s \in SUBSET S |-> Body(g, f, s)]

\* There is such a function on a finite set.
LEMMA SummingExists ==
    ASSUME NEW S, IsFiniteSet(S), NEW f, \A x \in S : f[x] \in Nat
    PROVE  \E g \in [SUBSET S -> Nat] : Summing(g, f, S)
<1> DEFINE Upto(g, n) == \A s \in SUBSET S : Cardinality(s) <= n => g[s] = Body(g, f, s)
           W == {n \in Nat : \E g \in [SUBSET S -> Nat] : Upto(g, n)}
<1>1. \A s \in SUBSET S : IsFiniteSet(s) /\ Cardinality(s) \in Nat
  BY FS_Subset, FS_CardinalityType
<1>2. \A s \in SUBSET S : s # {} => /\ Picked(s) \in s
                                    /\ s \ {Picked(s)} \in SUBSET S
                                    /\ Cardinality(s \ {Picked(s)}) = Cardinality(s) - 1
                                    /\ f[Picked(s)] \in Nat
  BY <1>1, FS_RemoveElement DEF Picked
<1>3. 0 \in W
  <2>1. Upto([s \in SUBSET S |-> 0], 0)
    BY <1>1, FS_EmptySet DEF Body
  <2> QED BY <2>1
<1>4. ASSUME NEW n \in Nat, n \in W PROVE n + 1 \in W
  <2>1. PICK g \in [SUBSET S -> Nat] : Upto(g, n)
    BY <1>4
  <2> DEFINE h == [s \in SUBSET S |-> IF Cardinality(s) <= n THEN g[s] ELSE Body(g, f, s)]
  <2>2. h \in [SUBSET S -> Nat]
    BY <1>2 DEF Body
  <2>3. ASSUME NEW s \in SUBSET S, Cardinality(s) <= n + 1
        PROVE  h[s] = Body(h, f, s)
    <3>1. h[s] = Body(g, f, s)
      BY <2>1
    <3>2. s # {} => h[s \ {Picked(s)}] = g[s \ {Picked(s)}]
      BY <1>1, <1>2, <2>3
    <3> QED BY <3>1, <3>2 DEF Body
  <2>4. Upto(h, n + 1)
    BY <2>3
  <2> HIDE DEF h
  <2> QED BY <2>2, <2>4
<1>5. Cardinality(S) \in W
  <2> HIDE DEF W
  <2> QED BY <1>1, <1>3, <1>4, Induction
<1>6. PICK g \in [SUBSET S -> Nat] : Upto(g, Cardinality(S))
  BY <1>5
<1>7. \A s \in SUBSET S : g[s] = Body(g, f, s)
  BY <1>1, <1>6, FS_Subset
<1> QED BY <1>7 DEF Summing

\* It gives the sums over all parts of the set.
Sums(g, f, S) ==
    /\ g \in [SUBSET S -> Nat]
    /\ \A T \in SUBSET S : SumFunctionOnSet(f, T) = g[T] /\ g[T] = Body(g, f, T)

\* What CHOOSE picks is such a function, and all of them agree.
LEMMA SummingIsSum ==
    ASSUME NEW S, IsFiniteSet(S), NEW f, \A x \in S : f[x] \in Nat
    PROVE  \E g : Sums(g, f, S)
<1>1. PICK g \in [SUBSET S -> Nat] : Summing(g, f, S)
  BY SummingExists
<1>2. ASSUME NEW T \in SUBSET S PROVE SumFunctionOnSet(f, T) = g[T]
  <2>1. IsFiniteSet(T)
    BY FS_Subset
  <2> DEFINE G == CHOOSE h : Summing(h, f, T)
  <2>2. Summing(G, f, T)
    BY <2>1, SummingExists
  <2>3. SumFunctionOnSet(f, T) = G[T]
    BY DEF SumFunctionOnSet, FoldFunctionOnSet, MapThenFoldSet, Summing, Body, Picked
  <2> HIDE DEF G
  <2> DEFINE W == {s \in SUBSET T : G[s] # g[s]}
  <2>4. SUFFICES ASSUME W # {} PROVE FALSE
    BY <2>3
  <2>5. PICK s \in W : \A u \in W : u \subseteq s => u = s
    <3> HIDE DEF W
    <3>1. W \in SUBSET SUBSET T
      BY DEF W
    <3> QED BY <2>1, <2>4, <3>1, SmallestPart
  <2>6. s \in SUBSET T /\ s \in SUBSET S /\ G[s] = Body(G, f, s) /\ g[s] = Body(g, f, s)
    BY <1>1, <2>2 DEF Summing
  <2>7. CASE s = {}
    BY <2>6, <2>7 DEF Body
  <2>8. CASE s # {}
    <3>1. Picked(s) \in s
      BY <2>8 DEF Picked
    <3>2. G[s \ {Picked(s)}] = g[s \ {Picked(s)}]
      BY <2>5, <2>6, <3>1
    <3> QED BY <2>6, <3>2 DEF Body
  <2> QED BY <2>7, <2>8
<1>3. \A T \in SUBSET S : g[T] = Body(g, f, T)
  BY <1>1 DEF Summing
<1> QED BY <1>2, <1>3 DEF Sums

\* The sum over nothing is 0, and any element can be taken out of a sum: in
\* which order the elements are chosen makes no difference.
LEMMA SumWithout ==
    ASSUME NEW S, IsFiniteSet(S), NEW f, \A x \in S : f[x] \in Nat
    PROVE  /\ SumFunctionOnSet(f, S) \in Nat
           /\ S = {} => SumFunctionOnSet(f, S) = 0
           /\ \A y \in S : SumFunctionOnSet(f, S) = f[y] + SumFunctionOnSet(f, S \ {y})
<1>0. PICK g : Sums(g, f, S)
  BY SummingIsSum
<1>1. /\ g \in [SUBSET S -> Nat]
      /\ \A T \in SUBSET S : SumFunctionOnSet(f, T) = g[T] /\ g[T] = Body(g, f, T)
  BY <1>0 DEF Sums
<1> DEFINE W == {T \in SUBSET S : \E y \in T : g[T] # f[y] + g[T \ {y}]}
<1>2. W = {}
  <2> SUFFICES ASSUME W # {} PROVE FALSE
    OBVIOUS
  <2>1. PICK T \in W : \A U \in W : U \subseteq T => U = T
    <3> HIDE DEF W
    <3>1. W \in SUBSET SUBSET S
      BY DEF W
    <3> QED BY <3>1, SmallestPart
  <2>2. PICK y \in T : g[T] # f[y] + g[T \ {y}]
    OBVIOUS
  <2>3. PICK z : z = Picked(T)
    OBVIOUS
  <2>4. z \in T /\ g[T] = f[z] + g[T \ {z}] /\ z # y
    BY <1>1, <2>2, <2>3 DEF Body, Picked
  <2>5. T \ {z} \notin W /\ T \ {y} \notin W
    BY <2>1, <2>2, <2>4
  <2>6. g[T \ {z}] = f[y] + g[(T \ {z}) \ {y}]
    BY <2>4, <2>5
  <2>7. g[T \ {y}] = f[z] + g[(T \ {y}) \ {z}]
    BY <2>4, <2>5
  <2>8. (T \ {z}) \ {y} = (T \ {y}) \ {z}
    OBVIOUS
  <2>9. PICK r \in Nat : r = g[(T \ {z}) \ {y}]
    BY <1>1
  <2>10. f[y] \in Nat /\ f[z] \in Nat
    BY <2>4
  <2>11. g[T] = f[z] + (f[y] + r) /\ f[y] + g[T \ {y}] = f[y] + (f[z] + r)
    BY <2>4, <2>6, <2>7, <2>8, <2>9
  <2> HIDE DEF W
  <2> QED BY <2>2, <2>9, <2>10, <2>11
<1>3. \A y \in S : g[S] = f[y] + g[S \ {y}]
  BY <1>2
<1>4. S = {} => g[S] = 0
  BY <1>1 DEF Body
<1> QED BY <1>1, <1>3, <1>4

\* A sum is no greater than another that is greater term by term.
LEMMA SumBelow ==
    ASSUME NEW S, IsFiniteSet(S), NEW f, NEW h,
           \A x \in S : f[x] \in Nat /\ h[x] \in Nat /\ f[x] <= h[x]
    PROVE  SumFunctionOnSet(f, S) <= SumFunctionOnSet(h, S)
<1> DEFINE W == {T \in SUBSET S : ~(SumFunctionOnSet(f, T) <= SumFunctionOnSet(h, T))}
<1> SUFFICES ASSUME W # {} PROVE FALSE
  OBVIOUS
<1>1. PICK T \in W : \A U \in W : U \subseteq T => U = T
  <2> HIDE DEF W
  <2>1. W \in SUBSET SUBSET S
    BY DEF W
  <2> QED BY <2>1, SmallestPart
<1>2. IsFiniteSet(T)
  BY FS_Subset
<1>3. /\ SumFunctionOnSet(f, T) \in Nat /\ SumFunctionOnSet(h, T) \in Nat
      /\ T = {} => SumFunctionOnSet(f, T) = 0 /\ SumFunctionOnSet(h, T) = 0
      /\ \A y \in T : /\ SumFunctionOnSet(f, T) = f[y] + SumFunctionOnSet(f, T \ {y})
                      /\ SumFunctionOnSet(h, T) = h[y] + SumFunctionOnSet(h, T \ {y})
  BY <1>2, SumWithout
<1>4. PICK y \in T : TRUE
  BY <1>1, <1>3
<1>5. T \ {y} \notin W
  BY <1>1
<1>6. SumFunctionOnSet(f, T \ {y}) \in Nat /\ SumFunctionOnSet(h, T \ {y}) \in Nat
  <2>1. IsFiniteSet(T \ {y})
    BY <1>2, FS_Subset
  <2> QED BY <2>1, SumWithout
<1>7. f[y] \in Nat /\ h[y] \in Nat /\ f[y] <= h[y]
  OBVIOUS
<1>8. SumFunctionOnSet(f, T \ {y}) <= SumFunctionOnSet(h, T \ {y})
  BY <1>5
<1> QED BY <1>1, <1>3, <1>6, <1>7, <1>8

\* Functions that agree on a set have the same sum over it.
LEMMA SumAgrees ==
    ASSUME NEW S, IsFiniteSet(S), NEW f, NEW h,
           \A x \in S : f[x] \in Nat /\ f[x] = h[x]
    PROVE  SumFunctionOnSet(f, S) = SumFunctionOnSet(h, S)
<1>1. SumFunctionOnSet(f, S) <= SumFunctionOnSet(h, S)
  BY SumBelow
<1>2. SumFunctionOnSet(h, S) <= SumFunctionOnSet(f, S)
  BY SumBelow
<1>3. SumFunctionOnSet(f, S) \in Nat /\ SumFunctionOnSet(h, S) \in Nat
  BY SumWithout
<1> QED BY <1>1, <1>2, <1>3

\* An element more is a term more.
LEMMA SumWith ==
    ASSUME NEW S, IsFiniteSet(S), NEW f, NEW h, NEW x, x \notin S,
           \A y \in S : f[y] \in Nat /\ h[y] = f[y],
           h[x] \in Nat
    PROVE  /\ IsFiniteSet(S \cup {x})
           /\ SumFunctionOnSet(h, S \cup {x}) = SumFunctionOnSet(f, S) + h[x]
<1>1. IsFiniteSet(S \cup {x}) /\ (S \cup {x}) \ {x} = S
  BY FS_AddElement
<1>2. \A y \in S \cup {x} : h[y] \in Nat
  OBVIOUS
<1>3. SumFunctionOnSet(h, S \cup {x}) = h[x] + SumFunctionOnSet(h, (S \cup {x}) \ {x})
  BY <1>1, <1>2, SumWithout
<1>4. SumFunctionOnSet(h, S) = SumFunctionOnSet(f, S) /\ SumFunctionOnSet(f, S) \in Nat
  BY SumAgrees, SumWithout
<1>5. SumFunctionOnSet(h, S \cup {x}) = h[x] + SumFunctionOnSet(f, S)
  BY <1>1, <1>3, <1>4
<1> QED BY <1>1, <1>4, <1>5

\* A term that grows makes the sum grow by as much.
LEMMA SumChanges ==
    ASSUME NEW S, IsFiniteSet(S), NEW f, NEW h, NEW x \in S,
           \A y \in S : f[y] \in Nat /\ h[y] \in Nat,
           \A y \in S \ {x} : h[y] = f[y]
    PROVE  SumFunctionOnSet(h, S) + f[x] = SumFunctionOnSet(f, S) + h[x]
<1>1. IsFiniteSet(S \ {x})
  BY FS_Subset
<1>2. /\ SumFunctionOnSet(h, S) = h[x] + SumFunctionOnSet(h, S \ {x})
      /\ SumFunctionOnSet(f, S) = f[x] + SumFunctionOnSet(f, S \ {x})
  BY SumWithout
<1>3. SumFunctionOnSet(h, S \ {x}) = SumFunctionOnSet(f, S \ {x})
  BY <1>1, SumAgrees
<1>4. SumFunctionOnSet(f, S \ {x}) \in Nat
  BY <1>1, SumWithout
<1> QED BY <1>2, <1>3, <1>4

-----------------------------------------------------------------------------
(* Batches *)

\* The constants, one by one.
LEMMA Constants ==
    /\ SearchPrice \in Nat /\ ModelPrice \in Nat /\ Cap \in Nat
    /\ MaxTicks \in Nat /\ MaxActive \in Nat /\ MaxFaults \in Nat
    /\ MaxBucket \in Nat \ {0} /\ BatchSize \in Nat \ {0}
    /\ \A s \in Sources : QueryCount[s] \in Nat \ {0}
BY PlanAssumption, BoundsAssumption

\* A batch is a triple of its source, its period and its index.
LEMMA BatchParts ==
    ASSUME NEW b
    PROVE  b \in Batches <=> /\ b = <<b[1], b[2], b[3]>>
                             /\ b[1] \in Sources /\ b[2] \in 1..MaxBucket
                             /\ b[3] \in 0..(BatchCount(b[1]) - 1)
BY DEF Batches

\* The last of n batches is not empty.
LEMMA CeilDivBound ==
    ASSUME NEW a \in Nat \ {0}, NEW d \in Nat \ {0}
    PROVE  /\ CeilDiv(a, d) \in Nat \ {0}
           /\ \A i \in 0..(CeilDiv(a, d) - 1) : i * d < a /\ i * d \in Nat
<1>1. PICK n : n = CeilDiv(a, d)
  OBVIOUS
<1>2. n \in Nat \ {0} /\ n * d <= a + d - 1
  BY <1>1 DEF CeilDiv
<1>3. ASSUME NEW i \in 0..(n - 1) PROVE i * d < a /\ i * d \in Nat
  <2>1. i * d \in Nat /\ (i + 1) * d = i * d + d
    OBVIOUS
  <2>2. (i + 1) * d <= n * d
    BY <1>2
  <2> QED BY <1>2, <2>1, <2>2
<1> QED BY <1>1, <1>2, <1>3

\* Every batch has queries, none has more than the first of its cycle.
LEMMA BatchQueries ==
    ASSUME NEW b \in Batches
    PROVE  /\ QueriesIn(b) \in Nat \ {0} /\ Envelope(b) \in Nat
           /\ \A f \in Batches : f[1] = b[1] /\ f[3] = 0 => Envelope(b) <= Envelope(f)
           /\ BatchCount(b[1]) \in Nat \ {0}
<1>1. b[1] \in Sources /\ b[3] \in 0..(BatchCount(b[1]) - 1)
  BY BatchParts
<1>2. QueryCount[b[1]] \in Nat \ {0} /\ BatchSize \in Nat \ {0}
  BY <1>1, Constants
<1>3. BatchCount(b[1]) \in Nat \ {0} /\ b[3] * BatchSize < QueryCount[b[1]] /\ b[3] * BatchSize \in Nat
  BY <1>1, <1>2, CeilDivBound DEF BatchCount
<1>4. QueriesIn(b) \in Nat \ {0}
  BY <1>2, <1>3 DEF QueriesIn
<1>5. ASSUME NEW f \in Batches, f[1] = b[1], f[3] = 0 PROVE QueriesIn(b) <= QueriesIn(f) /\ QueriesIn(f) \in Nat
  <2>1. f[3] * BatchSize = 0
    BY <1>2, <1>5
  <2> QED BY <1>2, <1>3, <1>5, <2>1 DEF QueriesIn
<1>6. \A q, p \in Nat : q <= p => q * SearchPrice + ModelPrice <= p * SearchPrice + ModelPrice
                                 /\ q * SearchPrice + ModelPrice \in Nat
  BY Constants
<1> QED BY <1>3, <1>4, <1>5, <1>6 DEF Envelope

\* There are finitely many sources, and batches.
LEMMA BatchesFinite == IsFiniteSet(Batches)
<1>1. IsFiniteSet(Sources)
  <2>1. SourceOrder \in Seq(Sources) /\ DOMAIN SourceOrder = 1..Len(SourceOrder) /\ Len(SourceOrder) \in Nat
    BY PlanAssumption
  <2>2. SourceOrder \in Surjection(1..Len(SourceOrder), Sources)
    BY <2>1 DEF Surjection, Sources, Range
  <2>3. IsFiniteSet(1..Len(SourceOrder))
    BY <2>1, FS_Interval
  <2> QED BY <2>2, <2>3, FS_Surjection
<1> DEFINE Of(s) == {<<s, c, i>> : c \in 1..MaxBucket, i \in 0..(BatchCount(s) - 1)}
<1>2. ASSUME NEW s \in Sources PROVE IsFiniteSet(Of(s))
  <2>1. BatchCount(s) \in Nat
    BY Constants, CeilDivBound DEF BatchCount
  <2>2. IsFiniteSet(1..MaxBucket) /\ IsFiniteSet(0..(BatchCount(s) - 1))
    BY <2>1, Constants, FS_Interval
  <2> DEFINE P == (1..MaxBucket) \X (0..(BatchCount(s) - 1))
             f == [p \in P |-> <<s, p[1], p[2]>>]
  <2>3. IsFiniteSet(P)
    BY <2>2, FS_Product
  <2>4. f \in Surjection(P, Of(s))
    <3>1. \A p \in P : f[p] \in Of(s)
      OBVIOUS
    <3>0. f \in [P -> Of(s)]
      <4> HIDE DEF Of, P
      <4> QED BY <3>1
    <3>2. ASSUME NEW b \in Of(s) PROVE \E p \in P : f[p] = b
      <4>1. PICK c \in 1..MaxBucket, i \in 0..(BatchCount(s) - 1) : b = <<s, c, i>>
        OBVIOUS
      <4>2. <<c, i>> \in P /\ f[<<c, i>>] = b
        BY <4>1
      <4> QED BY <4>2
    <3> HIDE DEF P, f, Of
    <3> QED BY <3>0, <3>2 DEF Surjection
  <2> HIDE DEF P, f, Of
  <2> QED BY <2>3, <2>4, FS_Surjection
<1> DEFINE F == [s \in Sources |-> Of(s)]
           T == {Of(s) : s \in Sources}
<1>3. F \in Surjection(Sources, T)
  <2>1. \A s \in Sources : F[s] \in T
    BY DEF F, T
  <2>2. ASSUME NEW U \in T PROVE \E s \in Sources : F[s] = U
    OBVIOUS
  <2>3. F \in [Sources -> T]
    <3> HIDE DEF T, Of
    <3> QED BY <2>1
  <2> HIDE DEF F, T
  <2> QED BY <2>2, <2>3 DEF Surjection
<1>4. IsFiniteSet(T)
  <2> HIDE DEF F, T
  <2> QED BY <1>1, <1>3, FS_Surjection
<1>5. \A U \in T : IsFiniteSet(U)
  BY <1>2
<1>6. Batches = UNION T
  BY DEF Batches
<1> HIDE DEF T
<1> QED BY <1>4, <1>5, <1>6, FS_UNION

-----------------------------------------------------------------------------
(* The invariant *)

RunType ==
    [pc : States, start : Nat, bucket : 1..MaxBucket, consent : 0..2, plan : Seq(Batches),
     attempt : 1..2, query : Nat, outcome : Outcomes, read : Nat]

ClaimType == [batch : Batches, attempt : Ticks, admitted : BOOLEAN, revision : 1..revision]
SettlementType ==
    [batch : Batches, attempt : Ticks, outcome : Outcomes \ {"none"},
     revision : 1..revision, bucket : 1..MaxBucket, scope : {"approved", "other"}]
RequestType ==
    [tick : Ticks, kind : {"claim", "facts", "checkpoint"}, batch : Batches,
     outcome : Outcomes, read : 1..revision, consent : 1..2]

WorldInv ==
    /\ revision \in Nat \ {0}
    /\ scope \in {"approved", "other"} /\ consent \in 0..2 /\ window \in {"open", "closed"}
    /\ bucket \in 1..MaxBucket
    /\ faults \in 0..MaxFaults

\* One claim of a batch at most, in the order of its cycle, each after the
\* settlements of the batches before it; a settlement is of a claim.
ChainInv ==
    /\ \A c, d \in claims : c.batch = d.batch \/ c.revision = d.revision => c = d
    /\ \A x, y \in settled : x.batch = y.batch => x = y
    /\ \A x \in settled : \E c \in ClaimsOf(x.batch) : c.admitted \/ x.outcome = "exhausted"
    /\ \A c \in claims : \A i \in 0..(c.batch[3] - 1) :
           SettlementsOf(<<c.batch[1], c.batch[2], i>>) # {}

\* What the claims of a batch hold.
HeldFor(b) == IF \E c \in ClaimsOf(b) : c.admitted THEN Envelope(b) ELSE 0

\* What a declined hold would have taken does not fit, and did not at any time
\* since.
BudgetInv ==
    /\ Held \in Nat /\ Held <= Cap
    /\ SumFunction([b \in Batches |-> HeldFor(b)]) = Held
    /\ \A c \in claims : ~c.admitted => Held + Envelope(c.batch) > Cap
    /\ \A c, d \in claims : ~c.admitted /\ d.admitted /\ c.revision < d.revision =>
           Envelope(d.batch) < Envelope(c.batch)

\* A declined hold that forbids to claim b.
Blocks(c, b) ==
    /\ ~c.admitted /\ b[3] > 0
    /\ c.batch[1] = b[1] /\ c.batch[2] = b[2]

\* The tick began before every declined hold that forbids b.
MayClaim(t, b) == \A c \in claims : Blocks(c, b) => run[t].start < c.revision

LedgerInv ==
    /\ claims \subseteq ClaimType /\ settled \subseteq SettlementType
    /\ ChainInv /\ BudgetInv
    /\ FactsMatchScope /\ DeclinedIsFinal
    /\ \A c \in claims : run[c.attempt].pc \notin {"idle", "load"} /\ run[c.attempt].start < c.revision

Searching == {"query", "send", "model", "sendmodel", "facts", "writing"}
Settling == {"settle", "settling"}

\* A claim that nobody settled is left, or its tick is past the claim.
Minded(c) ==
    \/ SettlementsOf(c.batch) # {}
    \/ c.batch \in paid.left
    \/ run[c.attempt].pc \in Searching \cup Settling /\ Batch(c.attempt) = c.batch

PaidInv ==
    /\ paid \in [searches : [Batches -> Nat], models : [Batches -> Nat],
                 left : SUBSET Batches, late : [Ticks -> 0..1]]
    /\ EachRequestOnce
    /\ \A c \in claims : Minded(c)

\* Where a tick is with its batch.
BatchInv(t) ==
    /\ run[t].pc \in {"idle", "load", "claim", "claiming"} => run[t].query = 0
    /\ run[t].pc \in Searching =>
           \E c \in ClaimsOf(Batch(t)) : c.attempt = t /\ c.admitted
    /\ run[t].pc \in {"query", "send"} =>
           run[t].query < QueriesIn(Batch(t)) /\ paid.searches[Batch(t)] <= run[t].query
    /\ run[t].pc \in {"query", "send", "model", "sendmodel"} => paid.models[Batch(t)] = 0
    /\ run[t].pc \in {"facts", "writing"} => run[t].outcome = "searched"
    /\ run[t].pc \in Settling => run[t].outcome \in {"failed", "exhausted"}

\* What the tick may still send was authorised by a consent that stood.
AuthorityInv(t) ==
    /\ run[t].pc = "idle" => paid.late[t] = 0
    /\ Active(t) => run[t].consent \in 1..2 /\ (run[t].consent = 2 => consent = 2)
    /\ run[t].pc \in {"send", "sendmodel"} => paid.late[t] = 0
    /\ Active(t) /\ paid.late[t] = 1 => ~Authorized(t)

PlanInv(t) ==
    /\ run[t].start <= revision
    /\ run[t].pc \in {"idle", "load", "done"} <=> run[t].plan = <<>>
    /\ \A i, j \in DOMAIN run[t].plan : run[t].plan[i] = run[t].plan[j] => i = j
    /\ \A i \in DOMAIN run[t].plan : MayClaim(t, run[t].plan[i])

RunInv == run \in [Ticks -> RunType] /\ \A t \in Ticks : PlanInv(t) /\ BatchInv(t) /\ AuthorityInv(t)

\* Where a tick is that waits for the answer to a request.
WaitsIn(kind) ==
    CASE kind = "claim" -> "claiming" [] kind = "facts" -> "writing" [] kind = "checkpoint" -> "settling"

\* A request is of a batch that its tick waits for, or has left for good.
RequestInv(r) ==
    /\ run[r.tick].pc \notin {"idle", "load"}
    /\ \A i \in DOMAIN run[r.tick].plan : run[r.tick].plan[i] = r.batch =>
           i = 1 /\ run[r.tick].pc = WaitsIn(r.kind)
    /\ r.batch \in paid.left \/ (run[r.tick].plan # <<>> /\ Batch(r.tick) = r.batch)
    /\ r.kind = "claim" => MayClaim(r.tick, r.batch)
    /\ r.kind = "facts" => r.outcome = "searched" /\ (r.read = revision => scope = "approved")
    /\ r.kind = "checkpoint" => r.outcome \in {"failed", "exhausted"}

WireInv ==
    /\ wire \subseteq RequestType
    /\ \A r \in wire : RequestInv(r)
    /\ \A r, q \in wire : r.tick = q.tick /\ r.batch = q.batch => r = q

Inv == WorldInv /\ LedgerInv /\ PaidInv /\ RunInv /\ WireInv

-----------------------------------------------------------------------------
(* What a tick holds, from step to step *)

\* What a tick holds when it begins.
LEMMA RecordStarts ==
    ASSUME NEW i \in RunType, NEW p \in States, NEW k \in Nat, NEW u \in 1..MaxBucket, NEW v \in 0..2,
           NEW m, m = [i EXCEPT !.pc = p, !.start = k, !.bucket = u, !.consent = v]
    PROVE  /\ m \in RunType
           /\ m.pc = p /\ m.start = k /\ m.bucket = u /\ m.consent = v /\ m.plan = i.plan
           /\ m.attempt = i.attempt /\ m.query = i.query /\ m.outcome = i.outcome /\ m.read = i.read
<1>1. /\ m.pc = p /\ m.start = k /\ m.bucket = u /\ m.consent = v /\ m.plan = i.plan
      /\ m.attempt = i.attempt /\ m.query = i.query /\ m.outcome = i.outcome /\ m.read = i.read
  BY DEF RunType
<1>2. m = [pc |-> m.pc, start |-> m.start, bucket |-> m.bucket, consent |-> m.consent, plan |-> m.plan,
           attempt |-> m.attempt, query |-> m.query, outcome |-> m.outcome, read |-> m.read]
  BY DEF RunType
<1>3. i.plan \in Seq(Batches) /\ i.attempt \in 1..2 /\ i.query \in Nat /\ i.outcome \in Outcomes /\ i.read \in Nat
  BY DEF RunType
<1> QED BY <1>1, <1>2, <1>3 DEF RunType

\* ... when it has its plan.
LEMMA RecordLoads ==
    ASSUME NEW i \in RunType, NEW p \in States, NEW z \in Seq(Batches),
           NEW m, m = [i EXCEPT !.pc = p, !.plan = z]
    PROVE  /\ m \in RunType
           /\ m.pc = p /\ m.start = i.start /\ m.bucket = i.bucket /\ m.consent = i.consent /\ m.plan = z
           /\ m.attempt = i.attempt /\ m.query = i.query /\ m.outcome = i.outcome /\ m.read = i.read
<1>1. /\ m.pc = p /\ m.start = i.start /\ m.bucket = i.bucket /\ m.consent = i.consent /\ m.plan = z
      /\ m.attempt = i.attempt /\ m.query = i.query /\ m.outcome = i.outcome /\ m.read = i.read
  BY DEF RunType
<1>2. m = [pc |-> m.pc, start |-> m.start, bucket |-> m.bucket, consent |-> m.consent, plan |-> m.plan,
           attempt |-> m.attempt, query |-> m.query, outcome |-> m.outcome, read |-> m.read]
  BY DEF RunType
<1>3. i.start \in Nat /\ i.bucket \in 1..MaxBucket /\ i.consent \in 0..2 /\ i.attempt \in 1..2 /\ i.query \in Nat /\ i.outcome \in Outcomes /\ i.read \in Nat
  BY DEF RunType
<1> QED BY <1>1, <1>2, <1>3 DEF RunType

\* ... when it has read the workspace.
LEMMA RecordReads ==
    ASSUME NEW i \in RunType, NEW p \in States, NEW k \in Nat,
           NEW m, m = [i EXCEPT !.pc = p, !.read = k]
    PROVE  /\ m \in RunType
           /\ m.pc = p /\ m.start = i.start /\ m.bucket = i.bucket /\ m.consent = i.consent /\ m.plan = i.plan
           /\ m.attempt = i.attempt /\ m.query = i.query /\ m.outcome = i.outcome /\ m.read = k
<1>1. /\ m.pc = p /\ m.start = i.start /\ m.bucket = i.bucket /\ m.consent = i.consent /\ m.plan = i.plan
      /\ m.attempt = i.attempt /\ m.query = i.query /\ m.outcome = i.outcome /\ m.read = k
  BY DEF RunType
<1>2. m = [pc |-> m.pc, start |-> m.start, bucket |-> m.bucket, consent |-> m.consent, plan |-> m.plan,
           attempt |-> m.attempt, query |-> m.query, outcome |-> m.outcome, read |-> m.read]
  BY DEF RunType
<1>3. i.start \in Nat /\ i.bucket \in 1..MaxBucket /\ i.consent \in 0..2 /\ i.plan \in Seq(Batches) /\ i.attempt \in 1..2 /\ i.query \in Nat /\ i.outcome \in Outcomes
  BY DEF RunType
<1> QED BY <1>1, <1>2, <1>3 DEF RunType

\* ... when a request is answered.
LEMMA RecordTries ==
    ASSUME NEW i \in RunType, NEW p \in States, NEW k \in 1..2, NEW v \in Nat,
           NEW m, m = [i EXCEPT !.pc = p, !.attempt = k, !.read = v]
    PROVE  /\ m \in RunType
           /\ m.pc = p /\ m.start = i.start /\ m.bucket = i.bucket /\ m.consent = i.consent /\ m.plan = i.plan
           /\ m.attempt = k /\ m.query = i.query /\ m.outcome = i.outcome /\ m.read = v
<1>1. /\ m.pc = p /\ m.start = i.start /\ m.bucket = i.bucket /\ m.consent = i.consent /\ m.plan = i.plan
      /\ m.attempt = k /\ m.query = i.query /\ m.outcome = i.outcome /\ m.read = v
  BY DEF RunType
<1>2. m = [pc |-> m.pc, start |-> m.start, bucket |-> m.bucket, consent |-> m.consent, plan |-> m.plan,
           attempt |-> m.attempt, query |-> m.query, outcome |-> m.outcome, read |-> m.read]
  BY DEF RunType
<1>3. i.start \in Nat /\ i.bucket \in 1..MaxBucket /\ i.consent \in 0..2 /\ i.plan \in Seq(Batches) /\ i.query \in Nat /\ i.outcome \in Outcomes
  BY DEF RunType
<1> QED BY <1>1, <1>2, <1>3 DEF RunType

\* ... when a hold is declined.
LEMMA RecordEnds ==
    ASSUME NEW i \in RunType, NEW p \in States, NEW k \in 1..2, NEW v \in Nat, NEW w \in Outcomes,
           NEW m, m = [i EXCEPT !.pc = p, !.attempt = k, !.read = v, !.outcome = w]
    PROVE  /\ m \in RunType
           /\ m.pc = p /\ m.start = i.start /\ m.bucket = i.bucket /\ m.consent = i.consent /\ m.plan = i.plan
           /\ m.attempt = k /\ m.query = i.query /\ m.outcome = w /\ m.read = v
<1>1. /\ m.pc = p /\ m.start = i.start /\ m.bucket = i.bucket /\ m.consent = i.consent /\ m.plan = i.plan
      /\ m.attempt = k /\ m.query = i.query /\ m.outcome = w /\ m.read = v
  BY DEF RunType
<1>2. m = [pc |-> m.pc, start |-> m.start, bucket |-> m.bucket, consent |-> m.consent, plan |-> m.plan,
           attempt |-> m.attempt, query |-> m.query, outcome |-> m.outcome, read |-> m.read]
  BY DEF RunType
<1>3. i.start \in Nat /\ i.bucket \in 1..MaxBucket /\ i.consent \in 0..2 /\ i.plan \in Seq(Batches) /\ i.query \in Nat
  BY DEF RunType
<1> QED BY <1>1, <1>2, <1>3 DEF RunType

\* ... when a query is answered.
LEMMA RecordSends ==
    ASSUME NEW i \in RunType, NEW k \in Nat, NEW p \in States, NEW w \in Outcomes,
           NEW m, m = [i EXCEPT !.query = k, !.pc = p, !.outcome = w]
    PROVE  /\ m \in RunType
           /\ m.pc = p /\ m.start = i.start /\ m.bucket = i.bucket /\ m.consent = i.consent /\ m.plan = i.plan
           /\ m.attempt = i.attempt /\ m.query = k /\ m.outcome = w /\ m.read = i.read
<1>1. /\ m.pc = p /\ m.start = i.start /\ m.bucket = i.bucket /\ m.consent = i.consent /\ m.plan = i.plan
      /\ m.attempt = i.attempt /\ m.query = k /\ m.outcome = w /\ m.read = i.read
  BY DEF RunType
<1>2. m = [pc |-> m.pc, start |-> m.start, bucket |-> m.bucket, consent |-> m.consent, plan |-> m.plan,
           attempt |-> m.attempt, query |-> m.query, outcome |-> m.outcome, read |-> m.read]
  BY DEF RunType
<1>3. i.start \in Nat /\ i.bucket \in 1..MaxBucket /\ i.consent \in 0..2 /\ i.plan \in Seq(Batches) /\ i.attempt \in 1..2 /\ i.read \in Nat
  BY DEF RunType
<1> QED BY <1>1, <1>2, <1>3 DEF RunType

\* ... when the model has answered.
LEMMA RecordFinds ==
    ASSUME NEW i \in RunType, NEW p \in States, NEW w \in Outcomes,
           NEW m, m = [i EXCEPT !.pc = p, !.outcome = w]
    PROVE  /\ m \in RunType
           /\ m.pc = p /\ m.start = i.start /\ m.bucket = i.bucket /\ m.consent = i.consent /\ m.plan = i.plan
           /\ m.attempt = i.attempt /\ m.query = i.query /\ m.outcome = w /\ m.read = i.read
<1>1. /\ m.pc = p /\ m.start = i.start /\ m.bucket = i.bucket /\ m.consent = i.consent /\ m.plan = i.plan
      /\ m.attempt = i.attempt /\ m.query = i.query /\ m.outcome = w /\ m.read = i.read
  BY DEF RunType
<1>2. m = [pc |-> m.pc, start |-> m.start, bucket |-> m.bucket, consent |-> m.consent, plan |-> m.plan,
           attempt |-> m.attempt, query |-> m.query, outcome |-> m.outcome, read |-> m.read]
  BY DEF RunType
<1>3. i.start \in Nat /\ i.bucket \in 1..MaxBucket /\ i.consent \in 0..2 /\ i.plan \in Seq(Batches) /\ i.attempt \in 1..2 /\ i.query \in Nat /\ i.read \in Nat
  BY DEF RunType
<1> QED BY <1>1, <1>2, <1>3 DEF RunType

\* ... when it goes on.
LEMMA RecordGoes ==
    ASSUME NEW i \in RunType, NEW p \in States,
           NEW m, m = [i EXCEPT !.pc = p]
    PROVE  /\ m \in RunType
           /\ m.pc = p /\ m.start = i.start /\ m.bucket = i.bucket /\ m.consent = i.consent /\ m.plan = i.plan
           /\ m.attempt = i.attempt /\ m.query = i.query /\ m.outcome = i.outcome /\ m.read = i.read
<1>1. /\ m.pc = p /\ m.start = i.start /\ m.bucket = i.bucket /\ m.consent = i.consent /\ m.plan = i.plan
      /\ m.attempt = i.attempt /\ m.query = i.query /\ m.outcome = i.outcome /\ m.read = i.read
  BY DEF RunType
<1>2. m = [pc |-> m.pc, start |-> m.start, bucket |-> m.bucket, consent |-> m.consent, plan |-> m.plan,
           attempt |-> m.attempt, query |-> m.query, outcome |-> m.outcome, read |-> m.read]
  BY DEF RunType
<1>3. i.start \in Nat /\ i.bucket \in 1..MaxBucket /\ i.consent \in 0..2 /\ i.plan \in Seq(Batches) /\ i.attempt \in 1..2 /\ i.query \in Nat /\ i.outcome \in Outcomes /\ i.read \in Nat
  BY DEF RunType
<1> QED BY <1>1, <1>2, <1>3 DEF RunType

-----------------------------------------------------------------------------
(* What every step keeps *)

\* The ledger and the batches that are left only grow, and what is new in the
\* ledger has the next revision.
Grows ==
    /\ claims \subseteq claims' /\ settled \subseteq settled'
    /\ paid.left \subseteq paid'.left
    /\ revision' \in {revision, revision + 1}
    /\ \A c \in claims' \ claims : c.revision = revision + 1
    /\ revision' = revision => scope' = scope

\* No tick but t moves, and t keeps its start.
Moved(t) ==
    /\ run' \in [Ticks -> RunType]
    /\ \A u \in Ticks \ {t} : run'[u] = run[u]

Begun(u) ==
    run[u].pc \notin {"idle", "load"} =>
        run'[u].pc \notin {"idle", "load"} /\ run'[u].start = run[u].start

\* Requests are paid for the batch of t only, while it is searching.
PaysFor(t) ==
    /\ paid' \in [searches : [Batches -> Nat], models : [Batches -> Nat],
                  left : SUBSET Batches, late : [Ticks -> 0..1]]
    /\ \A u \in Ticks \ {t} : paid'.late[u] = paid.late[u]
    /\ \A b \in Batches : run[t].pc \notin Searching \/ b # Batch(t) =>
           paid'.searches[b] = paid.searches[b] /\ paid'.models[b] = paid.models[b]

\* What a tick may claim, it may claim after any step.
LEMMA MayClaimKept ==
    ASSUME WorldInv, claims \subseteq ClaimType, Grows, NEW t, NEW b,
           run[t].start \in Nat, run[t].start <= revision, run'[t].start = run[t].start,
           MayClaim(t, b)
    PROVE  MayClaim(t, b)'
<1> SUFFICES ASSUME NEW c \in claims', Blocks(c, b)' PROVE run'[t].start < c.revision
  BY DEF MayClaim
<1>1. CASE c \in claims
  <2>1. Blocks(c, b)
    BY <1>1 DEF Blocks
  <2> QED BY <1>1, <2>1 DEF MayClaim
<1>2. CASE c \notin claims
  <2>1. c.revision = revision + 1 /\ revision \in Nat
    BY <1>2 DEF Grows, WorldInv
  <2> QED BY <2>1
<1> QED BY <1>1, <1>2

\* A step that adds nothing to the ledger keeps what it says.
LEMMA LedgerKept ==
    ASSUME Inv, UNCHANGED ledger, revision' \in Nat, revision <= revision',
           run' \in [Ticks -> RunType], \A u \in Ticks : Begun(u)
    PROVE  LedgerInv'
<1>0. claims' = claims /\ settled' = settled
  BY DEF ledger
<1>1. \A c \in claims : c.revision \in 1..revision /\ c.attempt \in Ticks
  BY DEF Inv, LedgerInv, ClaimType
<1>1a. \A c \in settled : c.revision \in 1..revision
  BY DEF Inv, LedgerInv, SettlementType
<1>1b. revision \in Nat
  BY DEF Inv, WorldInv
<1>2. (claims \subseteq ClaimType)' /\ (settled \subseteq SettlementType)'
  <2>1. 1..revision \subseteq 1..revision'
    BY <1>1b
  <2> QED BY <1>0, <2>1 DEF Inv, LedgerInv, ClaimType, SettlementType
<1>3. ChainInv'
  <2>1. \A b : ClaimsOf(b)' = ClaimsOf(b) /\ SettlementsOf(b)' = SettlementsOf(b)
    BY <1>0 DEF ClaimsOf, SettlementsOf
  <2> QED BY <1>0, <2>1 DEF Inv, LedgerInv, ChainInv
<1>4. BudgetInv'
  <2>1. Held' = Held /\ \A b : HeldFor(b)' = HeldFor(b)
    BY <1>0 DEF Held, HeldFor, ClaimsOf
  <2> QED BY <1>0, <2>1 DEF Inv, LedgerInv, BudgetInv
<1>5. FactsMatchScope'
  BY <1>0 DEF Inv, LedgerInv, FactsMatchScope
<1>6. \A c \in claims : run'[c.attempt].pc \notin {"idle", "load"} /\ run'[c.attempt].start = run[c.attempt].start
  BY <1>1 DEF Inv, LedgerInv, Begun
<1>7. DeclinedIsFinal'
  BY <1>0, <1>6 DEF Inv, LedgerInv, DeclinedIsFinal
<1>8. (\A c \in claims : run[c.attempt].pc \notin {"idle", "load"} /\ run[c.attempt].start < c.revision)'
  BY <1>0, <1>6 DEF Inv, LedgerInv
<1> QED BY <1>2, <1>3, <1>4, <1>5, <1>7, <1>8 DEF LedgerInv

\* A tick that does not move is as it was.
LEMMA TickKept ==
    ASSUME Inv, Grows, NEW u \in Ticks, run'[u] = run[u],
           UNCHANGED <<scope, consent, window>>, paid'.late[u] = paid.late[u],
           run[u].pc \in Searching => /\ paid'.searches[Batch(u)] = paid.searches[Batch(u)]
                                      /\ paid'.models[Batch(u)] = paid.models[Batch(u)]
    PROVE  PlanInv(u)' /\ BatchInv(u)' /\ AuthorityInv(u)'
<1>1. run[u] \in RunType /\ PlanInv(u) /\ BatchInv(u) /\ AuthorityInv(u)
  BY DEF Inv, RunInv
<1>2. revision \in Nat /\ revision <= revision' /\ revision' \in Nat
  BY DEF Inv, WorldInv, Grows
<1>3. PlanInv(u)'
  <2>1. \A b : MayClaim(u, b) => MayClaim(u, b)'
    BY <1>1, MayClaimKept DEF Inv, LedgerInv, PlanInv, RunType
  <2>2. run[u].start \in Nat
    BY <1>1 DEF RunType
  <2> QED BY <1>1, <1>2, <2>1, <2>2 DEF PlanInv
<1>4. BatchInv(u)'
  <2>1. Batch(u)' = Batch(u) /\ QueriesIn(Batch(u))' = QueriesIn(Batch(u))
    BY DEF Batch, QueriesIn
  <2>2. run[u].pc \in Searching => \E c \in ClaimsOf(Batch(u))' : c.attempt = u /\ c.admitted
    BY <1>1, <2>1 DEF BatchInv, ClaimsOf, Grows
  <2>3. {"query", "send", "model", "sendmodel"} \subseteq Searching
    BY DEF Searching
  <2> QED BY <1>1, <2>1, <2>2, <2>3 DEF BatchInv
<1>5. AuthorityInv(u)'
  BY <1>1 DEF AuthorityInv, Active, Authorized
<1> QED BY <1>3, <1>4, <1>5

\* The other ticks are as they were.
LEMMA OthersKept ==
    ASSUME Inv, Grows, NEW t \in Ticks, Moved(t), PaysFor(t),
           UNCHANGED <<scope, consent, window>>, NEW u \in Ticks \ {t}
    PROVE  PlanInv(u)' /\ BatchInv(u)' /\ AuthorityInv(u)'
<1>1. run'[u] = run[u] /\ BatchInv(u) /\ BatchInv(t)
  BY DEF Moved, Inv, RunInv
<1>2. run[u].pc \in Searching => \E c \in claims : c.batch = Batch(u) /\ c.attempt = u
  BY <1>1 DEF BatchInv, ClaimsOf
<1>3. run[t].pc \in Searching => \E c \in claims : c.batch = Batch(t) /\ c.attempt = t
  BY <1>1 DEF BatchInv, ClaimsOf
<1>4. run[t].pc \in Searching /\ run[u].pc \in Searching => Batch(t) # Batch(u)
  BY <1>2, <1>3 DEF Inv, LedgerInv, ChainInv
<1>5. run[u].pc \in Searching => Batch(u) \in Batches
  BY <1>2 DEF Inv, LedgerInv, ClaimType
<1>6. run[u].pc \in Searching => /\ paid'.searches[Batch(u)] = paid.searches[Batch(u)]
                                 /\ paid'.models[Batch(u)] = paid.models[Batch(u)]
  BY <1>4, <1>5 DEF PaysFor
<1> QED BY <1>1, <1>6, TickKept DEF PaysFor

\* The ways of a tick at work: it stays on its batch, or leaves it for the next
\* or for good.
GoesOn(t) ==
    /\ Working(t) /\ Moved(t)
    /\ run'[t].start = run[t].start /\ run'[t].pc \notin {"idle", "load"}

StaysOn(t) ==
    /\ GoesOn(t)
    /\ run'[t].plan = run[t].plan /\ run'[t].consent = run[t].consent
    /\ run'[t].pc # "done"

LeavesBatch(t) ==
    /\ GoesOn(t)
    /\ \/ run'[t].pc = "done" /\ run'[t].plan = <<>>
       \/ /\ run'[t].pc = "claim" /\ run'[t].plan # <<>> /\ run'[t].plan = Tail(run[t].plan)
          /\ run'[t].query = 0 /\ run'[t].consent = run[t].consent

\* What is left of a plan.
LEMMA TailOfPlan ==
    ASSUME NEW S, NEW q \in Seq(S), q # <<>>
    PROVE  /\ Head(q) = q[1] /\ q[1] \in S /\ 1 \in DOMAIN q
           /\ Tail(q) \in Seq(S)
           /\ Len(q) # 1 => Tail(q) # <<>>
           /\ \A i \in DOMAIN Tail(q) : i \in Nat /\ i + 1 \in DOMAIN q /\ i + 1 # 1 /\ Tail(q)[i] = q[i + 1]
<1>1. Head(q) = q[1] /\ q[1] \in S /\ 1 \in DOMAIN q
  OBVIOUS
<1>2. Tail(q) \in Seq(S) /\ Len(Tail(q)) = Len(q) - 1 /\ Len(q) \in Nat
  OBVIOUS
<1>3. Len(q) # 1 => Tail(q) # <<>>
  <2>1. Len(<<>>) = 0
    OBVIOUS
  <2>2. PICK z : z = Tail(q)
    OBVIOUS
  <2>3. Len(q) # 1 => Len(z) # 0
    BY <1>2, <2>2
  <2> QED BY <2>1, <2>2, <2>3
<1>4. ASSUME NEW i \in DOMAIN Tail(q)
      PROVE  i \in Nat /\ i + 1 \in DOMAIN q /\ i + 1 # 1 /\ Tail(q)[i] = q[i + 1]
  OBVIOUS
<1> QED BY <1>1, <1>2, <1>3, <1>4

\* A tick at work has a batch.
LEMMA WorkingPlan ==
    ASSUME Inv, NEW t \in Ticks, Working(t)
    PROVE  /\ run[t] \in RunType /\ run[t].plan \in Seq(Batches) /\ run[t].plan # <<>>
           /\ Batch(t) \in Batches /\ Batch(t) = run[t].plan[1] /\ 1 \in DOMAIN run[t].plan
<1>1. run[t] \in RunType /\ PlanInv(t)
  BY DEF Inv, RunInv
<1>2. run[t].plan \in Seq(Batches) /\ run[t].plan # <<>>
  BY <1>1 DEF RunType, PlanInv, Working
<1> QED BY <1>1, <1>2, TailOfPlan DEF Batch

\* A tick that is over keeps nothing but its start.
LEMMA OverMoves ==
    ASSUME Inv, NEW t \in Ticks, Over(t)
    PROVE  Moved(t) /\ run'[t].pc = "done" /\ run'[t].plan = <<>> /\ run'[t].start = run[t].start
<1>1. run \in [Ticks -> RunType]
  BY DEF Inv, RunInv
<1>2. PICK n : n = [Idle EXCEPT !.pc = "done", !.start = run[t].start]
  OBVIOUS
<1>3. n \in RunType /\ n.pc = "done" /\ n.plan = <<>> /\ n.start = run[t].start
  <2>1. run[t].start \in Nat
    BY <1>1 DEF RunType
  <2>2. Idle \in RunType /\ Idle.plan = <<>>
    BY Constants DEF Idle, RunType, States, Outcomes
  <2>3. \A i \in RunType, k \in Nat :
           LET m == [i EXCEPT !.pc = "done", !.start = k]
           IN  m \in RunType /\ m.pc = "done" /\ m.plan = i.plan /\ m.start = k
    BY DEF RunType, States
  <2> QED BY <1>2, <2>1, <2>2, <2>3
<1>4. run' = [run EXCEPT ![t] = n]
  BY <1>2 DEF Over
<1>5. run' \in [Ticks -> RunType] /\ run'[t] = n /\ \A u \in Ticks \ {t} : run'[u] = run[u]
  BY <1>1, <1>3, <1>4
<1> QED BY <1>3, <1>5 DEF Moved

\* It leaves its batch.
LEMMA OverLeaves ==
    ASSUME Inv, NEW t \in Ticks, Working(t), Over(t)
    PROVE  LeavesBatch(t)
BY OverMoves DEF LeavesBatch, GoesOn

\* So does a tick that turns to its next entry.
LEMMA NextLeaves ==
    ASSUME Inv, NEW t \in Ticks, Working(t), NextEntry(t)
    PROVE  LeavesBatch(t)
<1>1. run \in [Ticks -> RunType]
  BY DEF Inv, RunInv
<1>2. CASE Len(run[t].plan) = 1
  BY <1>2, OverLeaves DEF NextEntry
<1>3. CASE Len(run[t].plan) # 1
  <2>1. PICK n : n = [run[t] EXCEPT !.pc = "claim", !.plan = Tail(run[t].plan), !.attempt = 1,
                                    !.read = 0, !.query = 0, !.outcome = "none"]
    OBVIOUS
  <2>2. run[t] \in RunType /\ Tail(run[t].plan) \in Seq(Batches) /\ Tail(run[t].plan) # <<>>
    BY <1>3, WorkingPlan, TailOfPlan
  <2>3. /\ n \in RunType /\ n.pc = "claim" /\ n.plan = Tail(run[t].plan) /\ n.start = run[t].start
        /\ n.query = 0 /\ n.consent = run[t].consent
    <3>1. PICK i \in RunType, z \in Seq(Batches) : i = run[t] /\ z = Tail(run[t].plan)
      BY <2>2
    <3>2. n = [i EXCEPT !.pc = "claim", !.plan = z, !.attempt = 1, !.read = 0, !.query = 0, !.outcome = "none"]
      BY <2>1, <3>1
    <3>3. /\ n \in RunType /\ n.pc = "claim" /\ n.plan = z /\ n.start = i.start
          /\ n.query = 0 /\ n.consent = i.consent
      <4>1. /\ n.pc = "claim" /\ n.plan = z /\ n.start = i.start /\ n.bucket = i.bucket
            /\ n.query = 0 /\ n.consent = i.consent /\ n.attempt = 1 /\ n.read = 0 /\ n.outcome = "none"
        BY <3>2 DEF RunType
      <4>2. n = [pc |-> n.pc, start |-> n.start, bucket |-> n.bucket, consent |-> n.consent, plan |-> n.plan,
                 attempt |-> n.attempt, query |-> n.query, outcome |-> n.outcome, read |-> n.read]
        BY <3>2 DEF RunType
      <4>3. i.start \in Nat /\ i.bucket \in 1..MaxBucket /\ i.consent \in 0..2
        BY DEF RunType
      <4> QED BY <4>1, <4>2, <4>3 DEF RunType, States, Outcomes
    <3> QED BY <3>1, <3>3
  <2>4. run' = [run EXCEPT ![t] = n]
    BY <1>3, <2>1 DEF NextEntry
  <2>5. run' \in [Ticks -> RunType] /\ run'[t] = n /\ \A u \in Ticks \ {t} : run'[u] = run[u]
    BY <1>1, <2>3, <2>4
  <2> QED BY <2>2, <2>3, <2>5 DEF LeavesBatch, GoesOn, Moved
<1> QED BY <1>2, <1>3

\* The run of a tick that leaves its batch.
LEMMA LeavingRun ==
    ASSUME Inv, Grows, NEW t \in Ticks, LeavesBatch(t), PaysFor(t),
           UNCHANGED <<scope, consent, window>>, paid'.late[t] = 1 => ~Authorized(t)
    PROVE  RunInv'
<1>1. /\ Moved(t) /\ run'[t] \in RunType /\ run'[t].start = run[t].start
      /\ run[t] \in RunType /\ run[t].plan \in Seq(Batches) /\ run[t].plan # <<>>
  BY WorkingPlan DEF LeavesBatch, GoesOn, Moved
<1>2. PlanInv(t) /\ AuthorityInv(t)
  BY DEF Inv, RunInv
<1>3. PlanInv(t)'
  <2>1. run[t].start \in Nat /\ revision \in Nat /\ revision' \in Nat /\ revision <= revision'
    BY <1>1 DEF RunType, Inv, WorldInv, Grows
  <2>2. run'[t].start <= revision'
    BY <1>1, <1>2, <2>1 DEF PlanInv
  <2>3. \A b : MayClaim(t, b) => MayClaim(t, b)'
    BY <1>1, <1>2, <2>1, MayClaimKept DEF Inv, LedgerInv, PlanInv
  <2>4. CASE run'[t].pc = "done" /\ run'[t].plan = <<>>
    BY <2>2, <2>4 DEF PlanInv
  <2>5. CASE run'[t].pc = "claim" /\ run'[t].plan # <<>> /\ run'[t].plan = Tail(run[t].plan)
    <3>1. \A i \in DOMAIN run'[t].plan : i + 1 \in DOMAIN run[t].plan /\ run'[t].plan[i] = run[t].plan[i + 1]
      BY <1>1, <2>5, TailOfPlan
    <3>2. \A i \in DOMAIN run'[t].plan : i \in Nat
      BY <1>1, <2>5, TailOfPlan
    <3>3. \A i, j \in DOMAIN run'[t].plan : run'[t].plan[i] = run'[t].plan[j] => i = j
      <4>1. \A i, j \in Nat : i + 1 = j + 1 => i = j
        OBVIOUS
      <4> QED BY <1>2, <3>1, <3>2, <4>1 DEF PlanInv
    <3>4. \A i \in DOMAIN run'[t].plan : MayClaim(t, run[t].plan[i])'
      <4> SUFFICES ASSUME NEW i \in DOMAIN run'[t].plan PROVE MayClaim(t, run[t].plan[i])'
        OBVIOUS
      <4>1. PICK b : b = run[t].plan[i + 1]
        OBVIOUS
      <4>2. MayClaim(t, b)
        BY <1>2, <3>1, <4>1 DEF PlanInv
      <4>3. MayClaim(t, b)' /\ b = run'[t].plan[i]
        BY <2>3, <3>1, <4>1, <4>2
      <4> QED BY <4>3 DEF MayClaim, Blocks
    <3> QED BY <2>2, <2>5, <3>3, <3>4 DEF PlanInv
  <2> QED BY <2>4, <2>5 DEF LeavesBatch
<1>4. BatchInv(t)'
  BY DEF BatchInv, LeavesBatch, Searching, Settling
<1>5. AuthorityInv(t)'
  BY <1>2 DEF AuthorityInv, LeavesBatch, GoesOn, Working, Active, Authorized
<1>6. \A u \in Ticks \ {t} : PlanInv(u)' /\ BatchInv(u)' /\ AuthorityInv(u)'
  BY <1>1, OthersKept
<1> QED BY <1>1, <1>3, <1>4, <1>5, <1>6 DEF RunInv, Moved

\* The run of a tick that stays.
LEMMA StayingRun ==
    ASSUME Inv, Grows, NEW t \in Ticks, StaysOn(t), PaysFor(t),
           UNCHANGED <<scope, consent, window>>, paid'.late[t] = 1 => ~Authorized(t),
           run'[t].pc \in {"send", "sendmodel"} => paid'.late[t] = 0,
           BatchInv(t)'
    PROVE  RunInv'
<1>1. /\ Moved(t) /\ run'[t] \in RunType /\ run'[t].start = run[t].start
      /\ run[t] \in RunType /\ run[t].plan \in Seq(Batches) /\ run[t].plan # <<>>
  BY WorkingPlan DEF StaysOn, GoesOn, Moved
<1>2. PlanInv(t) /\ AuthorityInv(t)
  BY DEF Inv, RunInv
<1>3. PlanInv(t)'
  <2>1. run[t].start \in Nat /\ revision \in Nat /\ revision' \in Nat /\ revision <= revision'
    BY <1>1 DEF RunType, Inv, WorldInv, Grows
  <2>2. run'[t].start <= revision'
    BY <1>1, <1>2, <2>1 DEF PlanInv
  <2>3. \A b : MayClaim(t, b) => MayClaim(t, b)'
    BY <1>1, <1>2, <2>1, MayClaimKept DEF Inv, LedgerInv, PlanInv
  <2>4. run'[t].plan = run[t].plan /\ run'[t].pc \notin {"idle", "load", "done"}
    BY DEF StaysOn, GoesOn
  <2>5. \A i \in DOMAIN run'[t].plan : MayClaim(t, run[t].plan[i])'
    <3> SUFFICES ASSUME NEW i \in DOMAIN run'[t].plan PROVE MayClaim(t, run[t].plan[i])'
      OBVIOUS
    <3>1. PICK b : b = run[t].plan[i]
      OBVIOUS
    <3>2. MayClaim(t, b)
      BY <1>2, <2>4, <3>1 DEF PlanInv
    <3>3. MayClaim(t, b)' /\ b = run'[t].plan[i]
      BY <2>3, <2>4, <3>1, <3>2
    <3> QED BY <3>3 DEF MayClaim, Blocks
  <2> QED BY <1>1, <1>2, <2>2, <2>4, <2>5 DEF PlanInv
<1>4. AuthorityInv(t)'
  BY <1>2 DEF AuthorityInv, StaysOn, GoesOn, Working, Active, Authorized
<1>5. \A u \in Ticks \ {t} : PlanInv(u)' /\ BatchInv(u)' /\ AuthorityInv(u)'
  BY <1>1, OthersKept
<1> QED BY <1>1, <1>3, <1>4, <1>5 DEF RunInv, Moved

\* A request keeps its place: its tick does not move, or leaves the batch that it
\* abandoned, or stays on another one.
LEMMA RequestKept ==
    ASSUME Inv, Grows, NEW t \in Ticks, Moved(t), NEW q \in wire,
           q.tick = t =>
             \/ run'[t] = run[t] \/ run[t].pc \in {"idle", "load"}
             \/ LeavesBatch(t) /\ (q.batch = Batch(t) => Batch(t) \in paid'.left)
             \/ StaysOn(t) /\ q.batch # Batch(t)
    PROVE  RequestInv(q)'
<1>1. RequestInv(q) /\ q \in RequestType /\ q.tick \in Ticks
  BY DEF Inv, WireInv, RequestType
<1>2. PICK u \in Ticks : u = q.tick
  BY <1>1
<1>3. run[u] \in RunType /\ PlanInv(u) /\ revision \in Nat
  BY DEF Inv, RunInv, WorldInv
<1>4. run'[u].start = run[u].start /\ run'[u].pc \notin {"idle", "load"}
  BY <1>1, <1>2 DEF Moved, LeavesBatch, StaysOn, GoesOn, RequestInv
<1>5. q.kind = "claim" => MayClaim(u, q.batch)'
  <2>1. run[u].start \in Nat /\ run[u].start <= revision
    BY <1>3 DEF RunType, PlanInv
  <2>2. MayClaim(u, q.batch) => MayClaim(u, q.batch)'
    BY <1>3, <1>4, <2>1, MayClaimKept DEF Inv, LedgerInv
  <2> QED BY <1>1, <1>2, <2>2 DEF RequestInv
<1>6. q.kind = "facts" => q.outcome = "searched" /\ (q.read = revision' => scope' = "approved")
  <2>1. q.read \in 1..revision
    BY <1>1 DEF RequestType
  <2> QED BY <1>1, <1>3, <2>1 DEF RequestInv, Grows
<1>7. q.kind = "checkpoint" => q.outcome \in {"failed", "exhausted"}
  BY <1>1 DEF RequestInv
<1>8. /\ \A i \in DOMAIN run'[u].plan : run'[u].plan[i] = q.batch => i = 1 /\ run'[u].pc = WaitsIn(q.kind)
      /\ q.batch \in paid'.left \/ (run'[u].plan # <<>> /\ Head(run'[u].plan) = q.batch)
  <2>1. /\ \A i \in DOMAIN run[u].plan : run[u].plan[i] = q.batch => i = 1 /\ run[u].pc = WaitsIn(q.kind)
        /\ q.batch \in paid.left \/ (run[u].plan # <<>> /\ Head(run[u].plan) = q.batch)
    BY <1>1, <1>2 DEF RequestInv, Batch
  <2>2. CASE run'[u] = run[u]
    BY <2>1, <2>2 DEF Grows
  <2>3. CASE run'[u] # run[u]
    <3>1. u = t /\ run[u].pc \notin {"idle", "load"}
      BY <1>1, <1>2, <2>3 DEF Moved, RequestInv
    <3>2. CASE LeavesBatch(t) /\ (q.batch = Batch(t) => Batch(t) \in paid'.left)
      <4>1. q.batch \in paid'.left
        BY <2>1, <3>1, <3>2 DEF Grows, Batch
      <4>2. run'[u].plan = <<>> \/ run'[u].plan = Tail(run[u].plan)
        BY <3>1, <3>2 DEF LeavesBatch
      <4>3. run[u].plan \in Seq(Batches) /\ run[u].plan # <<>>
        BY <3>1, <3>2, WorkingPlan DEF LeavesBatch, GoesOn
      <4>4. ASSUME NEW i \in DOMAIN run'[u].plan PROVE run'[u].plan[i] # q.batch
        <5>1. run'[u].plan = Tail(run[u].plan)
          BY <4>2
        <5>2. i + 1 \in DOMAIN run[u].plan /\ i + 1 # 1 /\ run'[u].plan[i] = run[u].plan[i + 1]
          BY <4>3, <5>1, TailOfPlan
        <5> QED BY <2>1, <5>2
      <4> QED BY <4>1, <4>4
    <3>3. CASE StaysOn(t) /\ q.batch # Batch(t)
      <4>1. run'[u].plan = run[u].plan
        BY <3>1, <3>3 DEF StaysOn
      <4>2. run[u].plan # <<>> /\ Batch(t) = run[u].plan[1]
        BY <3>1, <3>3, WorkingPlan DEF StaysOn, GoesOn
      <4> QED BY <2>1, <3>1, <3>3, <4>1, <4>2 DEF Grows, Batch
    <3> QED BY <1>2, <2>3, <3>1, <3>2, <3>3
  <2> QED BY <2>2, <2>3
<1> QED BY <1>2, <1>4, <1>5, <1>6, <1>7, <1>8 DEF RequestInv, Batch

\* A claim keeps somebody minding it, or was left or settled.
LEMMA MindedKept ==
    ASSUME Inv, Grows, NEW t \in Ticks, Moved(t), NEW c \in claims,
           \/ run'[t] = run[t] \/ run[t].pc \notin Searching \cup Settling
           \/ Batch(t) \in paid'.left \/ \E x \in settled' : x.batch = Batch(t)
           \/ run'[t].pc \in Searching \cup Settling /\ run'[t].plan = run[t].plan
    PROVE  Minded(c)'
<1>1. Minded(c) /\ c.attempt \in Ticks
  BY DEF Inv, PaidInv, LedgerInv, ClaimType
<1>2. SettlementsOf(c.batch) # {} => SettlementsOf(c.batch)' # {}
  BY DEF SettlementsOf, Grows
<1>3. c.batch \in paid.left => c.batch \in paid'.left
  BY DEF Grows
<1>4. CASE c.attempt # t
  BY <1>1, <1>2, <1>3, <1>4 DEF Minded, Moved, Batch
<1>5. CASE c.attempt = t
  <2>1. CASE run[t].pc \in Searching \cup Settling /\ Batch(t) = c.batch
    <3>1. CASE Batch(t) \in paid'.left \/ \E x \in settled' : x.batch = Batch(t)
      <4>1. c.batch \in paid'.left \/ \E x \in settled' : x.batch = c.batch
        BY <2>1, <3>1
      <4> QED BY <4>1 DEF Minded, SettlementsOf
    <3>2. CASE run'[t].pc \in Searching \cup Settling /\ run'[t].plan = run[t].plan
      BY <1>5, <2>1, <3>2 DEF Minded, Batch
    <3>3. CASE run'[t] = run[t]
      BY <1>5, <2>1, <3>3 DEF Minded, Batch
    <3> QED BY <2>1, <3>1, <3>2, <3>3
  <2>2. CASE ~(run[t].pc \in Searching \cup Settling /\ Batch(t) = c.batch)
    BY <1>1, <1>2, <1>3, <1>5, <2>2 DEF Minded
  <2> QED BY <2>1, <2>2
<1> QED BY <1>4, <1>5

-----------------------------------------------------------------------------
(* The steps of a tick *)

\* No request of a tick is open for the batch it is on, unless it waits.
LEMMA NoneOpen ==
    ASSUME Inv, NEW t \in Ticks, Working(t), ~Waits(t), NEW q \in wire, q.tick = t
    PROVE  q.batch # Batch(t)
<1>1. Batch(t) = run[t].plan[1] /\ 1 \in DOMAIN run[t].plan
  BY WorkingPlan
<1>2. RequestInv(q) /\ q.kind \in {"claim", "facts", "checkpoint"}
  BY DEF Inv, WireInv, RequestType
<1> QED BY <1>1, <1>2 DEF RequestInv, WaitsIn, Waits

\* The wait ends, or never was: what is on the wire keeps its place, and what is
\* claimed is minded.
LEMMA TickLeaves ==
    ASSUME Inv, NEW t \in Ticks, Working(t), Over(t) \/ NextEntry(t),
           UNCHANGED <<world, ledger, wire>>, faults' \in 0..MaxFaults,
           PaysFor(t), EachRequestOnce', paid.left \subseteq paid'.left,
           paid'.late[t] = 1 => ~Authorized(t),
           run[t].pc = "claim" \/ Batch(t) \in paid'.left
    PROVE  Inv'
<1>1. LeavesBatch(t) /\ Moved(t)
  BY OverLeaves, NextLeaves DEF LeavesBatch, GoesOn
<1>2. /\ revision' = revision /\ scope' = scope /\ consent' = consent /\ window' = window
      /\ bucket' = bucket /\ claims' = claims /\ settled' = settled /\ wire' = wire
  BY DEF world, ledger
<1>3. Grows
  BY <1>2 DEF Grows
<1>4. WorldInv'
  BY <1>2 DEF Inv, WorldInv
<1>5. LedgerInv'
  <2>1. \A u \in Ticks : Begun(u)
    BY <1>1 DEF Begun, Moved, LeavesBatch, GoesOn
  <2>2. revision \in Nat
    BY DEF Inv, WorldInv
  <2> QED BY <1>1, <1>2, <2>1, <2>2, LedgerKept DEF Moved
<1>6. PaidInv'
  <2>1. \A c \in claims : Minded(c)'
    BY <1>1, <1>3, MindedKept DEF Searching, Settling
  <2> QED BY <1>2, <2>1 DEF PaidInv, PaysFor
<1>7. RunInv'
  BY <1>1, <1>2, <1>3, LeavingRun
<1>8. WireInv'
  <2>1. ASSUME NEW q \in wire PROVE RequestInv(q)'
    <3>1. q.tick = t /\ q.batch = Batch(t) => Batch(t) \in paid'.left
      BY NoneOpen DEF Waits
    <3> QED BY <1>1, <1>3, <3>1, RequestKept
  <2> QED BY <1>2, <2>1 DEF Inv, WireInv, RequestType
<1> QED BY <1>4, <1>5, <1>6, <1>7, <1>8 DEF Inv

\* A tick stays on its batch and may send a request for it.
LEMMA TickStays ==
    ASSUME Inv, NEW t \in Ticks, StaysOn(t), ~Waits(t), BatchInv(t)',
           UNCHANGED <<world, ledger, faults>>,
           PaysFor(t), EachRequestOnce', paid.left \subseteq paid'.left,
           paid'.late[t] = 1 => ~Authorized(t),
           run'[t].pc \in {"send", "sendmodel"} => paid'.late[t] = 0,
           run[t].pc = "claim" \/ run'[t].pc \in Searching \cup Settling,
           NEW q,
           \/ wire' = wire
           \/ /\ wire' = wire \cup {q}
              /\ q \in RequestType /\ q.tick = t /\ q.batch = Batch(t)
              /\ run'[t].pc = WaitsIn(q.kind)
              /\ q.kind = "facts" => q.outcome = "searched" /\ scope = "approved"
              /\ q.kind = "checkpoint" => q.outcome \in {"failed", "exhausted"}
    PROVE  Inv'
<1>1. Moved(t) /\ Working(t)
  BY DEF StaysOn, GoesOn
<1>2. /\ revision' = revision /\ scope' = scope /\ consent' = consent /\ window' = window
      /\ bucket' = bucket /\ claims' = claims /\ settled' = settled /\ faults' = faults
  BY DEF world, ledger
<1>3. Grows
  BY <1>2 DEF Grows
<1>4. WorldInv'
  BY <1>2 DEF Inv, WorldInv
<1>5. LedgerInv'
  <2>1. \A u \in Ticks : Begun(u)
    BY <1>1 DEF Begun, Moved, StaysOn, GoesOn
  <2>2. revision \in Nat
    BY DEF Inv, WorldInv
  <2> QED BY <1>1, <1>2, <2>1, <2>2, LedgerKept DEF Moved
<1>6. PaidInv'
  <2>1. \A c \in claims : Minded(c)'
    BY <1>1, <1>3, MindedKept DEF Searching, Settling, StaysOn
  <2> QED BY <1>2, <2>1 DEF PaidInv, PaysFor
<1>7. RunInv'
  BY <1>1, <1>2, <1>3, StayingRun
<1>8. \A r \in wire : r.tick = t => r.batch # Batch(t)
  BY <1>1, NoneOpen
<1>9. \A r \in wire : RequestInv(r)'
  BY <1>1, <1>3, <1>8, RequestKept
<1>10. CASE wire' = wire
  BY <1>2, <1>4, <1>5, <1>6, <1>7, <1>9, <1>10 DEF Inv, WireInv, RequestType
<1>11. CASE /\ wire' = wire \cup {q}
            /\ q \in RequestType /\ q.tick = t /\ q.batch = Batch(t)
            /\ run'[t].pc = WaitsIn(q.kind)
            /\ q.kind = "facts" => q.outcome = "searched" /\ scope = "approved"
            /\ q.kind = "checkpoint" => q.outcome \in {"failed", "exhausted"}
  <2>1. /\ run[t].plan # <<>> /\ 1 \in DOMAIN run[t].plan
        /\ Batch(t) = run[t].plan[1] /\ run'[t].plan = run[t].plan
    BY <1>1, WorkingPlan DEF StaysOn
  <2>2. PlanInv(t)'
    BY <1>7 DEF RunInv
  <2>3. \A i \in DOMAIN run'[t].plan : run'[t].plan[i] = q.batch => i = 1
    BY <1>11, <2>1, <2>2 DEF PlanInv
  <2>4. MayClaim(t, q.batch)'
    <3>1. MayClaim(t, run[t].plan[1])'
      BY <2>1, <2>2 DEF PlanInv
    <3>2. run'[t].plan[1] = q.batch
      BY <1>11, <2>1
    <3> QED BY <3>1, <3>2 DEF MayClaim, Blocks
  <2>5. run'[t].pc \notin {"idle", "load"} /\ run'[t].plan # <<>> /\ Head(run'[t].plan) = q.batch
    BY <1>11, <2>1 DEF StaysOn, GoesOn, Batch
  <2>6. RequestInv(q)'
    BY <1>2, <1>11, <2>3, <2>4, <2>5 DEF RequestInv, Batch
  <2>7. (wire \subseteq RequestType)'
    BY <1>2, <1>11 DEF Inv, WireInv, RequestType
  <2>8. \A r, z \in wire' : r.tick = z.tick /\ r.batch = z.batch => r = z
    BY <1>8, <1>11 DEF Inv, WireInv
  <2>9. WireInv'
    BY <1>9, <1>11, <2>6, <2>7, <2>8 DEF WireInv
  <2> QED BY <1>4, <1>5, <1>6, <1>7, <2>9 DEF Inv
<1> QED BY <1>10, <1>11

\* A tick that has not claimed anything yet.
LEMMA TickBegins ==
    ASSUME Inv, NEW t \in Ticks, run[t].pc \in {"idle", "load"}, Moved(t),
           UNCHANGED <<world, ledger, wire, paid>>, faults' \in 0..MaxFaults,
           PlanInv(t)', BatchInv(t)', AuthorityInv(t)'
    PROVE  Inv'
<1>2. /\ revision' = revision /\ scope' = scope /\ consent' = consent /\ window' = window /\ paid' = paid
      /\ bucket' = bucket /\ claims' = claims /\ settled' = settled /\ wire' = wire
  BY DEF world, ledger
<1>3. Grows
  BY <1>2 DEF Grows
<1>4. WorldInv'
  BY <1>2 DEF Inv, WorldInv
<1>5. LedgerInv'
  <2>1. \A u \in Ticks : Begun(u)
    BY DEF Begun, Moved
  <2>2. revision \in Nat
    BY DEF Inv, WorldInv
  <2> QED BY <1>2, <2>1, <2>2, LedgerKept DEF Moved
<1>6. PaidInv'
  <2>1. \A c \in claims : Minded(c)'
    BY <1>3, MindedKept DEF Searching, Settling
  <2> QED BY <1>2, <2>1 DEF Inv, PaidInv, EachRequestOnce, ClaimsOf
<1>7. RunInv'
  <2>1. PaysFor(t)
    BY <1>2 DEF Inv, PaidInv, PaysFor
  <2>2. \A u \in Ticks \ {t} : PlanInv(u)' /\ BatchInv(u)' /\ AuthorityInv(u)'
    BY <1>2, <1>3, <2>1, OthersKept
  <2> QED BY <2>2 DEF RunInv, Moved
<1>8. WireInv'
  <2>1. \A q \in wire : RequestInv(q)'
    BY <1>3, RequestKept
  <2> QED BY <1>2, <2>1 DEF Inv, WireInv, RequestType
<1> QED BY <1>4, <1>5, <1>6, <1>7, <1>8 DEF Inv

\* The world moves under the ticks.
LEMMA WorldMoves ==
    ASSUME Inv, UNCHANGED <<ledger, wire, run>>, WorldInv',
           revision' \in {revision, revision + 1}, revision' = revision => scope' = scope,
           paid' = [paid EXCEPT !.late = paid'.late], paid'.late \in [Ticks -> 0..1],
           \A t \in Ticks : AuthorityInv(t)'
    PROVE  Inv'
<1>1. /\ claims' = claims /\ settled' = settled /\ wire' = wire /\ run' = run
      /\ run \in [Ticks -> RunType] /\ revision \in Nat
  BY DEF ledger, Inv, RunInv, WorldInv
<1>2. /\ paid'.searches = paid.searches /\ paid'.models = paid.models /\ paid'.left = paid.left
      /\ paid' \in [searches : [Batches -> Nat], models : [Batches -> Nat],
                    left : SUBSET Batches, late : [Ticks -> 0..1]]
  BY DEF Inv, PaidInv
<1>3. Grows
  BY <1>1, <1>2 DEF Grows
<1>4. LedgerInv'
  <2>1. \A u \in Ticks : Begun(u)
    BY <1>1 DEF Begun
  <2> QED BY <1>1, <2>1, LedgerKept
<1>5. PaidInv'
  <2>1. EachRequestOnce'
    BY <1>1, <1>2 DEF Inv, PaidInv, EachRequestOnce, ClaimsOf
  <2>2. \A c \in claims : Minded(c)'
    BY <1>1, <1>2 DEF Inv, PaidInv, Minded, SettlementsOf, Batch
  <2> QED BY <1>1, <1>2, <2>1, <2>2 DEF PaidInv
<1>6. ASSUME NEW t \in Ticks PROVE PlanInv(t)' /\ BatchInv(t)'
  <2>1. PlanInv(t) /\ BatchInv(t) /\ run[t].start \in Nat
    BY <1>1 DEF Inv, RunInv, RunType
  <2>2. \A b : MayClaim(t, b) => MayClaim(t, b)'
    BY <1>1, <1>3, <2>1, MayClaimKept DEF Inv, LedgerInv, PlanInv
  <2>3. PlanInv(t)'
    BY <1>1, <2>1, <2>2 DEF PlanInv
  <2>4. BatchInv(t)'
    BY <1>1, <1>2, <2>1 DEF BatchInv, Batch, ClaimsOf, QueriesIn
  <2> QED BY <2>3, <2>4
<1>7. ASSUME NEW q \in wire PROVE RequestInv(q)'
  <2>1. RequestInv(q) /\ q.tick \in Ticks /\ q.read \in 1..revision
    BY DEF Inv, WireInv, RequestType
  <2>2. PICK u \in Ticks : u = q.tick
    BY <2>1
  <2>3. MayClaim(u, q.batch) => MayClaim(u, q.batch)'
    <3>1. PlanInv(u) /\ run[u].start \in Nat
      BY <1>1 DEF Inv, RunInv, RunType
    <3> QED BY <1>1, <1>3, <3>1, MayClaimKept DEF Inv, LedgerInv, PlanInv
  <2> QED BY <1>1, <1>2, <2>1, <2>2, <2>3 DEF RequestInv, Batch
<1>8. WireInv'
  <2>1. (wire \subseteq RequestType)'
    <3>1. 1..revision \subseteq 1..revision'
      BY <1>1
    <3> QED BY <1>1, <3>1 DEF Inv, WireInv, RequestType
  <2> QED BY <1>1, <1>7, <2>1 DEF Inv, WireInv
<1> QED BY <1>1, <1>4, <1>5, <1>6, <1>8 DEF Inv, RunInv

\* An edit, a change of authority or time keeps the invariant.
LEMMA WorldSteps ==
    ASSUME Inv, Edit \/ ChangeScope \/ ChangeConsent \/ CloseWindow \/ NextPeriod
    PROVE  Inv'
<1>1. /\ WorldInv /\ paid.late \in [Ticks -> 0..1] /\ MaxFaults \in Nat /\ MaxBucket \in Nat
      /\ paid = [paid EXCEPT !.late = paid.late]
  BY Constants DEF Inv, PaidInv
<1>2. \A t \in Ticks : AuthorityInv(t)
  BY DEF Inv, RunInv
<1>3. Fault => faults' \in 0..MaxFaults
  BY <1>1 DEF Fault, WorldInv
<1>4. CASE Edit
  <2>1. WorldInv'
    BY <1>1, <1>3, <1>4 DEF Edit, WorldInv
  <2>2. \A t \in Ticks : AuthorityInv(t)'
    BY <1>2, <1>4 DEF Edit, AuthorityInv, Active, Authorized
  <2> QED BY <1>1, <1>4, <2>1, <2>2, WorldMoves DEF Edit
<1>5. CASE ChangeScope
  <2>1. WorldInv'
    BY <1>1, <1>3, <1>5 DEF ChangeScope, WorldInv
  <2>2. paid'.late = [t \in Ticks |-> 0] /\ paid' = [paid EXCEPT !.late = paid'.late]
    BY <1>5 DEF ChangeScope, Inv, PaidInv
  <2>3. \A t \in Ticks : AuthorityInv(t)'
    BY <1>2, <1>5, <2>2 DEF ChangeScope, AuthorityInv, Active, Authorized
  <2>4. revision' # revision
    BY <1>1, <1>5 DEF ChangeScope, WorldInv
  <2> QED BY <1>5, <2>1, <2>2, <2>3, <2>4, WorldMoves DEF ChangeScope
<1>6. CASE ChangeConsent
  <2>1. WorldInv'
    BY <1>1, <1>3, <1>6 DEF ChangeConsent, WorldInv
  <2>2. \A t \in Ticks : AuthorityInv(t)'
    BY <1>2, <1>6 DEF ChangeConsent, AuthorityInv, Active, Authorized
  <2> QED BY <1>1, <1>6, <2>1, <2>2, WorldMoves DEF ChangeConsent
<1>7. CASE CloseWindow
  <2>1. WorldInv'
    BY <1>1, <1>3, <1>7 DEF CloseWindow, WorldInv
  <2>2. \A t \in Ticks : AuthorityInv(t)'
    BY <1>2, <1>7 DEF CloseWindow, AuthorityInv, Active, Authorized
  <2> QED BY <1>1, <1>7, <2>1, <2>2, WorldMoves DEF CloseWindow
<1>8. CASE NextPeriod
  <2>1. WorldInv'
    BY <1>1, <1>8 DEF NextPeriod, WorldInv
  <2>2. \A t \in Ticks : AuthorityInv(t)'
    BY <1>2, <1>8 DEF NextPeriod, AuthorityInv, Active, Authorized
  <2> QED BY <1>1, <1>8, <2>1, <2>2, WorldMoves DEF NextPeriod
<1> QED BY <1>4, <1>5, <1>6, <1>7, <1>8

\* So does the start of a tick.
LEMMA StartStep ==
    ASSUME Inv, NEW t \in Ticks, Start(t)
    PROVE  Inv'
<1>1. /\ run \in [Ticks -> RunType] /\ run[t] \in RunType /\ run[t].pc = "idle"
      /\ PlanInv(t) /\ BatchInv(t) /\ AuthorityInv(t)
      /\ revision \in Nat /\ bucket \in 1..MaxBucket /\ consent \in 1..2 /\ faults \in 0..MaxFaults
  BY DEF Inv, RunInv, WorldInv, Start
<1>2. PICK n : n = [run[t] EXCEPT !.pc = "load", !.start = revision, !.bucket = bucket, !.consent = consent]
  OBVIOUS
<1>3. run' = [run EXCEPT ![t] = n]
  BY <1>2 DEF Start
<1>4. /\ n \in RunType /\ n.pc = "load" /\ n.start = revision /\ n.consent = consent
      /\ n.plan = run[t].plan /\ n.query = run[t].query
  <2>1. "load" \in States
    BY DEF States
  <2> HIDE DEF States
  <2>2. PICK p \in States, k \in Nat, u \in 1..MaxBucket, v \in 0..2, i \in RunType :
            p = "load" /\ k = revision /\ u = bucket /\ v = consent /\ i = run[t]
    BY <1>1, <2>1
  <2>3. n = [i EXCEPT !.pc = p, !.start = k, !.bucket = u, !.consent = v]
    BY <1>2, <2>2
  <2> QED BY <2>2, <2>3, RecordStarts DEF RunType
<1>5. run' \in [Ticks -> RunType] /\ run'[t] = n /\ \A u \in Ticks \ {t} : run'[u] = run[u]
  BY <1>1, <1>3, <1>4
<1>6. PlanInv(t)'
  <2>1. n.plan = <<>>
    BY <1>1, <1>4 DEF PlanInv
  <2>2. revision' = revision
    BY DEF Start, world
  <2>3. run'[t].plan = <<>> /\ run'[t].pc = "load" /\ run'[t].start <= revision'
    BY <1>1, <1>4, <1>5, <2>1, <2>2
  <2> QED BY <2>3 DEF PlanInv
<1>7. BatchInv(t)'
  BY <1>1, <1>4, <1>5 DEF BatchInv, Searching, Settling
<1>8. AuthorityInv(t)'
  BY <1>1, <1>4, <1>5 DEF AuthorityInv, Active, Start, world
<1> QED BY <1>1, <1>5, <1>6, <1>7, <1>8, TickBegins DEF Start, Moved

\* Nothing is paid.
LEMMA PaysNothing ==
    ASSUME Inv, NEW t \in Ticks, Active(t), UNCHANGED <<ledger, paid>>
    PROVE  /\ PaysFor(t) /\ EachRequestOnce' /\ paid.left \subseteq paid'.left
           /\ paid'.late[t] = 1 => ~Authorized(t)
<1>1. PaysFor(t)
  BY DEF Inv, PaidInv, PaysFor
<1>2. EachRequestOnce'
  BY DEF ledger, Inv, PaidInv, EachRequestOnce, ClaimsOf
<1>3. AuthorityInv(t)
  BY DEF Inv, RunInv
<1> QED BY <1>1, <1>2, <1>3 DEF AuthorityInv

\* Nor is it when a batch is left.
LEMMA AbandonPays ==
    ASSUME Inv, NEW t \in Ticks, Working(t), Abandon(t), claims \subseteq claims'
    PROVE  /\ PaysFor(t) /\ EachRequestOnce' /\ paid.left \subseteq paid'.left /\ Batch(t) \in paid'.left
           /\ paid'.late[t] = 1 => ~Authorized(t)
<1>1. Batch(t) \in Batches
  BY WorkingPlan
<1>2. PICK b \in Batches : b = Batch(t)
  BY <1>1
<1>3. paid' = [paid EXCEPT !.left = paid.left \cup {b}]
  BY <1>2 DEF Abandon
<1>4. paid \in [searches : [Batches -> Nat], models : [Batches -> Nat],
                left : SUBSET Batches, late : [Ticks -> 0..1]]
  BY DEF Inv, PaidInv
<1>5. /\ paid'.searches = paid.searches /\ paid'.models = paid.models /\ paid'.late = paid.late
      /\ paid'.left = paid.left \cup {b}
      /\ paid' \in [searches : [Batches -> Nat], models : [Batches -> Nat],
                    left : SUBSET Batches, late : [Ticks -> 0..1]]
  BY <1>3, <1>4
<1>6. PaysFor(t)
  BY <1>5 DEF PaysFor
<1>7. EachRequestOnce'
  BY <1>5 DEF Inv, PaidInv, EachRequestOnce, ClaimsOf
<1>8. AuthorityInv(t) /\ Active(t)
  BY DEF Inv, RunInv, Working, Active
<1> QED BY <1>2, <1>5, <1>6, <1>7, <1>8 DEF AuthorityInv

\* One more request of a claimed batch.
LEMMA PaysOnce ==
    ASSUME Inv, NEW t \in Ticks, NEW what,
           \/ run[t].pc = "send" /\ what = "searches"
           \/ run[t].pc = "sendmodel" /\ what = "models",
           NEW p, p = Pays(t, what)
    PROVE  /\ p \in [searches : [Batches -> Nat], models : [Batches -> Nat],
                     left : SUBSET Batches, late : [Ticks -> 0..1]]
           /\ p.left = paid.left
           /\ \A u \in Ticks \ {t} : p.late[u] = paid.late[u]
           /\ p.late[t] = 1 => ~Authorized(t)
           /\ \A b \in Batches \ {Batch(t)} : p.searches[b] = paid.searches[b] /\ p.models[b] = paid.models[b]
           /\ \A b \in Batches : /\ p.searches[b] <= QueriesIn(b) /\ p.models[b] <= 1
                                 /\ p.searches[b] + p.models[b] > 0 => \E c \in ClaimsOf(b) : c.admitted
           /\ run[t].pc = "send" => p.searches[Batch(t)] <= run[t].query + 1 /\ p.models[Batch(t)] = 0
<1>1. PICK b \in Batches : b = Batch(t)
  BY WorkingPlan DEF Working
<1>2. PICK l \in 0..1 : l = IF Authorized(t) THEN 0 ELSE 1
  OBVIOUS
<1>3. AuthorityInv(t) /\ BatchInv(t) /\ run[t] \in RunType
  BY DEF Inv, RunInv
<1>4. PICK S, M, L, N : S = paid.searches /\ M = paid.models /\ L = paid.left /\ N = paid.late
  OBVIOUS
<1>5. /\ S \in [Batches -> Nat] /\ M \in [Batches -> Nat] /\ L \in SUBSET Batches /\ N \in [Ticks -> 0..1]
      /\ paid = [searches |-> S, models |-> M, left |-> L, late |-> N]
  BY <1>4 DEF Inv, PaidInv
<1>6. N[t] = 0
  BY <1>3, <1>4 DEF AuthorityInv
<1>7. \A z \in Batches : /\ S[z] <= QueriesIn(z) /\ M[z] <= 1
                         /\ S[z] + M[z] > 0 => \E c \in ClaimsOf(z) : c.admitted
  BY <1>4 DEF Inv, PaidInv, EachRequestOnce
<1>8. \E c \in ClaimsOf(b) : c.admitted
  BY <1>1, <1>3 DEF BatchInv, Searching
<1>9. QueriesIn(b) \in Nat /\ run[t].query \in Nat
  BY <1>3, BatchQueries DEF RunType
<1>10. p = [paid EXCEPT ![what][b] = paid[what][b] + 1, !.late[t] = l]
  <2>1. (IF scope = "approved" /\ window = "open" /\ run[t].consent = consent THEN 0 ELSE paid.late[t] + 1) = l
    BY <1>2, <1>4, <1>6 DEF Authorized
  <2> QED BY <1>1, <2>1 DEF Pays
<1>11. CASE run[t].pc = "send"
  <2>1. what = "searches"
    BY <1>11
  <2>2. p = [searches |-> [S EXCEPT ![b] = S[b] + 1], models |-> M, left |-> L, late |-> [N EXCEPT ![t] = l]]
    BY <1>5, <1>10, <2>1
  <2>3. S[b] <= run[t].query /\ run[t].query < QueriesIn(b) /\ M[b] = 0
    BY <1>1, <1>3, <1>4, <1>11 DEF BatchInv
  <2>4. PICK A, C : A = [S EXCEPT ![b] = S[b] + 1] /\ C = [N EXCEPT ![t] = l]
    OBVIOUS
  <2>5. /\ A \in [Batches -> Nat] /\ A[b] = S[b] + 1 /\ \A z \in Batches \ {b} : A[z] = S[z]
        /\ C \in [Ticks -> 0..1] /\ C[t] = l /\ \A u \in Ticks \ {t} : C[u] = N[u]
    BY <1>5, <2>4
  <2>6. p.searches = A /\ p.models = M /\ p.left = L /\ p.late = C
    BY <2>2, <2>4
  <2>7. p \in [searches : [Batches -> Nat], models : [Batches -> Nat],
               left : SUBSET Batches, late : [Ticks -> 0..1]]
    BY <1>5, <2>2, <2>4, <2>5
  <2>8. \A z \in Batches : /\ A[z] <= QueriesIn(z) /\ M[z] <= 1
                           /\ A[z] + M[z] > 0 => \E c \in ClaimsOf(z) : c.admitted
    BY <1>5, <1>7, <1>8, <1>9, <2>3, <2>5
  <2>9. A[b] <= run[t].query + 1
    BY <1>5, <1>9, <2>3, <2>5
  <2> QED BY <1>1, <1>2, <1>4, <1>11, <2>3, <2>5, <2>6, <2>7, <2>8, <2>9
<1>12. CASE run[t].pc = "sendmodel"
  <2>1. what = "models"
    BY <1>12
  <2>2. p = [searches |-> S, models |-> [M EXCEPT ![b] = M[b] + 1], left |-> L, late |-> [N EXCEPT ![t] = l]]
    BY <1>5, <1>10, <2>1
  <2>3. M[b] = 0
    BY <1>1, <1>3, <1>4, <1>12 DEF BatchInv
  <2>4. PICK A, C : A = [M EXCEPT ![b] = M[b] + 1] /\ C = [N EXCEPT ![t] = l]
    OBVIOUS
  <2>5. /\ A \in [Batches -> Nat] /\ A[b] = 1 /\ \A z \in Batches \ {b} : A[z] = M[z]
        /\ C \in [Ticks -> 0..1] /\ C[t] = l /\ \A u \in Ticks \ {t} : C[u] = N[u]
    BY <1>5, <2>3, <2>4
  <2>6. p.searches = S /\ p.models = A /\ p.left = L /\ p.late = C
    BY <2>2, <2>4
  <2>7. p \in [searches : [Batches -> Nat], models : [Batches -> Nat],
               left : SUBSET Batches, late : [Ticks -> 0..1]]
    BY <1>5, <2>2, <2>4, <2>5
  <2>8. \A z \in Batches : /\ S[z] <= QueriesIn(z) /\ A[z] <= 1
                           /\ S[z] + A[z] > 0 => \E c \in ClaimsOf(z) : c.admitted
    BY <1>5, <1>7, <1>8, <2>5
  <2> QED BY <1>1, <1>2, <1>4, <1>12, <2>5, <2>6, <2>7, <2>8
<1> QED BY <1>11, <1>12

\* The request of a claim keeps the invariant.
LEMMA ClaimStep ==
    ASSUME Inv, NEW t \in Ticks, Claim(t)
    PROVE  Inv'
<1>1. /\ run \in [Ticks -> RunType] /\ run[t] \in RunType /\ run[t].pc = "claim"
      /\ BatchInv(t) /\ AuthorityInv(t) /\ revision \in Nat \ {0} /\ faults \in 0..MaxFaults
      /\ Working(t) /\ Active(t) /\ ~Waits(t)
  BY DEF Inv, RunInv, WorldInv, Claim, Working, Active, Waits
<1>2. UNCHANGED <<world, ledger, faults, paid>>
  BY DEF Claim
<1>3. /\ PaysFor(t) /\ EachRequestOnce' /\ paid.left \subseteq paid'.left
      /\ paid'.late[t] = 1 => ~Authorized(t)
  BY <1>1, <1>2, PaysNothing
<1>4. CASE (Over(t) \/ NextEntry(t)) /\ wire' = wire
  BY <1>1, <1>2, <1>3, <1>4, TickLeaves
<1>5. CASE /\ Authorized(t)
           /\ run' = [run EXCEPT ![t] = [run[t] EXCEPT !.pc = "claiming", !.read = revision]]
           /\ wire' = wire \cup {Request(t, "claim")}
  <2>1. PICK n : n = [run[t] EXCEPT !.pc = "claiming", !.read = revision]
    OBVIOUS
  <2>2. run' = [run EXCEPT ![t] = n]
    BY <1>5, <2>1
  <2>3. /\ n \in RunType /\ n.pc = "claiming" /\ n.read = revision
        /\ n.start = run[t].start /\ n.consent = run[t].consent /\ n.plan = run[t].plan /\ n.query = run[t].query
    <3>1. PICK p \in States, k \in Nat, i \in RunType : p = "claiming" /\ k = revision /\ i = run[t]
      BY <1>1 DEF States
    <3>2. n = [i EXCEPT !.pc = p, !.read = k]
      BY <2>1, <3>1
    <3> QED BY <3>1, <3>2, RecordReads DEF RunType
  <2>4. run' \in [Ticks -> RunType] /\ run'[t] = n /\ \A u \in Ticks \ {t} : run'[u] = run[u]
    BY <1>1, <2>2, <2>3
  <2>5. StaysOn(t)
    BY <1>1, <2>3, <2>4 DEF StaysOn, GoesOn, Moved
  <2>6. BatchInv(t)'
    BY <1>1, <2>3, <2>4 DEF BatchInv, Searching, Settling
  <2>7. PICK q : q = Request(t, "claim")
    OBVIOUS
  <2>8. q = [tick |-> t, kind |-> "claim", batch |-> Batch(t), outcome |-> run[t].outcome,
             read |-> revision, consent |-> run[t].consent]
    BY <2>3, <2>4, <2>7 DEF Request
  <2>9. q \in RequestType /\ q.tick = t /\ q.batch = Batch(t) /\ q.kind = "claim"
    <3>1. run[t].consent \in 1..2 /\ run[t].outcome \in Outcomes /\ Batch(t) \in Batches /\ revision \in 1..revision
      BY <1>1, WorkingPlan DEF AuthorityInv, RunType
    <3> QED BY <2>8, <3>1 DEF RequestType
  <2> QED BY <1>1, <1>2, <1>3, <1>5, <2>3, <2>4, <2>5, <2>6, <2>7, <2>9, TickStays DEF WaitsIn
<1> QED BY <1>4, <1>5 DEF Claim

\* The authority is looked at.
LEMMA StopStep ==
    ASSUME Inv, NEW t \in Ticks, Working(t), ~Waits(t), Abandon(t), Over(t) \/ NextEntry(t),
           UNCHANGED <<world, ledger, wire>>, faults' \in 0..MaxFaults
    PROVE  Inv'
BY AbandonPays, TickLeaves DEF ledger

\* A tick goes from one place of its batch to another.
LEMMA GoesStep ==
    ASSUME Inv, NEW t \in Ticks, Authorized(t), UNCHANGED <<world, ledger, wire, faults, paid>>,
           \/ run[t].pc = "query" /\ Goes(t, "send")
           \/ run[t].pc = "model" /\ Goes(t, "sendmodel")
    PROVE  Inv'
<1>1. /\ run \in [Ticks -> RunType] /\ run[t] \in RunType /\ BatchInv(t) /\ AuthorityInv(t)
      /\ Working(t) /\ Active(t) /\ ~Waits(t)
  BY DEF Inv, RunInv, Working, Active, Waits
<1>2. /\ PaysFor(t) /\ EachRequestOnce' /\ paid.left \subseteq paid'.left
      /\ paid'.late[t] = 1 => ~Authorized(t)
  BY <1>1, PaysNothing
<1>3. PICK p \in {"send", "sendmodel"} : /\ Goes(t, p)
                                         /\ p = "send" => run[t].pc = "query"
                                         /\ p = "sendmodel" => run[t].pc = "model"
  OBVIOUS
<1>4. PICK n : n = [run[t] EXCEPT !.pc = p]
  OBVIOUS
<1>5. run' = [run EXCEPT ![t] = n]
  BY <1>3, <1>4 DEF Goes
<1>6. n \in RunType /\ n.pc = p /\ n.start = run[t].start /\ n.consent = run[t].consent
      /\ n.plan = run[t].plan /\ n.query = run[t].query /\ n.outcome = run[t].outcome
  <2>1. PICK i \in RunType, k \in States : i = run[t] /\ k = p
    BY <1>1 DEF States
  <2>2. n = [i EXCEPT !.pc = k]
    BY <1>4, <2>1
  <2> QED BY <2>1, <2>2, RecordGoes DEF RunType
<1>7. run' \in [Ticks -> RunType] /\ run'[t] = n /\ \A u \in Ticks \ {t} : run'[u] = run[u]
  BY <1>1, <1>5, <1>6
<1>8. StaysOn(t)
  BY <1>1, <1>3, <1>6, <1>7 DEF StaysOn, GoesOn, Moved
<1>9. BatchInv(t)'
  <2>1. Batch(t)' = Batch(t) /\ claims' = claims /\ paid' = paid
    BY <1>6, <1>7 DEF Batch, ledger
  <2> QED BY <1>1, <1>3, <1>6, <1>7, <2>1 DEF BatchInv, Searching, Settling, ClaimsOf, QueriesIn
<1>10. paid'.late[t] = 0
  <2>1. paid.late[t] \in 0..1
    BY DEF Inv, PaidInv
  <2> QED BY <1>2, <2>1
<1>11. run'[t].pc \in Searching
  BY <1>3, <1>6, <1>7 DEF Searching
<1> QED BY <1>1, <1>2, <1>8, <1>9, <1>10, <1>11, TickStays

\* A request went out and was answered.
LEMMA AnswerStep ==
    ASSUME Inv, NEW t \in Ticks, UNCHANGED <<world, ledger, wire, faults>>,
           NEW what, paid' = Pays(t, what),
           \/ run[t].pc = "send" /\ what = "searches"
           \/ run[t].pc = "sendmodel" /\ what = "models",
           NEW n \in RunType, run' = [run EXCEPT ![t] = n],
           n.plan = run[t].plan, n.start = run[t].start, n.consent = run[t].consent,
           \/ /\ n.pc = "query" /\ run[t].pc = "send" /\ n.query = run[t].query + 1
              /\ n.query < QueriesIn(Batch(t))
           \/ n.pc = "settle" /\ n.outcome = "failed"
           \/ n.pc = "facts" /\ n.outcome = "searched"
           \/ n.pc = "model" /\ run[t].pc = "send"
    PROVE  Inv'
<1>1. /\ run \in [Ticks -> RunType] /\ run[t] \in RunType /\ BatchInv(t)
      /\ Working(t) /\ ~Waits(t) /\ run[t].pc \in Searching
  BY DEF Inv, RunInv, Working, Waits, Searching
<1>2. /\ paid' \in [searches : [Batches -> Nat], models : [Batches -> Nat],
                    left : SUBSET Batches, late : [Ticks -> 0..1]]
      /\ paid'.left = paid.left
      /\ \A u \in Ticks \ {t} : paid'.late[u] = paid.late[u]
      /\ paid'.late[t] = 1 => ~Authorized(t)
      /\ \A b \in Batches \ {Batch(t)} : paid'.searches[b] = paid.searches[b] /\ paid'.models[b] = paid.models[b]
      /\ \A b \in Batches : /\ paid'.searches[b] <= QueriesIn(b) /\ paid'.models[b] <= 1
                            /\ paid'.searches[b] + paid'.models[b] > 0 => \E c \in ClaimsOf(b) : c.admitted
      /\ run[t].pc = "send" => paid'.searches[Batch(t)] <= run[t].query + 1 /\ paid'.models[Batch(t)] = 0
  BY PaysOnce
<1>3. PaysFor(t)
  BY <1>1, <1>2 DEF PaysFor
<1>4. claims' = claims /\ wire' = wire
  BY DEF ledger
<1>5. EachRequestOnce'
  BY <1>2, <1>4 DEF EachRequestOnce, ClaimsOf
<1>6. run' \in [Ticks -> RunType] /\ run'[t] = n /\ \A u \in Ticks \ {t} : run'[u] = run[u]
  BY <1>1
<1>7. StaysOn(t)
  BY <1>1, <1>6 DEF StaysOn, GoesOn, Moved
<1>8. BatchInv(t)'
  <2>1. Batch(t)' = Batch(t)
    BY <1>6 DEF Batch
  <2>2. \E c \in ClaimsOf(Batch(t)) : c.attempt = t /\ c.admitted
    BY <1>1 DEF BatchInv
  <2>3. (\E c \in ClaimsOf(Batch(t)) : c.attempt = t /\ c.admitted)'
    BY <1>4, <2>1, <2>2 DEF ClaimsOf
  <2> QED BY <1>2, <1>6, <2>1, <2>3 DEF BatchInv, Searching, Settling, QueriesIn
<1>9. run'[t].pc \in Searching \cup Settling /\ run'[t].pc \notin {"send", "sendmodel"}
  BY <1>6 DEF Searching, Settling
<1> QED BY <1>1, <1>2, <1>3, <1>4, <1>5, <1>7, <1>8, <1>9, TickStays

\* A query, or the model request, that is sent and answered keeps it.
LEMMA SendStep ==
    ASSUME Inv, NEW t \in Ticks, Send(t) \/ SendModel(t)
    PROVE  Inv'
<1>1. run[t] \in RunType /\ UNCHANGED <<world, ledger, wire, faults>>
  BY DEF Inv, RunInv, Send, SendModel
<1>2. CASE Send(t)
  <2>1. PICK next \in IF run[t].query + 1 < QueriesIn(Batch(t))
                      THEN {[pc |-> "query", outcome |-> "none"]} ELSE AfterQueries :
            run' = [run EXCEPT ![t] = [run[t] EXCEPT !.query = run[t].query + 1, !.pc = next.pc,
                                                     !.outcome = next.outcome]]
    BY <1>2 DEF Send
  <2>2. PICK n : n = [run[t] EXCEPT !.query = run[t].query + 1, !.pc = next.pc, !.outcome = next.outcome]
    OBVIOUS
  <2>3. next.pc \in States /\ next.outcome \in Outcomes
    BY <2>1 DEF AfterQueries, States, Outcomes
  <2>4. /\ n \in RunType /\ n.pc = next.pc /\ n.outcome = next.outcome /\ n.query = run[t].query + 1
        /\ n.plan = run[t].plan /\ n.start = run[t].start /\ n.consent = run[t].consent
    <3>0. run[t].query + 1 \in Nat
      BY <1>1 DEF RunType
    <3>1. PICK p \in States, w \in Outcomes, k \in Nat, i \in RunType :
              p = next.pc /\ w = next.outcome /\ k = run[t].query + 1 /\ i = run[t]
      BY <1>1, <2>3, <3>0
    <3>2. n = [i EXCEPT !.query = k, !.pc = p, !.outcome = w]
      BY <2>2, <3>1
    <3> QED BY <3>1, <3>2, RecordSends DEF RunType
  <2>5. run' = [run EXCEPT ![t] = n]
    BY <2>1, <2>2
  <2>6. \/ next.pc = "query" /\ run[t].query + 1 < QueriesIn(Batch(t))
        \/ next.pc = "settle" /\ next.outcome = "failed"
        \/ next.pc = "facts" /\ next.outcome = "searched"
        \/ next.pc = "model"
    BY <2>1 DEF AfterQueries
  <2>7. run[t].pc = "send" /\ paid' = Pays(t, "searches")
    BY <1>2 DEF Send
  <2> QED BY <1>1, <2>4, <2>5, <2>6, <2>7, AnswerStep
<1>3. CASE SendModel(t)
  <2>1. PICK next \in {[pc |-> "facts", outcome |-> "searched"], [pc |-> "settle", outcome |-> "failed"]} :
            run' = [run EXCEPT ![t] = [run[t] EXCEPT !.pc = next.pc, !.outcome = next.outcome]]
    BY <1>3 DEF SendModel
  <2>2. PICK n : n = [run[t] EXCEPT !.pc = next.pc, !.outcome = next.outcome]
    OBVIOUS
  <2>3. next.pc \in States /\ next.outcome \in Outcomes
    BY <2>1 DEF States, Outcomes
  <2>4. /\ n \in RunType /\ n.pc = next.pc /\ n.outcome = next.outcome
        /\ n.plan = run[t].plan /\ n.start = run[t].start /\ n.consent = run[t].consent
    <3>1. PICK p \in States, w \in Outcomes, i \in RunType : p = next.pc /\ w = next.outcome /\ i = run[t]
      BY <1>1, <2>3
    <3>2. n = [i EXCEPT !.pc = p, !.outcome = w]
      BY <2>2, <3>1
    <3> QED BY <3>1, <3>2, RecordFinds DEF RunType
  <2>5. run' = [run EXCEPT ![t] = n]
    BY <2>1, <2>2
  <2>6. \/ next.pc = "settle" /\ next.outcome = "failed"
        \/ next.pc = "facts" /\ next.outcome = "searched"
    BY <2>1
  <2>7. run[t].pc = "sendmodel" /\ paid' = Pays(t, "models")
    BY <1>3 DEF SendModel
  <2> QED BY <1>1, <2>4, <2>5, <2>6, <2>7, AnswerStep
<1> QED BY <1>2, <1>3

\* So does one whose result is lost.
LEMMA LoseStep ==
    ASSUME Inv, NEW t \in Ticks, LoseResult(t)
    PROVE  Inv'
<1>1. /\ UNCHANGED <<world, ledger, wire>> /\ NextEntry(t) /\ Working(t) /\ run[t].pc \in Searching
      /\ claims' = claims
  BY DEF LoseResult, Working, Searching, ledger
<1>2. faults' \in 0..MaxFaults
  BY Constants DEF LoseResult, Fault, Inv, WorldInv
<1>3. PICK what : /\ \/ run[t].pc = "send" /\ what = "searches"
                     \/ run[t].pc = "sendmodel" /\ what = "models"
                  /\ paid' = [Pays(t, what) EXCEPT !.left = @ \cup {Batch(t)}]
  BY DEF LoseResult
<1>4. PICK p : p = Pays(t, what)
  OBVIOUS
<1>5. /\ p \in [searches : [Batches -> Nat], models : [Batches -> Nat],
                left : SUBSET Batches, late : [Ticks -> 0..1]]
      /\ p.left = paid.left
      /\ \A u \in Ticks \ {t} : p.late[u] = paid.late[u]
      /\ p.late[t] = 1 => ~Authorized(t)
      /\ \A b \in Batches \ {Batch(t)} : p.searches[b] = paid.searches[b] /\ p.models[b] = paid.models[b]
      /\ \A b \in Batches : /\ p.searches[b] <= QueriesIn(b) /\ p.models[b] <= 1
                            /\ p.searches[b] + p.models[b] > 0 => \E c \in ClaimsOf(b) : c.admitted
  BY <1>3, <1>4, PaysOnce
<1>6. PICK b \in Batches : b = Batch(t)
  BY <1>1, WorkingPlan
<1>7. paid' = [p EXCEPT !.left = p.left \cup {b}]
  BY <1>3, <1>4, <1>6
<1>8. /\ paid'.searches = p.searches /\ paid'.models = p.models /\ paid'.late = p.late
      /\ paid'.left = p.left \cup {b}
      /\ paid' \in [searches : [Batches -> Nat], models : [Batches -> Nat],
                    left : SUBSET Batches, late : [Ticks -> 0..1]]
  BY <1>5, <1>7
<1>9. PaysFor(t)
  BY <1>1, <1>5, <1>8 DEF PaysFor
<1>10. EachRequestOnce'
  BY <1>1, <1>5, <1>8 DEF EachRequestOnce, ClaimsOf
<1> QED BY <1>1, <1>2, <1>5, <1>6, <1>8, <1>9, <1>10, TickLeaves

\* Faults.
LEMMA FaultStep ==
    ASSUME Inv, NEW t \in Ticks, GiveUp(t) \/ Crash(t)
    PROVE  Inv'
<1>1. UNCHANGED <<world, ledger, wire>> /\ claims' = claims
  BY DEF GiveUp, Crash, ledger
<1>2. faults' \in 0..MaxFaults
  BY Constants DEF GiveUp, Crash, Fault, Inv, WorldInv
<1>3. CASE GiveUp(t)
  <2>1. Working(t) /\ Abandon(t) /\ NextEntry(t)
    BY <1>3 DEF GiveUp, Waits, Working
  <2> QED BY <1>1, <1>2, <2>1, AbandonPays, TickLeaves
<1>4. CASE Crash(t) /\ run[t].pc \notin {"load", "claim"}
  <2>1. Working(t) /\ Abandon(t) /\ Over(t)
    BY <1>4 DEF Crash, Active, Working
  <2> QED BY <1>1, <1>2, <2>1, AbandonPays, TickLeaves
<1>5. CASE Crash(t) /\ run[t].pc = "claim"
  <2>1. Working(t) /\ UNCHANGED paid /\ Over(t) /\ Active(t)
    BY <1>5 DEF Crash, Active, Working
  <2> QED BY <1>1, <1>2, <1>5, <2>1, PaysNothing, TickLeaves
<1>6. CASE Crash(t) /\ run[t].pc = "load"
  <2>1. UNCHANGED paid /\ Over(t)
    BY <1>6 DEF Crash
  <2>2. Moved(t) /\ run'[t].pc = "done" /\ run'[t].plan = <<>> /\ run'[t].start = run[t].start
    BY <2>1, OverMoves
  <2>3. PlanInv(t)' /\ BatchInv(t)' /\ AuthorityInv(t)'
    <3>1. PlanInv(t) /\ revision' = revision
      BY <1>1 DEF Inv, RunInv, world
    <3> QED BY <2>2, <3>1 DEF PlanInv, BatchInv, AuthorityInv, Active, Searching, Settling
  <2> QED BY <1>1, <1>2, <1>6, <2>1, <2>2, <2>3, TickBegins
<1> QED BY <1>3, <1>4, <1>5, <1>6

\* The authority is looked at before a request is sent out.
LEMMA TakeStep ==
    ASSUME Inv, NEW t \in Ticks, TakeSlot(t) \/ TakeModel(t)
    PROVE  Inv'
<1>1. /\ UNCHANGED <<world, ledger, wire, faults>> /\ Working(t) /\ ~Waits(t)
      /\ faults' \in 0..MaxFaults
  BY DEF TakeSlot, TakeModel, Working, Waits, Inv, WorldInv
<1>2. CASE Authorized(t)
  BY <1>1, <1>2, GoesStep DEF TakeSlot, TakeModel
<1>3. CASE ~Authorized(t)
  <2>1. Abandon(t) /\ (Over(t) \/ NextEntry(t))
    BY <1>3 DEF TakeSlot, TakeModel, StopsAfterClaim
  <2> QED BY <1>1, <2>1, StopStep
<1> QED BY <1>2, <1>3

\* The end of a batch is written.
LEMMA WriteStep ==
    ASSUME Inv, NEW t \in Ticks, Settle(t) \/ WriteFacts(t)
    PROVE  Inv'
<1>1. /\ UNCHANGED <<world, ledger, faults>> /\ Working(t) /\ Active(t) /\ ~Waits(t)
      /\ faults' \in 0..MaxFaults
  BY DEF Settle, WriteFacts, Working, Active, Waits, Inv, WorldInv
<1>2. CASE ~Authorized(t)
  <2>1. Abandon(t) /\ (Over(t) \/ NextEntry(t)) /\ wire' = wire
    BY <1>2 DEF Settle, WriteFacts, StopsAfterClaim
  <2> QED BY <1>1, <2>1, StopStep
<1>3. CASE Authorized(t)
  <2>1. PICK p, k : /\ run' = [run EXCEPT ![t] = [run[t] EXCEPT !.pc = p, !.read = revision]]
                    /\ wire' = wire \cup {Request(t, k)}
                    /\ UNCHANGED paid
                    /\ \/ run[t].pc = "settle" /\ p = "settling" /\ k = "checkpoint"
                       \/ run[t].pc = "facts" /\ p = "writing" /\ k = "facts"
    BY <1>3 DEF Settle, WriteFacts
  <2>2. /\ run \in [Ticks -> RunType] /\ run[t] \in RunType
        /\ BatchInv(t) /\ AuthorityInv(t) /\ revision \in Nat \ {0}
    BY DEF Inv, RunInv, WorldInv
  <2>3. /\ PaysFor(t) /\ EachRequestOnce' /\ paid.left \subseteq paid'.left
        /\ paid'.late[t] = 1 => ~Authorized(t)
    BY <1>1, <2>1, PaysNothing
  <2>4. PICK n : n = [run[t] EXCEPT !.pc = p, !.read = revision]
    OBVIOUS
  <2>5. run' = [run EXCEPT ![t] = n]
    BY <2>1, <2>4
  <2>6. /\ n \in RunType /\ n.pc = p /\ n.read = revision /\ n.outcome = run[t].outcome
        /\ n.start = run[t].start /\ n.consent = run[t].consent /\ n.plan = run[t].plan /\ n.query = run[t].query
    <3>1. PICK j \in States, l \in Nat, i \in RunType : j = p /\ l = revision /\ i = run[t]
      BY <2>1, <2>2 DEF States
    <3>2. n = [i EXCEPT !.pc = j, !.read = l]
      BY <2>4, <3>1
    <3> QED BY <3>1, <3>2, RecordReads DEF RunType
  <2>7. run' \in [Ticks -> RunType] /\ run'[t] = n /\ \A u \in Ticks \ {t} : run'[u] = run[u]
    BY <2>2, <2>5, <2>6
  <2>8. StaysOn(t)
    BY <1>1, <2>1, <2>6, <2>7 DEF StaysOn, GoesOn, Moved
  <2>9. BatchInv(t)'
    <3>1. Batch(t)' = Batch(t) /\ claims' = claims /\ paid' = paid
      BY <1>1, <2>1, <2>6, <2>7 DEF Batch, ledger
    <3> QED BY <2>1, <2>2, <2>6, <2>7, <3>1 DEF BatchInv, Searching, Settling, ClaimsOf, QueriesIn
  <2>10. PICK q : q = Request(t, k)
    OBVIOUS
  <2>11. q = [tick |-> t, kind |-> k, batch |-> Batch(t), outcome |-> run[t].outcome,
              read |-> revision, consent |-> run[t].consent]
    BY <2>6, <2>7, <2>10 DEF Request
  <2>12. q \in RequestType /\ q.tick = t /\ q.batch = Batch(t) /\ q.kind = k /\ q.outcome = run[t].outcome
    <3>1. run[t].consent \in 1..2 /\ run[t].outcome \in Outcomes /\ Batch(t) \in Batches /\ revision \in 1..revision
      BY <1>1, <2>2, WorkingPlan DEF AuthorityInv, RunType
    <3> QED BY <2>1, <2>11, <3>1 DEF RequestType
  <2>13. /\ q.kind = "facts" => q.outcome = "searched" /\ scope = "approved"
         /\ q.kind = "checkpoint" => q.outcome \in {"failed", "exhausted"}
    BY <1>3, <2>1, <2>2, <2>12 DEF BatchInv, Settling, Authorized
  <2>14. run'[t].pc = WaitsIn(q.kind) /\ run'[t].pc \in Searching \cup Settling /\ run'[t].pc \notin {"send", "sendmodel"}
    BY <2>1, <2>6, <2>7, <2>12 DEF WaitsIn, Searching, Settling
  <2>15. wire' = wire \cup {q}
    BY <2>1, <2>10
  <2> QED BY <1>1, <2>3, <2>8, <2>9, <2>12, <2>13, <2>14, <2>15, TickStays
<1> QED BY <1>2, <1>3

-----------------------------------------------------------------------------
(* What a tick reads off the ledger *)

\* A cycle begins with its first batch.
LEMMA CycleStart ==
    ASSUME Inv, NEW c \in claims
    PROVE  /\ c.batch \in Batches /\ c.batch = <<c.batch[1], c.batch[2], c.batch[3]>>
           /\ \E f \in claims : f.batch = <<c.batch[1], c.batch[2], 0>>
<1>1. c.batch \in Batches /\ ChainInv
  BY DEF Inv, LedgerInv, ClaimType
<1>2. c.batch = <<c.batch[1], c.batch[2], c.batch[3]>> /\ c.batch[3] \in Nat
  BY <1>1, BatchParts, BatchQueries
<1>3. CASE c.batch[3] = 0
  BY <1>1, <1>2, <1>3
<1>4. CASE c.batch[3] > 0
  <2>1. 0 \in 0..(c.batch[3] - 1)
    BY <1>2, <1>4
  <2>2. SettlementsOf(<<c.batch[1], c.batch[2], 0>>) # {}
    BY <1>1, <2>1 DEF ChainInv
  <2>3. PICK x \in settled : x.batch = <<c.batch[1], c.batch[2], 0>>
    BY <2>2 DEF SettlementsOf
  <2> QED BY <1>1, <1>2, <2>3 DEF ChainInv, ClaimsOf
<1> QED BY <1>2, <1>1, <1>3, <1>4

\* Some claim of a set is the last.
LEMMA LastClaim ==
    ASSUME Inv, NEW F \in SUBSET claims, F # {}
    PROVE  \E m \in F : \A d \in F : d.revision <= m.revision
<1>1. \A c \in F : c.revision \in 1..revision
  BY DEF Inv, LedgerInv, ClaimType
<1>2. revision \in Nat
  BY DEF Inv, WorldInv
<1> DEFINE V == {revision - c.revision : c \in F}
<1>3. PICK n \in V : \A m \in V : ~(<<m, n>> \in OpToRel(<, Nat))
  <2>1. V \subseteq Nat /\ V # {}
    BY <1>1, <1>2
  <2> HIDE DEF V
  <2> QED BY <2>1, WFMin, NatLessThanWellFounded
<1>4. PICK c \in F : n = revision - c.revision
  OBVIOUS
<1>5. ASSUME NEW d \in F PROVE d.revision <= c.revision
  <2>1. PICK k \in V : k = revision - d.revision
    OBVIOUS
  <2>2. k \in Nat /\ n \in Nat
    BY <1>1, <1>2, <1>4, <2>1
  <2>3. ~(k < n)
    BY <1>3, <2>2 DEF OpToRel
  <2> QED BY <1>1, <1>2, <1>4, <2>1, <2>3
<1> QED BY <1>5

\* The latest cycle is that of the last first batch.
IsLatest(m, s, t) ==
    /\ m.batch[1] = s /\ m.batch[3] = 0 /\ m.batch[2] = LatestCycle(s, t)
    /\ \A d \in claims : d.batch[1] = s /\ d.batch[3] = 0 => d.revision <= m.revision

\* The latest cycle is the one of the first batch that was claimed last.
LEMMA LatestIs ==
    ASSUME Inv, NEW s, NEW t, NEW c \in claims, c.batch[1] = s
    PROVE  \E m \in claims : IsLatest(m, s, t)
<1> DEFINE F == {d \in claims : d.batch[1] = s /\ d.batch[3] = 0}
           P(x) == x \in F /\ \A d \in F : d.revision <= x.revision
<1>1. F # {}
  BY CycleStart
<1>2. \E m : P(m)
  <2> HIDE DEF F
  <2>1. F \in SUBSET claims
    BY DEF F
  <2> QED BY <1>1, <2>1, LastClaim
<1>3. P(CHOOSE x : P(x))
  <2> HIDE DEF P
  <2> QED BY <1>2
<1>4. PICK m : m = CHOOSE x \in F : \A d \in F : d.revision <= x.revision
  OBVIOUS
<1>5. m \in F /\ \A d \in F : d.revision <= m.revision
  BY <1>2, <1>4
<1>6. LatestCycle(s, t) = m.batch[2]
  BY <1>1, <1>4 DEF LatestCycle
<1> QED BY <1>5, <1>6 DEF IsLatest

\* It is a period.
LEMMA LatestType ==
    ASSUME Inv, NEW s \in Sources, NEW t \in Ticks
    PROVE  LatestCycle(s, t) \in 1..MaxBucket
<1>1. CASE \E c \in claims : c.batch[1] = s
  <2>1. PICK m \in claims : m.batch[2] = LatestCycle(s, t)
    BY <1>1, LatestIs DEF IsLatest
  <2>2. m.batch \in Batches
    BY DEF Inv, LedgerInv, ClaimType
  <2> QED BY <2>1, <2>2, BatchParts
<1>2. CASE ~\E c \in claims : c.batch[1] = s
  <2>1. LatestCycle(s, t) = run[t].bucket
    BY <1>2 DEF LatestCycle
  <2> QED BY <2>1 DEF Inv, RunInv, RunType
<1> QED BY <1>1, <1>2

\* What is settled of a cycle.
Done(s, cycle) == {x \in settled : x.batch[1] = s /\ x.batch[2] = cycle}

\* The settlements of a cycle, by their index.
LEMMA DoneOf ==
    ASSUME Inv, NEW s, NEW cycle, NEW x \in Done(s, cycle)
    PROVE  /\ x.batch \in Batches /\ x.batch = <<s, cycle, x.batch[3]>> /\ x.batch[3] \in Nat
           /\ x.batch[3] \in 0..(BatchCount(s) - 1)
           /\ \A y \in Done(s, cycle) : y.batch[3] = x.batch[3] => y = x
           /\ \E c \in claims : c.batch = x.batch /\ (c.admitted \/ x.outcome = "exhausted")
<1>1. \A y \in Done(s, cycle) : y \in settled /\ y.batch \in Batches /\ y.batch = <<s, cycle, y.batch[3]>>
  <2> TAKE y \in Done(s, cycle)
  <2>1. y \in settled /\ y.batch \in Batches /\ y.batch[1] = s /\ y.batch[2] = cycle
    BY DEF Done, Inv, LedgerInv, SettlementType
  <2>2. y.batch = <<y.batch[1], y.batch[2], y.batch[3]>>
    BY <2>1, BatchParts
  <2> QED BY <2>1, <2>2
<1>2. x.batch[3] \in 0..(BatchCount(s) - 1)
  BY <1>1, BatchParts DEF Done
<1>3. ChainInv
  BY DEF Inv, LedgerInv
<1> QED BY <1>1, <1>2, <1>3 DEF ChainInv, ClaimsOf

\* No more is settled of a cycle than it has batches.
LEMMA DoneBounded ==
    ASSUME Inv, NEW s \in Sources, NEW cycle
    PROVE  Cardinality(Done(s, cycle)) \in 0..BatchCount(s) /\ BatchCount(s) \in Nat
<1>1. BatchCount(s) \in Nat
  BY Constants, CeilDivBound DEF BatchCount
<1>2. IsFiniteSet(0..(BatchCount(s) - 1)) /\ Cardinality(0..(BatchCount(s) - 1)) = BatchCount(s)
  BY <1>1, FS_Interval
<1> DEFINE f == [x \in Done(s, cycle) |-> x.batch[3]]
<1>3. f \in Injection(Done(s, cycle), 0..(BatchCount(s) - 1))
  <2>1. \A x \in Done(s, cycle) : f[x] \in 0..(BatchCount(s) - 1)
    BY DoneOf
  <2>2. \A x, y \in Done(s, cycle) : f[x] = f[y] => x = y
    BY DoneOf
  <2>3. f \in [Done(s, cycle) -> 0..(BatchCount(s) - 1)]
    BY <2>1
  <2> HIDE DEF f
  <2> QED BY <2>2, <2>3 DEF Injection, IsInjective
<1> HIDE DEF f
<1>4. IsFiniteSet(Done(s, cycle)) /\ Cardinality(Done(s, cycle)) <= BatchCount(s)
  BY <1>2, <1>3, FS_Injection
<1>5. Cardinality(Done(s, cycle)) \in Nat
  BY <1>4, FS_CardinalityType
<1> QED BY <1>1, <1>4, <1>5

\* A declined hold in the latest cycle ends it: exhausted when it is settled,
\* uncertain before.
LEMMA DeclinedBlocks ==
    ASSUME Inv, NEW t \in Ticks, NEW c \in claims, ~c.admitted, NEW s, s = c.batch[1],
           c.batch[2] = LatestCycle(s, t), NEW e
    PROVE  Progress(s, t, e).state \in {"exhausted", "uncertain"}
<1>1. PICK cycle : cycle = LatestCycle(s, t)
  OBVIOUS
<1>2. PICK j : j = c.batch[3]
  OBVIOUS
<1>3. /\ c.batch \in Batches /\ c.batch = <<s, cycle, j>>
      /\ c.batch[1] = s /\ c.batch[2] = cycle /\ c.batch[3] = j
      /\ s \in Sources /\ j \in 0..(BatchCount(s) - 1) /\ j \in Nat /\ BatchCount(s) \in Nat /\ ChainInv
  <2>1. c.batch \in Batches /\ c.batch = <<s, cycle, j>> /\ ChainInv
    BY <1>1, <1>2, CycleStart DEF Inv, LedgerInv
  <2>2. s \in Sources /\ j \in 0..(BatchCount(s) - 1)
    BY <1>2, <2>1, BatchParts
  <2> QED BY <2>1, <2>2, BatchQueries
<1> DEFINE done == Done(s, cycle)
<1>4. done = {x \in settled : x.batch[1] = s /\ x.batch[2] = LatestCycle(s, t)}
  BY <1>1 DEF Done
<1>5. CASE \E x \in done : x.batch = c.batch
  <2>1. PICK x \in done : x.batch = c.batch
    BY <1>5
  <2>2. x.outcome = "exhausted"
    <3>1. PICK d \in claims : d.batch = x.batch /\ (d.admitted \/ x.outcome = "exhausted")
      BY DoneOf
    <3>2. d = c
      BY <1>3, <2>1, <3>1 DEF ChainInv
    <3> QED BY <3>1, <3>2
  <2> QED BY <1>4, <2>1, <2>2 DEF Progress
<1>6. CASE ~\E x \in done : x.batch = c.batch
  <2> DEFINE f == [x \in done |-> x.batch[3]]
  <2>1. ASSUME NEW x \in done PROVE x.batch[3] \in 0..(j - 1)
    <3>1. PICK k \in Nat : k = x.batch[3] /\ x.batch = <<s, cycle, k>>
      BY DoneOf
    <3>2. PICK d \in claims : d.batch = x.batch
      BY DoneOf
    <3>3. k # j
      BY <1>3, <1>6, <3>1
    <3>4. ~(j < k)
      <4> SUFFICES ASSUME j < k PROVE FALSE
        OBVIOUS
      <4>1. j \in 0..(d.batch[3] - 1)
        BY <1>3, <3>1, <3>2
      <4>2. SettlementsOf(<<d.batch[1], d.batch[2], j>>) # {}
        BY <1>3, <4>1 DEF ChainInv
      <4>3. PICK z \in settled : z.batch = <<s, cycle, j>>
        BY <3>1, <3>2, <4>2 DEF SettlementsOf
      <4> QED BY <1>3, <1>6, <4>3 DEF Done
    <3> QED BY <1>3, <3>1, <3>3, <3>4
  <2>2. \A x, y \in done : f[x] = f[y] => x = y
    BY DoneOf
  <2>3. ASSUME NEW i \in 0..(j - 1) PROVE \E x \in done : f[x] = i
    <3>0. i \in 0..(c.batch[3] - 1)
      BY <1>3, <2>3
    <3>1. SettlementsOf(<<c.batch[1], c.batch[2], i>>) # {}
      BY <1>3, <3>0 DEF ChainInv
    <3>2. PICK x \in settled : x.batch = <<c.batch[1], c.batch[2], i>>
      BY <3>1 DEF SettlementsOf
    <3> QED BY <1>3, <3>2 DEF Done
  <2>4. f \in Bijection(done, 0..(j - 1))
    <3>1. f \in [done -> 0..(j - 1)]
      BY <2>1
    <3> HIDE DEF f, done
    <3> QED BY <2>2, <2>3, <3>1 DEF Bijection, Injection, Surjection, IsInjective
  <2>5. Cardinality(done) = j
    <3> HIDE DEF f, done
    <3>1. IsFiniteSet(0..(j - 1)) /\ Cardinality(0..(j - 1)) = j
      <4>1. j \in Nat /\ j - 1 \in Int
        BY <1>3
      <4>2. IsFiniteSet(0..(j - 1)) /\ Cardinality(0..(j - 1)) = IF 0 > j - 1 THEN 0 ELSE (j - 1) - 0 + 1
        BY <4>1, FS_Interval
      <4> QED BY <4>1, <4>2
    <3> QED BY <2>4, <3>1, FS_Injection DEF Bijection
  <2>6. c \in ClaimsOf(<<s, LatestCycle(s, t), j>>) /\ j # BatchCount(s)
    <3>1. c.batch = <<s, LatestCycle(s, t), j>>
      BY <1>1, <1>3
    <3>2. j # BatchCount(s)
      BY <1>3
    <3> QED BY <3>1, <3>2 DEF ClaimsOf
  <2> QED BY <1>4, <2>5, <2>6 DEF Progress
<1> QED BY <1>5, <1>6

\* What is ready is a batch, of the latest cycle or the first of its own.
LEMMA ReadyBatch ==
    ASSUME Inv, NEW t \in Ticks, NEW s \in Sources, NEW e, Progress(s, t, e).state = "ready",
           NEW b, b = Progress(s, t, e).batch
    PROVE  b \in Batches /\ b[1] = s /\ (b[2] = LatestCycle(s, t) \/ b[3] = 0)
<1>1. PICK cycle \in 1..MaxBucket : cycle = LatestCycle(s, t)
  BY LatestType
<1>2. PICK next \in 0..BatchCount(s) : next = Cardinality(Done(s, cycle))
  BY DoneBounded
<1>3. BatchCount(s) \in Nat \ {0} /\ run[t].bucket \in 1..MaxBucket
  <2>1. BatchCount(s) \in Nat \ {0}
    BY Constants, CeilDivBound DEF BatchCount
  <2> QED BY <2>1 DEF Inv, RunInv, RunType
<1>4. \/ b = <<s, run[t].bucket, 0>>
      \/ b = <<s, cycle, next>> /\ next # BatchCount(s)
  <2>1. Done(s, cycle) = {x \in settled : x.batch[1] = s /\ x.batch[2] = LatestCycle(s, t)}
    BY <1>1 DEF Done
  <2>2. PICK p : p = Progress(s, t, e)
    OBVIOUS
  <2>3. \/ p = [state |-> "exhausted"] \/ p = [state |-> "not_due"] \/ p = [state |-> "uncertain"]
        \/ p = [state |-> "ready", batch |-> <<s, run[t].bucket, 0>>]
        \/ p = [state |-> "ready", batch |-> <<s, cycle, next>>] /\ next # BatchCount(s)
    BY <1>1, <1>2, <2>1, <2>2 DEF Progress
  <2>4. p.state = "ready" /\ b = p.batch
    BY <2>2
  <2> QED BY <2>3, <2>4
<1>5. CASE b = <<s, run[t].bucket, 0>>
  <2>1. b[1] = s /\ b[2] = run[t].bucket /\ b[3] = 0 /\ b = <<b[1], b[2], b[3]>>
    BY <1>5
  <2>2. b[3] \in 0..(BatchCount(s) - 1)
    BY <1>3, <2>1
  <2> QED BY <1>3, <2>1, <2>2, BatchParts
<1>6. CASE b = <<s, cycle, next>> /\ next # BatchCount(s)
  <2>1. b[1] = s /\ b[2] = cycle /\ b[3] = next /\ b = <<b[1], b[2], b[3]>>
    BY <1>6
  <2>2. b[3] \in 0..(BatchCount(s) - 1)
    BY <1>3, <1>6, <2>1
  <2> QED BY <1>1, <2>1, <2>2, BatchParts
<1> QED BY <1>4, <1>5, <1>6

\* No declined hold forbids it: one in the latest cycle would have ended that.
LEMMA ReadyMayClaim ==
    ASSUME Inv, NEW t \in Ticks, NEW s \in Sources, NEW e, Progress(s, t, e).state = "ready",
           NEW b, b = Progress(s, t, e).batch
    PROVE  MayClaim(t, b)
<1>1. b \in Batches /\ b[1] = s /\ (b[2] = LatestCycle(s, t) \/ b[3] = 0)
  BY ReadyBatch
<1> SUFFICES ASSUME NEW c \in claims, Blocks(c, b) PROVE FALSE
  BY DEF MayClaim
<1>2. ~c.admitted /\ c.batch[1] = s /\ c.batch[2] = LatestCycle(s, t)
  BY <1>1, BatchParts, BatchQueries DEF Blocks
<1> QED BY <1>2, DeclinedBlocks

\* A tick that reads its plan off the ledger keeps the invariant.
LEMMA LoadStep ==
    ASSUME Inv, NEW t \in Ticks, Load(t)
    PROVE  Inv'
<1>1. /\ run \in [Ticks -> RunType] /\ run[t] \in RunType /\ run[t].pc = "load"
      /\ PlanInv(t) /\ BatchInv(t) /\ AuthorityInv(t) /\ faults \in 0..MaxFaults
      /\ UNCHANGED <<world, ledger, wire, faults, paid>> /\ revision' = revision
      /\ run[t].start \in Nat /\ run[t].start <= revision
  BY DEF Load, Inv, RunInv, WorldInv, world, PlanInv, RunType
<1>2. CASE Over(t)
  <2>1. Moved(t) /\ run'[t].pc = "done" /\ run'[t].plan = <<>> /\ run'[t].start = run[t].start
    BY <1>2, OverMoves
  <2>2. PlanInv(t)' /\ BatchInv(t)' /\ AuthorityInv(t)'
    BY <1>1, <2>1 DEF PlanInv, BatchInv, AuthorityInv, Active, Searching, Settling
  <2> QED BY <1>1, <2>1, <2>2, TickBegins
<1>3. CASE \E elapsed \in [Sources -> BOOLEAN] :
             LET progress(s) == Progress(s, t, elapsed[s])
                 due == {i \in DOMAIN SourceOrder : progress(SourceOrder[i]).state = "ready"}
             IN  /\ due # {}
                 /\ \E at \in [1..Cardinality(due) -> due] :
                      /\ Rising(at)
                      /\ run' = [run EXCEPT ![t] = [@ EXCEPT !.pc = "claim",
                            !.plan = [i \in DOMAIN at |-> progress(SourceOrder[at[i]]).batch]]]
  <2>1. PICK elapsed \in [Sources -> BOOLEAN] :
             LET progress(s) == Progress(s, t, elapsed[s])
                 due == {i \in DOMAIN SourceOrder : progress(SourceOrder[i]).state = "ready"}
             IN  /\ due # {}
                 /\ \E at \in [1..Cardinality(due) -> due] :
                      /\ Rising(at)
                      /\ run' = [run EXCEPT ![t] = [@ EXCEPT !.pc = "claim",
                            !.plan = [i \in DOMAIN at |-> progress(SourceOrder[at[i]]).batch]]]
    BY <1>3
  <2> DEFINE progress(s) == Progress(s, t, elapsed[s])
  <2>2. PICK due : due = {i \in DOMAIN SourceOrder : progress(SourceOrder[i]).state = "ready"}
    OBVIOUS
  <2>3. PICK at \in [1..Cardinality(due) -> due] :
            /\ Rising(at)
            /\ run' = [run EXCEPT ![t] = [run[t] EXCEPT !.pc = "claim",
                            !.plan = [i \in DOMAIN at |-> progress(SourceOrder[at[i]]).batch]]]
    BY <2>1, <2>2
  <2>4. due # {} /\ IsFiniteSet(due) /\ Cardinality(due) \in Nat \ {0}
    <3>1. due # {}
      BY <2>1, <2>2
    <3>2. due \subseteq 1..Len(SourceOrder) /\ Len(SourceOrder) \in Nat
      BY <2>2, PlanAssumption
    <3>3. IsFiniteSet(due)
      <4>1. IsFiniteSet(1..Len(SourceOrder))
        BY <3>2, FS_Interval
      <4> QED BY <3>2, <4>1, FS_Subset
    <3> QED BY <3>1, <3>3, FS_CardinalityType, FS_EmptySet
  <2>5. PICK z : z = [i \in DOMAIN at |-> progress(SourceOrder[at[i]]).batch]
    OBVIOUS
  <2>6. DOMAIN z = 1..Cardinality(due) /\ DOMAIN at = 1..Cardinality(due) /\ \A i \in DOMAIN z : at[i] \in due
    BY <2>3, <2>5
  <2>7. ASSUME NEW i \in DOMAIN z
        PROVE  z[i] \in Batches /\ z[i][1] = SourceOrder[at[i]] /\ MayClaim(t, z[i])
    <3>1. at[i] \in DOMAIN SourceOrder /\ progress(SourceOrder[at[i]]).state = "ready"
      BY <2>2, <2>6
    <3>2. PICK s \in Sources : s = SourceOrder[at[i]]
      BY <3>1 DEF Sources, Range
    <3>3. z[i] = progress(s).batch /\ progress(s).state = "ready"
      BY <2>5, <2>6, <3>1, <3>2
    <3> QED BY <3>2, <3>3, ReadyBatch, ReadyMayClaim
  <2>8. \A i, j \in DOMAIN z : z[i] = z[j] => i = j
    <3>1. SUFFICES ASSUME NEW i \in DOMAIN z, NEW j \in DOMAIN z, z[i] = z[j], i # j PROVE FALSE
      OBVIOUS
    <3>2. SourceOrder[at[i]] = SourceOrder[at[j]]
      BY <2>7, <3>1
    <3>3. at[i] \in DOMAIN SourceOrder /\ at[j] \in DOMAIN SourceOrder
      BY <2>2, <2>6
    <3>4. at[i] = at[j]
      BY <3>2, <3>3, PlanAssumption DEF IsInjective
    <3>5. i \in Nat /\ j \in Nat /\ at[i] \in Nat
      BY <2>4, <2>6, <3>3, PlanAssumption
    <3>6. i < j \/ j < i
      BY <3>1, <3>5
    <3>7. at[i] < at[j] \/ at[j] < at[i]
      BY <2>3, <2>6, <3>6 DEF Rising
    <3> QED BY <3>4, <3>5, <3>7
  <2>9. z \in Seq(Batches) /\ z # <<>>
    <3>1. z \in [1..Cardinality(due) -> Batches]
      BY <2>5, <2>6, <2>7
    <3>2. z \in Seq(Batches)
      BY <2>4, <3>1
    <3>3. 1 \in DOMAIN z
      BY <2>4, <2>6
    <3> QED BY <3>2, <3>3
  <2>10. PICK n : n = [run[t] EXCEPT !.pc = "claim", !.plan = z]
    OBVIOUS
  <2>11. run' = [run EXCEPT ![t] = n]
    BY <2>3, <2>5, <2>10
  <2>12. /\ n \in RunType /\ n.pc = "claim" /\ n.plan = z
         /\ n.start = run[t].start /\ n.consent = run[t].consent /\ n.query = run[t].query
    <3>1. PICK p \in States, y \in Seq(Batches), i \in RunType : p = "claim" /\ y = z /\ i = run[t]
      BY <1>1, <2>9 DEF States
    <3>2. n = [i EXCEPT !.pc = p, !.plan = y]
      BY <2>10, <3>1
    <3> QED BY <3>1, <3>2, RecordLoads DEF RunType
  <2>13. run' \in [Ticks -> RunType] /\ run'[t] = n /\ \A u \in Ticks \ {t} : run'[u] = run[u]
    BY <1>1, <2>11, <2>12
  <2>14. PlanInv(t)'
    <3>1. Grows
      BY <1>1 DEF Grows, world, ledger
    <3>2. ASSUME NEW i \in DOMAIN run'[t].plan PROVE MayClaim(t, run[t].plan[i])'
      <4>1. PICK b : b = z[i]
        OBVIOUS
      <4>2. MayClaim(t, b) /\ b = run'[t].plan[i]
        BY <2>7, <2>12, <2>13, <3>2, <4>1
      <4>3. MayClaim(t, b)'
        BY <1>1, <2>12, <2>13, <3>1, <4>2, MayClaimKept DEF Inv, LedgerInv
      <4> QED BY <4>2, <4>3 DEF MayClaim, Blocks
    <3>3. run'[t].plan = z /\ run'[t].pc = "claim" /\ run'[t].start <= revision'
      BY <1>1, <2>12, <2>13
    <3> QED BY <2>8, <2>9, <3>2, <3>3 DEF PlanInv
  <2>15. BatchInv(t)'
    BY <1>1, <2>12, <2>13 DEF BatchInv, Searching, Settling
  <2>16. AuthorityInv(t)'
    BY <1>1, <2>12, <2>13 DEF AuthorityInv, Active, Authorized, world
  <2> QED BY <1>1, <2>13, <2>14, <2>15, <2>16, TickBegins DEF Moved
<1> QED BY <1>2, <1>3 DEF Load

-----------------------------------------------------------------------------
(* The commit of a request *)

\* What becomes of the ticks, and of the requests that are left.
LEMMA CommitKeeps ==
    ASSUME Inv, Grows, NEW r \in wire, wire' = wire \ {r}, NEW t \in Ticks, t = r.tick,
           UNCHANGED <<scope, consent, window, bucket, faults>>,
           \/ run' = run /\ paid' = paid
           \/ /\ Batch(t) = r.batch
              /\ StaysOn(t) /\ BatchInv(t)' /\ paid' = paid
              /\ run'[t].pc \notin {"send", "sendmodel"}
              /\ run[t].pc = "claiming" \/ run'[t].pc \in Searching \cup Settling
           \/ /\ Batch(t) = r.batch
              /\ LeavesBatch(t) /\ (paid' = paid \/ Abandon(t))
              /\ \/ run[t].pc = "claiming" \/ Batch(t) \in paid'.left
                 \/ \E x \in settled' : x.batch = Batch(t)
    PROVE  /\ WorldInv' /\ RunInv' /\ WireInv' /\ EachRequestOnce' /\ PaysFor(t)
           /\ \A c \in claims : Minded(c)'
           /\ \A u \in Ticks : Begun(u)
           /\ run' \in [Ticks -> RunType] /\ run'[t].start = run[t].start /\ run'[t].pc \notin {"idle", "load"}
<1>1. /\ run \in [Ticks -> RunType] /\ revision \in Nat
      /\ claims \subseteq claims' /\ revision' \in {revision, revision + 1}
  BY DEF Inv, RunInv, WorldInv, Grows
<1>2. run[t].pc \notin {"idle", "load"}
  BY DEF Inv, WireInv, RequestInv
<1>3. Moved(t) /\ run'[t].start = run[t].start /\ run'[t].pc \notin {"idle", "load"}
  BY <1>1, <1>2 DEF Moved, StaysOn, LeavesBatch, GoesOn
<1>4. \A u \in Ticks : Begun(u)
  BY <1>3 DEF Begun, Moved
<1>5. WorldInv'
  BY <1>1 DEF Inv, WorldInv
<1> DEFINE Same == run' = run /\ paid' = paid
           Stays == /\ Batch(t) = r.batch
                    /\ StaysOn(t) /\ BatchInv(t)' /\ paid' = paid
                    /\ run'[t].pc \notin {"send", "sendmodel"}
                    /\ run[t].pc = "claiming" \/ run'[t].pc \in Searching \cup Settling
           Leaves == /\ Batch(t) = r.batch
                     /\ LeavesBatch(t) /\ (paid' = paid \/ Abandon(t))
                     /\ \/ run[t].pc = "claiming" \/ Batch(t) \in paid'.left
                        \/ \E x \in settled' : x.batch = Batch(t)
<1>6. Same \/ Stays \/ Leaves
  OBVIOUS
<1>7. Stays \/ Leaves => Working(t) /\ Active(t)
  BY DEF StaysOn, LeavesBatch, GoesOn, Working, Active
<1> HIDE DEF Same, Stays, Leaves
<1>8. EachRequestOnce' /\ PaysFor(t) /\ (Stays \/ Leaves => (paid'.late[t] = 1 => ~Authorized(t)))
  <2>1. CASE paid' = paid
    <3>1. EachRequestOnce' /\ PaysFor(t)
      BY <1>1, <2>1 DEF Inv, PaidInv, EachRequestOnce, ClaimsOf, PaysFor
    <3>2. AuthorityInv(t)
      BY DEF Inv, RunInv
    <3> QED BY <1>7, <2>1, <3>1, <3>2 DEF AuthorityInv
  <2>2. CASE Leaves /\ Abandon(t)
    BY <1>1, <1>7, <2>2, AbandonPays
  <2> QED BY <1>6, <2>1, <2>2 DEF Same, Stays, Leaves
<1>9. RunInv'
  <2>1. CASE Same
    BY <1>1, <2>1, TickKept DEF RunInv, Same
  <2>2. CASE Stays
    BY <1>8, <2>2, StayingRun DEF Stays
  <2>3. CASE Leaves
    BY <1>8, <2>3, LeavingRun DEF Leaves
  <2> QED BY <1>6, <2>1, <2>2, <2>3
<1>10. \A c \in claims : Minded(c)'
  <2>1. \/ run'[t] = run[t] \/ run[t].pc \notin Searching \cup Settling
        \/ Batch(t) \in paid'.left \/ \E x \in settled' : x.batch = Batch(t)
        \/ run'[t].pc \in Searching \cup Settling /\ run'[t].plan = run[t].plan
    BY <1>6 DEF Same, Stays, Leaves, Searching, Settling, StaysOn
  <2> QED BY <1>3, <2>1, MindedKept
<1>11. WireInv'
  <2>1. ASSUME NEW q \in wire \ {r} PROVE RequestInv(q)'
    <3>1. q.tick = t => q.batch # r.batch
      BY DEF Inv, WireInv
    <3>2. q.tick = t =>
             \/ run'[t] = run[t] \/ run[t].pc \in {"idle", "load"}
             \/ LeavesBatch(t) /\ (q.batch = Batch(t) => Batch(t) \in paid'.left)
             \/ StaysOn(t) /\ q.batch # Batch(t)
      BY <1>6, <3>1 DEF Same, Stays, Leaves
    <3> QED BY <1>3, <3>2, RequestKept
  <2>2. (wire \subseteq RequestType)'
    <3>1. 1..revision \subseteq 1..revision'
      BY <1>1
    <3> QED BY <3>1 DEF Inv, WireInv, RequestType
  <2> QED BY <2>1, <2>2 DEF Inv, WireInv
<1> QED BY <1>3, <1>4, <1>5, <1>8, <1>9, <1>10, <1>11 DEF Moved

\* The tick of a request that waits for its answer waits where its kind is sent.
LEMMA Waiting ==
    ASSUME Inv, NEW r \in wire, Waits(r.tick), Batch(r.tick) = r.batch
    PROVE  /\ r.tick \in Ticks /\ Working(r.tick) /\ run[r.tick].pc = WaitsIn(r.kind)
           /\ r.kind \in {"claim", "facts", "checkpoint"}
<1>1. RequestInv(r) /\ r.tick \in Ticks /\ r.kind \in {"claim", "facts", "checkpoint"}
  BY DEF Inv, WireInv, RequestType
<1>2. Working(r.tick)
  BY DEF Waits, Working
<1>3. 1 \in DOMAIN run[r.tick].plan /\ run[r.tick].plan[1] = r.batch
  BY <1>1, <1>2, WorkingPlan
<1> QED BY <1>1, <1>2, <1>3 DEF RequestInv

\* A tick tries once more.
LEMMA RetryStays ==
    ASSUME Inv, NEW t \in Ticks, Waits(t), NEW p,
           \/ run[t].pc = "claiming" /\ p = "claim"
           \/ run[t].pc = "writing" /\ p = "facts"
           \/ run[t].pc = "settling" /\ p = "settle",
           claims \subseteq claims', Retries(t, p)
    PROVE  StaysOn(t) /\ BatchInv(t)' /\ run'[t].pc = p /\ paid' = paid
<1>1. run \in [Ticks -> RunType] /\ run[t] \in RunType /\ BatchInv(t) /\ Working(t) /\ p \in States
  BY DEF Inv, RunInv, Waits, Working, States
<1>2. PICK n : n = [run[t] EXCEPT !.pc = p, !.attempt = 2, !.read = 0]
  OBVIOUS
<1>3. run' = [run EXCEPT ![t] = n] /\ paid' = paid
  BY <1>2 DEF Retries
<1>4. /\ n \in RunType /\ n.pc = p /\ n.start = run[t].start /\ n.consent = run[t].consent
      /\ n.plan = run[t].plan /\ n.query = run[t].query /\ n.outcome = run[t].outcome
  <2>1. PICK i \in RunType, k \in 1..2, v \in Nat : i = run[t] /\ k = 2 /\ v = 0
    BY <1>1
  <2>2. n = [i EXCEPT !.pc = p, !.attempt = k, !.read = v]
    BY <1>2, <2>1
  <2> QED BY <1>1, <2>1, <2>2, RecordTries DEF RunType
<1>5. run' \in [Ticks -> RunType] /\ run'[t] = n /\ \A u \in Ticks \ {t} : run'[u] = run[u]
  BY <1>1, <1>3, <1>4
<1>6. StaysOn(t)
  BY <1>1, <1>4, <1>5 DEF StaysOn, GoesOn, Moved
<1>7. BatchInv(t)'
  <2>1. Batch(t)' = Batch(t)
    BY <1>4, <1>5 DEF Batch
  <2>2. run[t].pc \in Searching => \E c \in ClaimsOf(Batch(t))' : c.attempt = t /\ c.admitted
    BY <1>1, <2>1 DEF BatchInv, ClaimsOf
  <2> QED BY <1>1, <1>4, <1>5, <2>1, <2>2 DEF BatchInv, Searching, Settling
<1> QED BY <1>3, <1>4, <1>5, <1>6, <1>7

\* A request that is refused keeps the invariant.
LEMMA RefuseStep ==
    ASSUME Inv, NEW r \in wire, wire' = wire \ {r}, NEW answer \in {"forbidden", "conflict"}, Refuses(r, answer),
           UNCHANGED <<scope, consent, window, bucket, faults>>
    PROVE  Inv'
<1>1. /\ revision' = revision /\ claims' = claims /\ settled' = settled
      /\ Answer(r, answer)
  BY DEF Refuses, ledger
<1>2. PICK t \in Ticks : t = r.tick
  BY DEF Inv, WireInv, RequestType
<1>3. /\ \/ run' = run /\ paid' = paid
         \/ /\ Batch(t) = r.batch
            /\ StaysOn(t) /\ BatchInv(t)' /\ paid' = paid
            /\ run'[t].pc \notin {"send", "sendmodel"}
            /\ run[t].pc = "claiming" \/ run'[t].pc \in Searching \cup Settling
         \/ /\ Batch(t) = r.batch
            /\ LeavesBatch(t) /\ (paid' = paid \/ Abandon(t))
            /\ \/ run[t].pc = "claiming" \/ Batch(t) \in paid'.left
               \/ \E x \in settled' : x.batch = Batch(t)
      /\ paid.left \subseteq paid'.left
  <2>1. CASE ~(Waits(t) /\ Batch(t) = r.batch)
    BY <1>1, <1>2, <2>1 DEF Answer
  <2>2. CASE Waits(t) /\ Batch(t) = r.batch
    <3>1. Working(t) /\ run[t].pc = WaitsIn(r.kind) /\ r.kind \in {"claim", "facts", "checkpoint"}
      BY <1>2, <2>2, Waiting
    <3>2. \/ Over(t) /\ (Abandon(t) \/ (run[t].pc = "claiming" /\ UNCHANGED paid))
          \/ NextEntry(t) /\ (Abandon(t) \/ (run[t].pc = "claiming" /\ UNCHANGED paid))
          \/ run[t].pc = "claiming" /\ Retries(t, "claim")
          \/ run[t].pc = "writing" /\ Retries(t, "facts")
          \/ run[t].pc = "settling" /\ Retries(t, "settle")
      <4>1. CASE r.kind = "claim"
        BY <1>1, <1>2, <2>2, <3>1, <4>1 DEF Answer, ClaimAnswered, WaitsIn
      <4>2. CASE r.kind = "facts"
        BY <1>1, <1>2, <2>2, <3>1, <4>2 DEF Answer, FactsAnswered, WaitsIn
      <4>3. CASE r.kind = "checkpoint"
        BY <1>1, <1>2, <2>2, <3>1, <4>3 DEF Answer, SettleAnswered, WaitsIn
      <4> QED BY <3>1, <4>1, <4>2, <4>3
    <3>3. CASE (Over(t) \/ NextEntry(t)) /\ (Abandon(t) \/ (run[t].pc = "claiming" /\ UNCHANGED paid))
      <4>1. LeavesBatch(t)
        BY <3>1, <3>3, OverLeaves, NextLeaves
      <4>2. Abandon(t) => Batch(t) \in paid'.left /\ paid.left \subseteq paid'.left
        BY <1>1, <3>1, AbandonPays
      <4> QED BY <2>2, <3>3, <4>1, <4>2
    <3>4. CASE \/ run[t].pc = "claiming" /\ Retries(t, "claim")
               \/ run[t].pc = "writing" /\ Retries(t, "facts")
               \/ run[t].pc = "settling" /\ Retries(t, "settle")
      <4>1. PICK p : /\ \/ run[t].pc = "claiming" /\ p = "claim"
                        \/ run[t].pc = "writing" /\ p = "facts"
                        \/ run[t].pc = "settling" /\ p = "settle"
                     /\ Retries(t, p)
        BY <3>4
      <4>2. StaysOn(t) /\ BatchInv(t)' /\ run'[t].pc = p /\ paid' = paid
        BY <1>1, <2>2, <4>1, RetryStays
      <4>3. run'[t].pc \notin {"send", "sendmodel"} /\ (run[t].pc = "claiming" \/ run'[t].pc \in Searching \cup Settling)
        BY <4>1, <4>2 DEF Searching, Settling
      <4> QED BY <2>2, <4>2, <4>3
    <3> QED BY <3>2, <3>3, <3>4
  <2> QED BY <2>1, <2>2
<1>4. Grows
  BY <1>1, <1>3 DEF Grows
<1>5. /\ WorldInv' /\ RunInv' /\ WireInv' /\ EachRequestOnce' /\ PaysFor(t)
      /\ \A c \in claims : Minded(c)'
      /\ \A u \in Ticks : Begun(u)
      /\ run' \in [Ticks -> RunType]
  BY <1>2, <1>3, <1>4, CommitKeeps
<1>6. LedgerInv'
  <2>1. revision \in Nat
    BY DEF Inv, WorldInv
  <2> QED BY <1>1, <1>5, <2>1, LedgerKept DEF ledger
<1> QED BY <1>1, <1>5, <1>6 DEF Inv, PaidInv, PaysFor

\* There are finitely many claims.
LEMMA ClaimsFinite ==
    ASSUME Inv
    PROVE  IsFiniteSet(claims)
<1> DEFINE f == [c \in claims |-> c.batch]
<1>1. \A c \in claims : f[c] \in Batches
  BY DEF Inv, LedgerInv, ClaimType
<1>2. \A c, d \in claims : f[c] = f[d] => c = d
  BY DEF Inv, LedgerInv, ChainInv
<1>3. f \in [claims -> Batches]
  BY <1>1
<1> HIDE DEF f
<1>4. f \in Injection(claims, Batches)
  BY <1>2, <1>3 DEF Injection, IsInjective
<1> QED BY <1>4, BatchesFinite, FS_Injection

\* A new claim follows the settlements of the batches before it.
LEMMA NewClaimChain ==
    ASSUME Inv, NEW d, d.batch \in Batches, d.revision = revision + 1,
           ClaimsOf(d.batch) = {},
           d.batch[3] > 0 => SettlementsOf([d.batch EXCEPT ![3] = d.batch[3] - 1]) # {},
           claims' = claims \cup {d}, settled' = settled
    PROVE  ChainInv'
<1>1. /\ ChainInv /\ revision \in Nat
      /\ \A c \in claims : c.revision \in 1..revision /\ c.batch \in Batches /\ c.batch # d.batch
  BY DEF Inv, LedgerInv, ClaimType, WorldInv, ClaimsOf
<1>2. PICK s, y, j : d.batch = <<s, y, j>> /\ j \in Nat
  BY BatchParts, BatchQueries
<1>3. \A i \in 0..(j - 1) : \E x \in settled : x.batch = <<s, y, i>>
  <2> SUFFICES ASSUME NEW i \in 0..(j - 1) PROVE \E x \in settled : x.batch = <<s, y, i>>
    OBVIOUS
  <2>1. j > 0 /\ j - 1 \in Nat
    BY <1>2
  <2>2. [d.batch EXCEPT ![3] = d.batch[3] - 1] = <<s, y, j - 1>>
    BY <1>2
  <2>3. PICK x \in settled : x.batch = <<s, y, j - 1>>
    BY <1>2, <2>1, <2>2 DEF SettlementsOf
  <2>4. CASE i = j - 1
    BY <2>3, <2>4
  <2>5. CASE i # j - 1
    <3>1. PICK c \in claims : c.batch = <<s, y, j - 1>>
      BY <1>1, <2>3 DEF ChainInv, ClaimsOf
    <3>2. i \in 0..(c.batch[3] - 1)
      BY <1>2, <2>1, <2>5, <3>1
    <3>3. SettlementsOf(<<c.batch[1], c.batch[2], i>>) # {}
      BY <1>1, <3>2 DEF ChainInv
    <3> QED BY <3>1, <3>3 DEF SettlementsOf
  <2> QED BY <2>4, <2>5
<1>4. \A c, e \in claims' : c.batch = e.batch \/ c.revision = e.revision => c = e
  BY <1>1 DEF ChainInv
<1>5. \A x, z \in settled' : x.batch = z.batch => x = z
  BY <1>1 DEF ChainInv
<1>6. \A x \in settled' : \E c \in ClaimsOf(x.batch)' : c.admitted \/ x.outcome = "exhausted"
  BY <1>1 DEF ChainInv, ClaimsOf
<1>7. ASSUME NEW c \in claims' PROVE \A i \in 0..(c.batch[3] - 1) : \E x \in settled : x.batch = <<c.batch[1], c.batch[2], i>>
  <2> TAKE i \in 0..(c.batch[3] - 1)
  <2>1. CASE c \in claims
    <3>1. SettlementsOf(<<c.batch[1], c.batch[2], i>>) # {}
      BY <1>1, <2>1 DEF ChainInv
    <3> QED BY <3>1 DEF SettlementsOf
  <2>2. CASE c = d
    <3>1. c.batch[1] = s /\ c.batch[2] = y /\ c.batch[3] = j
      BY <1>2, <2>2
    <3> QED BY <1>3, <3>1
  <2> QED BY <2>1, <2>2
<1>8. \A c \in claims' : \A i \in 0..(c.batch[3] - 1) : SettlementsOf(<<c.batch[1], c.batch[2], i>>)' # {}
  BY <1>7 DEF SettlementsOf
<1> QED BY <1>4, <1>5, <1>6, <1>8 DEF ChainInv

\* It is admitted when its hold fits, and holds as much.
LEMMA NewClaimBudget ==
    ASSUME Inv, NEW d, d.batch \in Batches, d.revision = revision + 1,
           d.admitted = BudgetAdmits(d.batch), ClaimsOf(d.batch) = {},
           claims' = claims \cup {d}
    PROVE  BudgetInv'
<1>1. /\ BudgetInv /\ revision \in Nat /\ Cap \in Nat
      /\ \A c \in claims : c.revision \in 1..revision /\ c.batch \in Batches /\ c.batch # d.batch
                           /\ c.admitted \in BOOLEAN
  BY Constants DEF Inv, LedgerInv, ClaimType, WorldInv, ClaimsOf
<1>2. \A b \in Batches : Envelope(b) \in Nat
  BY BatchQueries
<1>3. PICK k \in Nat : k = IF d.admitted THEN Envelope(d.batch) ELSE 0
  BY <1>2
<1> DEFINE f == [c \in claims |-> IF c.admitted THEN Envelope(c.batch) ELSE 0]
           h == [c \in claims \cup {d} |-> IF c.admitted THEN Envelope(c.batch) ELSE 0]
<1>4. Held = SumFunctionOnSet(f, claims) /\ Held' = SumFunctionOnSet(h, claims \cup {d})
  BY DEF Held, SumFunction
<1>5. d \notin claims /\ h[d] = k /\ \A c \in claims : f[c] \in Nat /\ h[c] = f[c]
  BY <1>1, <1>2, <1>3
<1>6. Held' = Held + k
  <2> HIDE DEF f, h
  <2>1. IsFiniteSet(claims)
    BY ClaimsFinite
  <2>2. PICK C, F, H : C = claims /\ F = f /\ H = h
    OBVIOUS
  <2>3. IsFiniteSet(C) /\ d \notin C /\ H[d] \in Nat /\ \A c \in C : F[c] \in Nat /\ H[c] = F[c]
    BY <1>5, <2>1, <2>2
  <2>4. SumFunctionOnSet(H, C \cup {d}) = SumFunctionOnSet(F, C) + H[d]
    BY <2>3, SumWith
  <2> QED BY <1>4, <1>5, <2>2, <2>4
<1> DEFINE g == [b \in Batches |-> HeldFor(b)]
           m == [b \in Batches |-> HeldFor(b)']
<1>7. SumFunction([b \in Batches |-> HeldFor(b)])' = SumFunctionOnSet(m, Batches)
      /\ SumFunction([b \in Batches |-> HeldFor(b)]) = SumFunctionOnSet(g, Batches)
  BY DEF SumFunction
<1>8. /\ g[d.batch] = 0 /\ m[d.batch] = k
      /\ \A b \in Batches : g[b] \in Nat /\ m[b] \in Nat /\ (b # d.batch => m[b] = g[b])
  <2>1. \A b \in Batches : HeldFor(b) \in Nat /\ HeldFor(b)' \in Nat
    BY <1>2 DEF HeldFor
  <2>2. HeldFor(d.batch) = 0
    BY DEF HeldFor
  <2>3. (\E c \in claims' : c.batch = d.batch /\ c.admitted) <=> d.admitted
    BY <1>1
  <2>4. HeldFor(d.batch)' = k
    BY <1>3, <2>3 DEF HeldFor, ClaimsOf
  <2>5. \A b \in Batches : b # d.batch => HeldFor(b)' = HeldFor(b)
    BY <1>1 DEF HeldFor, ClaimsOf
  <2> QED BY <2>1, <2>2, <2>4, <2>5
<1>9. SumFunctionOnSet(m, Batches) = Held'
  <2> HIDE DEF g, m
  <2>1. SumFunctionOnSet(m, Batches) + g[d.batch] = SumFunctionOnSet(g, Batches) + m[d.batch]
    BY <1>8, BatchesFinite, SumChanges
  <2>2. SumFunctionOnSet(m, Batches) \in Nat
    BY <1>8, BatchesFinite, SumWithout
  <2>3. SumFunctionOnSet(g, Batches) = Held /\ Held \in Nat
    BY <1>1, <1>7 DEF BudgetInv
  <2> QED BY <1>6, <1>8, <2>1, <2>2, <2>3
<1>10. Held' \in Nat /\ Held' <= Cap /\ Held <= Held'
       /\ (~d.admitted => Held + Envelope(d.batch) > Cap)
  <2>1. Held \in Nat /\ Held <= Cap /\ Envelope(d.batch) \in Nat
    BY <1>1, <1>2 DEF BudgetInv
  <2>2. d.admitted => Held + Envelope(d.batch) <= Cap
    BY DEF BudgetAdmits
  <2>3. ~d.admitted => ~(Held + Envelope(d.batch) <= Cap)
    BY DEF BudgetAdmits
  <2> QED BY <1>1, <1>3, <1>6, <2>1, <2>2, <2>3
<1>11. \A c \in claims' : ~c.admitted => Held' + Envelope(c.batch) > Cap
  <2> SUFFICES ASSUME NEW c \in claims', ~c.admitted PROVE Held' + Envelope(c.batch) > Cap
    OBVIOUS
  <2>1. Held + Envelope(c.batch) > Cap
    BY <1>1, <1>10 DEF BudgetInv
  <2>2. Envelope(c.batch) \in Nat /\ Held \in Nat
    BY <1>1, <1>2 DEF BudgetInv
  <2> QED BY <1>1, <1>10, <2>1, <2>2
<1>12. \A c, e \in claims' : ~c.admitted /\ e.admitted /\ c.revision < e.revision =>
           Envelope(e.batch) < Envelope(c.batch)
  <2> SUFFICES ASSUME NEW c \in claims', NEW e \in claims', ~c.admitted, e.admitted, c.revision < e.revision
               PROVE  Envelope(e.batch) < Envelope(c.batch)
    OBVIOUS
  <2>1. CASE c \in claims /\ e \in claims
    BY <1>1, <2>1 DEF BudgetInv
  <2>2. CASE c \in claims /\ e = d
    <3>1. Held + Envelope(c.batch) > Cap
      BY <1>1, <2>2 DEF BudgetInv
    <3>2. Held + Envelope(d.batch) <= Cap
      BY <2>2 DEF BudgetAdmits
    <3>3. Envelope(c.batch) \in Nat /\ Envelope(d.batch) \in Nat /\ Held \in Nat
      BY <1>1, <1>2, <2>2 DEF BudgetInv
    <3> QED BY <1>1, <2>2, <3>1, <3>2, <3>3
  <2>3. CASE c = d
    BY <1>1, <2>3
  <2> QED BY <2>1, <2>2, <2>3
<1> HIDE DEF m
<1> QED BY <1>7, <1>9, <1>10, <1>11, <1>12 DEF BudgetInv

\* The ledger with a new claim: above all, the claim is of no tick that began
\* after a declined hold that forbids it.
LEMMA NewClaim ==
    ASSUME Inv, Grows, NEW r \in wire, r.kind = "claim", ClaimAdmissible(r), revision' = revision + 1,
           NEW d, d = [batch |-> r.batch, attempt |-> r.tick, admitted |-> BudgetAdmits(r.batch),
                       revision |-> revision + 1],
           claims' = claims \cup {d}, settled' = settled,
           run' \in [Ticks -> RunType], \A u \in Ticks : Begun(u)
    PROVE  LedgerInv'
<1>1. /\ r.tick \in Ticks /\ r.batch \in Batches /\ RequestInv(r) /\ r \in RequestType
      /\ claims \subseteq ClaimType /\ settled \subseteq SettlementType
      /\ revision \in Nat /\ ChainInv /\ WorldInv
  BY DEF Inv, LedgerInv, WorldInv, WireInv, RequestType
<1>2. d.batch = r.batch /\ d.attempt = r.tick /\ d.admitted = BudgetAdmits(r.batch) /\ d.revision = revision + 1
  OBVIOUS
<1>3. ClaimsOf(r.batch) = {} /\ (r.batch[3] > 0 => SettlementsOf([r.batch EXCEPT ![3] = r.batch[3] - 1]) # {})
  BY DEF ClaimAdmissible
<1>4. ChainInv'
  BY <1>1, <1>2, <1>3, NewClaimChain
<1>5. BudgetInv'
  BY <1>1, <1>2, <1>3, NewClaimBudget
<1>6. (claims \subseteq ClaimType)' /\ (settled \subseteq SettlementType)'
  <2>1. 1..revision \subseteq 1..revision' /\ revision + 1 \in 1..revision'
    BY <1>1
  <2>2. BudgetAdmits(r.batch) \in BOOLEAN
    BY DEF BudgetAdmits
  <2>3. \A c \in claims : c \in ClaimType'
    BY <1>1, <2>1 DEF ClaimType
  <2>4. d \in ClaimType'
    BY <1>1, <2>1, <2>2 DEF ClaimType
  <2>5. \A x \in settled : x \in SettlementType'
    BY <1>1, <2>1 DEF SettlementType
  <2> QED BY <2>3, <2>4, <2>5
<1>7. FactsMatchScope'
  BY DEF Inv, LedgerInv, FactsMatchScope
<1>8. \A u \in Ticks : run[u].start \in Nat /\ run[u].start <= revision
  BY DEF Inv, RunInv, RunType, PlanInv
<1>9. \A c \in claims : /\ c.attempt \in Ticks /\ c.revision \in Nat /\ c.revision <= revision
                        /\ run[c.attempt].pc \notin {"idle", "load"} /\ run[c.attempt].start < c.revision
                        /\ run'[c.attempt].pc \notin {"idle", "load"} /\ run'[c.attempt].start = run[c.attempt].start
  <2>1. \A c \in claims : c.attempt \in Ticks /\ c.revision \in Nat /\ c.revision <= revision
    BY <1>1 DEF ClaimType
  <2> QED BY <2>1 DEF Inv, LedgerInv, Begun
<1>10. run'[r.tick].pc \notin {"idle", "load"} /\ run'[r.tick].start = run[r.tick].start
  BY <1>1 DEF RequestInv, Begun
<1>11. ASSUME NEW c \in claims', NEW e \in claims', ~c.admitted, c.batch[1] = e.batch[1],
              c.batch[2] = e.batch[2]
       PROVE  run'[e.attempt].start < c.revision
  <2>1. CASE c = d
    <3>1. run'[e.attempt].start <= revision /\ run'[e.attempt].start \in Nat
      BY <1>1, <1>2, <1>8, <1>9, <1>10
    <3> QED BY <1>1, <1>2, <2>1, <3>1
  <2>2. CASE c \in claims /\ e \in claims
    BY <1>9, <1>11, <2>2 DEF Inv, LedgerInv, DeclinedIsFinal
  <2>3. CASE c \in claims /\ e = d
    <3>1. r.batch[3] \in Nat
      BY <1>1, BatchParts, BatchQueries
    <3>2. r.batch[3] # 0
      <4> SUFFICES ASSUME r.batch[3] = 0 PROVE FALSE
        OBVIOUS
      <4>1. PICK f \in claims : f.batch = <<c.batch[1], c.batch[2], 0>>
        BY <2>3, CycleStart
      <4>2. r.batch = <<r.batch[1], r.batch[2], r.batch[3]>>
        BY <1>1, BatchParts
      <4>3. f.batch = r.batch
        BY <1>2, <1>11, <2>3, <4>1, <4>2
      <4> QED BY <1>3, <4>3 DEF ClaimsOf
    <3>3. Blocks(c, r.batch)
      BY <1>2, <1>11, <2>3, <3>1, <3>2 DEF Blocks
    <3>4. MayClaim(r.tick, r.batch)
      BY <1>1 DEF RequestInv
    <3> QED BY <1>2, <1>10, <2>3, <3>3, <3>4 DEF MayClaim
  <2> QED BY <1>2, <2>1, <2>2, <2>3
<1>12. DeclinedIsFinal'
  BY <1>11 DEF DeclinedIsFinal
<1>13. \A c \in claims' : run'[c.attempt].pc \notin {"idle", "load"} /\ run'[c.attempt].start < c.revision
  <2>1. run'[r.tick].start < d.revision
    BY <1>1, <1>2, <1>8, <1>10
  <2> QED BY <1>2, <1>9, <1>10, <2>1
<1> QED BY <1>4, <1>5, <1>6, <1>7, <1>12, <1>13 DEF LedgerInv

\* The claim is answered as it was admitted.
LEMMA ClaimedStays ==
    ASSUME Inv, NEW t \in Ticks, run[t].pc = "claiming", NEW a \in {"admitted", "declined"},
           ClaimAnswered(t, a), claims \subseteq claims',
           ClaimsOf(Batch(t)) = {},
           a = "admitted" => \E c \in claims' : c.batch = Batch(t) /\ c.attempt = t /\ c.admitted
    PROVE  /\ StaysOn(t) /\ BatchInv(t)' /\ paid' = paid /\ run'[t].pc \in {"query", "settle"}
<1>1. run \in [Ticks -> RunType] /\ run[t] \in RunType /\ BatchInv(t) /\ Working(t) /\ Batch(t) \in Batches
  BY WorkingPlan DEF Inv, RunInv, Working
<1>2. paid.searches[Batch(t)] = 0 /\ paid.models[Batch(t)] = 0
  <2>1. ~(paid.searches[Batch(t)] + paid.models[Batch(t)] > 0)
    BY <1>1 DEF Inv, PaidInv, EachRequestOnce
  <2>2. paid.searches[Batch(t)] \in Nat /\ paid.models[Batch(t)] \in Nat
    BY <1>1 DEF Inv, PaidInv
  <2> QED BY <2>1, <2>2
<1>3. QueriesIn(Batch(t)) > 0
  BY <1>1, BatchQueries
<1>4. CASE a = "admitted"
  <2>1. PICK n : n = [run[t] EXCEPT !.pc = "query", !.attempt = 1, !.read = 0]
    OBVIOUS
  <2>2. run' = [run EXCEPT ![t] = n] /\ paid' = paid
    BY <1>4, <2>1 DEF ClaimAnswered
  <2>3. /\ n \in RunType /\ n.pc = "query" /\ n.start = run[t].start /\ n.consent = run[t].consent
        /\ n.plan = run[t].plan /\ n.query = run[t].query
    <3>1. PICK i \in RunType, p \in States, k \in 1..2, v \in Nat : i = run[t] /\ p = "query" /\ k = 1 /\ v = 0
      BY <1>1 DEF States
    <3>2. n = [i EXCEPT !.pc = p, !.attempt = k, !.read = v]
      BY <2>1, <3>1
    <3> QED BY <3>1, <3>2, RecordTries DEF RunType
  <2>4. run' \in [Ticks -> RunType] /\ run'[t] = n /\ \A u \in Ticks \ {t} : run'[u] = run[u]
    BY <1>1, <2>2, <2>3
  <2>5. StaysOn(t)
    BY <1>1, <2>3, <2>4 DEF StaysOn, GoesOn, Moved
  <2>6. BatchInv(t)'
    <3>1. Batch(t)' = Batch(t) /\ QueriesIn(Batch(t))' = QueriesIn(Batch(t))
      BY <2>3, <2>4 DEF Batch, QueriesIn
    <3>2. \E c \in ClaimsOf(Batch(t))' : c.attempt = t /\ c.admitted
      BY <1>4, <3>1 DEF ClaimsOf
    <3>3. run'[t].query = 0
      BY <1>1, <2>3, <2>4 DEF BatchInv
    <3> QED BY <1>2, <1>3, <2>2, <2>3, <2>4, <3>1, <3>2, <3>3 DEF BatchInv, Settling
  <2> QED BY <2>2, <2>3, <2>4, <2>5, <2>6
<1>5. CASE a = "declined"
  <2>1. PICK n : n = [run[t] EXCEPT !.pc = "settle", !.attempt = 1, !.read = 0, !.outcome = "exhausted"]
    OBVIOUS
  <2>2. run' = [run EXCEPT ![t] = n] /\ paid' = paid
    BY <1>5, <2>1 DEF ClaimAnswered
  <2>3. /\ n \in RunType /\ n.pc = "settle" /\ n.start = run[t].start /\ n.consent = run[t].consent
        /\ n.plan = run[t].plan /\ n.outcome = "exhausted"
    <3>1. PICK i \in RunType, p \in States, k \in 1..2, v \in Nat, w \in Outcomes :
              i = run[t] /\ p = "settle" /\ k = 1 /\ v = 0 /\ w = "exhausted"
      BY <1>1 DEF States, Outcomes
    <3>2. n = [i EXCEPT !.pc = p, !.attempt = k, !.read = v, !.outcome = w]
      BY <2>1, <3>1
    <3> QED BY <3>1, <3>2, RecordEnds DEF RunType
  <2>4. run' \in [Ticks -> RunType] /\ run'[t] = n /\ \A u \in Ticks \ {t} : run'[u] = run[u]
    BY <1>1, <2>2, <2>3
  <2>5. StaysOn(t)
    BY <1>1, <2>3, <2>4 DEF StaysOn, GoesOn, Moved
  <2>6. BatchInv(t)'
    BY <2>3, <2>4 DEF BatchInv, Searching, Settling
  <2> QED BY <2>2, <2>3, <2>4, <2>5, <2>6
<1> QED BY <1>4, <1>5
\* A claim is recorded.
LEMMA RecordsClaim ==
    ASSUME Inv, NEW r \in wire, wire' = wire \ {r}, r.kind = "claim", ClaimAdmissible(r), Records(r),
           UNCHANGED <<scope, consent, window, bucket, faults>>
    PROVE  Inv'
<1>1. revision' = revision + 1 /\ settled' = settled /\ revision \in Nat
  BY DEF Records, Inv, WorldInv
<1>2. PICK d : d = [batch |-> r.batch, attempt |-> r.tick, admitted |-> BudgetAdmits(r.batch),
                    revision |-> revision + 1]
  OBVIOUS
<1>3. PICK a \in {"admitted", "declined"} :
          /\ a = "admitted" => BudgetAdmits(r.batch)
          /\ claims' = claims \cup {d} /\ Answer(r, a)
  BY <1>1, <1>2 DEF Records
<1>4. PICK t \in Ticks : t = r.tick /\ RequestInv(r)
  BY DEF Inv, WireInv, RequestType
<1>5. d.batch = r.batch /\ d.attempt = t /\ d.admitted = BudgetAdmits(r.batch) /\ d.revision = revision + 1
  BY <1>2, <1>4
<1> DEFINE Heard == Waits(t) /\ Batch(t) = r.batch
<1>6. Heard => /\ run[t].pc = "claiming"
               /\ StaysOn(t) /\ BatchInv(t)' /\ paid' = paid /\ run'[t].pc \in {"query", "settle"}
  <2> SUFFICES ASSUME Heard
               PROVE  /\ run[t].pc = "claiming"
                      /\ StaysOn(t) /\ BatchInv(t)' /\ paid' = paid /\ run'[t].pc \in {"query", "settle"}
    OBVIOUS
  <2>1. run[t].pc = "claiming"
    BY <1>4, Waiting DEF WaitsIn
  <2>2. ClaimAnswered(t, a)
    BY <1>3, <1>4 DEF Answer
  <2>3. ClaimsOf(Batch(t)) = {}
    BY DEF ClaimAdmissible
  <2>4. a = "admitted" => \E c \in claims' : c.batch = Batch(t) /\ c.attempt = t /\ c.admitted
    BY <1>3, <1>5
  <2> QED BY <1>3, <2>1, <2>2, <2>3, <2>4, ClaimedStays
<1>7. ~Heard => run' = run /\ paid' = paid /\ r.batch \in paid.left
  <2> SUFFICES ASSUME ~Heard PROVE run' = run /\ paid' = paid /\ r.batch \in paid.left
    OBVIOUS
  <2>1. run' = run /\ paid' = paid
    BY <1>3, <1>4 DEF Answer
  <2>2. CASE run[t].plan # <<>> /\ Batch(t) = r.batch
    <3>1. run[t].plan \in Seq(Batches)
      BY DEF Inv, RunInv, RunType
    <3>2. 1 \in DOMAIN run[t].plan /\ run[t].plan[1] = r.batch
      BY <2>2, <3>1, TailOfPlan DEF Batch
    <3>3. run[t].pc = "claiming"
      BY <1>4, <3>2 DEF RequestInv, WaitsIn
    <3> QED BY <2>2, <3>3 DEF Waits
  <2> QED BY <1>4, <2>1, <2>2 DEF RequestInv
<1>8. Grows
  BY <1>1, <1>3, <1>5, <1>6, <1>7 DEF Grows
<1>9. \/ run' = run /\ paid' = paid
      \/ /\ Batch(t) = r.batch
         /\ StaysOn(t) /\ BatchInv(t)' /\ paid' = paid
         /\ run'[t].pc \notin {"send", "sendmodel"}
         /\ run[t].pc = "claiming" \/ run'[t].pc \in Searching \cup Settling
  BY <1>6, <1>7
<1>10. /\ WorldInv' /\ RunInv' /\ WireInv' /\ EachRequestOnce' /\ PaysFor(t)
       /\ \A c \in claims : Minded(c)'
       /\ \A u \in Ticks : Begun(u)
       /\ run' \in [Ticks -> RunType]
  BY <1>4, <1>8, <1>9, CommitKeeps
<1>11. LedgerInv'
  BY <1>1, <1>2, <1>3, <1>8, <1>10, NewClaim
<1>12. Minded(d)'
  <2>1. CASE Heard
    BY <1>5, <1>6, <2>1 DEF Minded, StaysOn, Batch, Searching, Settling
  <2>2. CASE ~Heard
    BY <1>5, <1>7, <2>2 DEF Minded
  <2> QED BY <2>1, <2>2
<1>13. PaidInv'
  BY <1>3, <1>10, <1>12 DEF PaidInv, PaysFor
<1> QED BY <1>10, <1>11, <1>13 DEF Inv

\* A settlement is the first of its batch, and of a claim that allows it.
LEMMA NewSettlement ==
    ASSUME Inv, Grows, NEW r \in wire, r.kind # "claim", SettlementAdmissible(r), SeesRevision(r),
           revision' = revision + 1,
           NEW d, d = [batch |-> r.batch, attempt |-> r.tick, outcome |-> r.outcome,
                       revision |-> revision + 1, bucket |-> bucket, scope |-> scope],
           settled' = settled \cup {d}, claims' = claims,
           run' \in [Ticks -> RunType], \A u \in Ticks : Begun(u)
    PROVE  LedgerInv'
<1>1. /\ r.tick \in Ticks /\ r.batch \in Batches /\ RequestInv(r) /\ r \in RequestType
      /\ r.kind \in {"claim", "facts", "checkpoint"}
      /\ claims \subseteq ClaimType /\ settled \subseteq SettlementType
      /\ revision \in Nat /\ ChainInv /\ WorldInv
  BY DEF Inv, LedgerInv, WorldInv, WireInv, RequestType
<1>2. d.batch = r.batch /\ d.outcome = r.outcome /\ d.scope = scope
  OBVIOUS
<1>3. r.outcome \in Outcomes \ {"none"} /\ (r.outcome = "searched" => scope = "approved")
  BY <1>1 DEF RequestInv, SeesRevision, Outcomes
<1>4. (claims \subseteq ClaimType)' /\ (settled \subseteq SettlementType)'
  <2>1. 1..revision \subseteq 1..revision' /\ revision + 1 \in 1..revision'
    BY <1>1
  <2>2. \A c \in claims : c \in ClaimType'
    BY <1>1, <2>1 DEF ClaimType
  <2>3. \A x \in settled : x \in SettlementType'
    BY <1>1, <2>1 DEF SettlementType
  <2>4. d \in SettlementType'
    BY <1>1, <1>3, <2>1 DEF SettlementType, WorldInv
  <2> QED BY <2>2, <2>3, <2>4
<1>5. ChainInv'
  <2>1. \A x \in settled : x.batch # r.batch
    BY DEF SettlementAdmissible, SettlementsOf
  <2>2. \A x, y \in settled' : x.batch = y.batch => x = y
    BY <1>1, <1>2, <2>1 DEF ChainInv
  <2>3. \A x \in settled' : \E c \in ClaimsOf(x.batch)' : c.admitted \/ x.outcome = "exhausted"
    BY <1>1, <1>2 DEF ChainInv, ClaimsOf, SettlementAdmissible
  <2>4. \A b : SettlementsOf(b) # {} => SettlementsOf(b)' # {}
    BY DEF SettlementsOf
  <2>5. \A c \in claims' : \A i \in 0..(c.batch[3] - 1) :
           SettlementsOf(<<c.batch[1], c.batch[2], i>>)' # {}
    BY <1>1, <2>4 DEF ChainInv
  <2>6. \A c, e \in claims' : c.batch = e.batch \/ c.revision = e.revision => c = e
    BY <1>1 DEF ChainInv
  <2> QED BY <2>2, <2>3, <2>5, <2>6 DEF ChainInv
<1>6. BudgetInv'
  <2>1. Held' = Held /\ \A b : HeldFor(b)' = HeldFor(b)
    BY DEF Held, HeldFor, ClaimsOf
  <2> QED BY <2>1 DEF Inv, LedgerInv, BudgetInv
<1>7. FactsMatchScope'
  BY <1>2, <1>3 DEF Inv, LedgerInv, FactsMatchScope
<1>8. \A c \in claims : run'[c.attempt].pc \notin {"idle", "load"} /\ run'[c.attempt].start = run[c.attempt].start
  BY <1>1 DEF Inv, LedgerInv, Begun, ClaimType
<1>9. DeclinedIsFinal'
  BY <1>8 DEF Inv, LedgerInv, DeclinedIsFinal
<1>10. (\A c \in claims : run[c.attempt].pc \notin {"idle", "load"} /\ run[c.attempt].start < c.revision)'
  BY <1>8 DEF Inv, LedgerInv
<1> QED BY <1>4, <1>5, <1>6, <1>7, <1>9, <1>10 DEF LedgerInv

\* A settlement is recorded.
LEMMA RecordsSettlement ==
    ASSUME Inv, NEW r \in wire, wire' = wire \ {r}, r.kind # "claim", SettlementAdmissible(r),
           SeesRevision(r), Records(r),
           UNCHANGED <<scope, consent, window, bucket, faults>>
    PROVE  Inv'
<1>1. /\ revision' = revision + 1 /\ claims' = claims /\ revision \in Nat /\ Answer(r, "settled")
  BY DEF Records, Inv, WorldInv
<1>2. PICK d : d = [batch |-> r.batch, attempt |-> r.tick, outcome |-> r.outcome,
                    revision |-> revision + 1, bucket |-> bucket, scope |-> scope]
  OBVIOUS
<1>3. settled' = settled \cup {d} /\ d.batch = r.batch
  BY <1>1, <1>2 DEF Records
<1>4. PICK t \in Ticks : t = r.tick
  BY DEF Inv, WireInv, RequestType
<1> DEFINE Heard == Waits(t) /\ Batch(t) = r.batch
<1>5. Heard => LeavesBatch(t) /\ paid' = paid
  <2> SUFFICES ASSUME Heard PROVE LeavesBatch(t) /\ paid' = paid
    OBVIOUS
  <2>1. Working(t) /\ r.kind \in {"facts", "checkpoint"}
    BY <1>4, Waiting
  <2>2. FactsAnswered(t, "settled") \/ SettleAnswered(t, "settled")
    BY <1>1, <1>4, <2>1 DEF Answer
  <2>3. (Over(t) \/ NextEntry(t)) /\ paid' = paid
    BY <2>2 DEF FactsAnswered, SettleAnswered
  <2> QED BY <2>1, <2>3, OverLeaves, NextLeaves
<1>6. ~Heard => run' = run /\ paid' = paid
  BY <1>1, <1>4 DEF Answer
<1>7. Grows
  BY <1>1, <1>3, <1>5, <1>6 DEF Grows
<1>8. \/ run' = run /\ paid' = paid
      \/ /\ Batch(t) = r.batch
         /\ LeavesBatch(t) /\ paid' = paid
         /\ \E x \in settled' : x.batch = Batch(t)
  BY <1>3, <1>5, <1>6
<1>9. /\ WorldInv' /\ RunInv' /\ WireInv' /\ EachRequestOnce' /\ PaysFor(t)
      /\ \A c \in claims : Minded(c)'
      /\ \A u \in Ticks : Begun(u)
      /\ run' \in [Ticks -> RunType]
  BY <1>4, <1>7, <1>8, CommitKeeps
<1>10. LedgerInv'
  BY <1>1, <1>2, <1>3, <1>7, <1>9, NewSettlement
<1>11. PaidInv'
  BY <1>1, <1>9 DEF PaidInv, PaysFor
<1> QED BY <1>9, <1>10, <1>11 DEF Inv

\* The workspace commits a request, or refuses it.
LEMMA CommitStep ==
    ASSUME Inv, NEW r \in wire, Commit(r)
    PROVE  Inv'
<1>1. wire' = wire \ {r} /\ UNCHANGED <<scope, consent, window, bucket, faults>>
  BY DEF Commit
<1>2. CASE Refuses(r, "forbidden") \/ Refuses(r, "conflict")
  BY <1>1, <1>2, RefuseStep
<1>3. CASE Records(r) /\ SeesRevision(r) /\ r.kind = "claim" /\ ClaimAdmissible(r)
  BY <1>1, <1>3, RecordsClaim
<1>4. CASE Records(r) /\ SeesRevision(r) /\ r.kind # "claim" /\ SettlementAdmissible(r)
  BY <1>1, <1>4, RecordsSettlement
<1> QED BY <1>2, <1>3, <1>4 DEF Commit

-----------------------------------------------------------------------------
(* The invariant holds *)

\* A sum of zeros.
LEMMA SumOfZeros ==
    ASSUME NEW S, IsFiniteSet(S), NEW f, \A x \in S : f[x] = 0
    PROVE  SumFunctionOnSet(f, S) = 0
<1> DEFINE W == {T \in SUBSET S : SumFunctionOnSet(f, T) # 0}
<1> SUFFICES ASSUME W # {} PROVE FALSE
  OBVIOUS
<1>1. PICK T \in W : \A U \in W : U \subseteq T => U = T
  <2> HIDE DEF W
  <2>1. W \in SUBSET SUBSET S
    BY DEF W
  <2> QED BY <2>1, SmallestPart
<1>2. IsFiniteSet(T) /\ \A x \in T : f[x] \in Nat
  BY FS_Subset
<1>3. /\ T = {} => SumFunctionOnSet(f, T) = 0
      /\ \A y \in T : SumFunctionOnSet(f, T) = f[y] + SumFunctionOnSet(f, T \ {y})
  BY <1>2, SumWithout
<1>4. PICK y \in T : TRUE
  BY <1>1, <1>3
<1>5. T \ {y} \notin W
  BY <1>1
<1>6. SumFunctionOnSet(f, T \ {y}) = 0 /\ f[y] = 0
  BY <1>5
<1>7. SumFunctionOnSet(f, T) = 0
  BY <1>3, <1>6
<1> QED BY <1>7

\* Nothing is held at first.
LEMMA InitBudget ==
    ASSUME claims = {}
    PROVE  BudgetInv
<1>1. Held = 0
  <2> DEFINE f == [c \in claims |-> IF c.admitted THEN Envelope(c.batch) ELSE 0]
  <2>1. Held = SumFunctionOnSet(f, claims)
    BY DEF Held, SumFunction
  <2>2. IsFiniteSet(claims) /\ \A c \in claims : f[c] = 0
    BY FS_EmptySet
  <2> HIDE DEF f
  <2> QED BY <2>1, <2>2, SumOfZeros
<1>2. SumFunction([b \in Batches |-> HeldFor(b)]) = 0
  <2> DEFINE g == [b \in Batches |-> HeldFor(b)]
  <2>1. SumFunction(g) = SumFunctionOnSet(g, Batches)
    BY DEF SumFunction
  <2>2. \A b \in Batches : g[b] = 0
    BY DEF HeldFor, ClaimsOf
  <2> HIDE DEF g
  <2>3. SumFunctionOnSet(g, Batches) = 0
    BY <2>2, BatchesFinite, SumOfZeros
  <2> QED BY <2>1, <2>3 DEF g
<1> QED BY <1>1, <1>2, Constants DEF BudgetInv

\* It holds at first.
LEMMA InitInv == Init => Inv
<1> SUFFICES ASSUME Init PROVE Inv
  OBVIOUS
<1>1. Idle \in RunType /\ Idle.pc = "idle" /\ Idle.plan = <<>> /\ Idle.start = 0 /\ Idle.query = 0
  BY Constants DEF Idle, RunType, States, Outcomes
<1>2. run \in [Ticks -> RunType] /\ \A t \in Ticks : run[t] = Idle
  BY <1>1 DEF Init
<1>3. WorldInv
  BY Constants DEF Init, WorldInv
<1>4. LedgerInv
  <2>1. BudgetInv
    BY InitBudget DEF Init
  <2>2. ChainInv
    BY DEF Init, ChainInv
  <2> QED BY <2>1, <2>2 DEF Init, LedgerInv, FactsMatchScope, DeclinedIsFinal
<1>5. /\ paid \in [searches : [Batches -> Nat], models : [Batches -> Nat],
                   left : SUBSET Batches, late : [Ticks -> 0..1]]
      /\ \A b \in Batches : paid.searches[b] = 0 /\ paid.models[b] = 0
      /\ \A t \in Ticks : paid.late[t] = 0
  BY DEF Init
<1>6. PaidInv
  <2>1. EachRequestOnce
    BY <1>5, BatchQueries DEF EachRequestOnce
  <2> QED BY <1>5, <2>1 DEF Init, PaidInv
<1>7. RunInv
  <2> SUFFICES ASSUME NEW t \in Ticks PROVE PlanInv(t) /\ BatchInv(t) /\ AuthorityInv(t)
    BY <1>2 DEF RunInv
  <2>1. run[t].pc = "idle" /\ run[t].plan = <<>> /\ run[t].start = 0 /\ run[t].query = 0
    BY <1>1, <1>2
  <2>2. PlanInv(t)
    BY <2>1 DEF PlanInv, Init
  <2>3. BatchInv(t)
    BY <2>1 DEF BatchInv, Searching, Settling
  <2>4. AuthorityInv(t)
    BY <1>5, <2>1 DEF AuthorityInv, Active
  <2> QED BY <2>2, <2>3, <2>4
<1>8. WireInv
  BY DEF Init, WireInv
<1> QED BY <1>3, <1>4, <1>6, <1>7, <1>8 DEF Inv

\* It holds after every step.
LEMMA NextInv == Inv /\ [Next]_vars => Inv'
<1> SUFFICES ASSUME Inv, [Next]_vars PROVE Inv'
  OBVIOUS
<1>1. CASE Edit \/ ChangeScope \/ ChangeConsent \/ CloseWindow \/ NextPeriod
  BY <1>1, WorldSteps
<1>2. ASSUME NEW t \in Ticks, Start(t) PROVE Inv'
  BY <1>2, StartStep
<1>3. ASSUME NEW t \in Ticks, Works(t) PROVE Inv'
  BY <1>3, LoadStep, ClaimStep, TakeStep, SendStep, WriteStep DEF Works
<1>4. ASSUME NEW t \in Ticks, LoseResult(t) PROVE Inv'
  BY <1>4, LoseStep
<1>5. ASSUME NEW t \in Ticks, GiveUp(t) \/ Crash(t) PROVE Inv'
  BY <1>5, FaultStep
<1>6. ASSUME NEW r \in wire, Commit(r) PROVE Inv'
  BY <1>6, CommitStep
<1>7. CASE UNCHANGED vars
  <2>1. UNCHANGED <<ledger, wire, run, revision, scope, consent, window, bucket, faults, paid>>
    BY <1>7 DEF vars, ledger
  <2>2. WorldInv'
    BY <2>1 DEF Inv, WorldInv
  <2>3. \A t \in Ticks : AuthorityInv(t)'
    BY <2>1 DEF Inv, RunInv, AuthorityInv, Active, Authorized
  <2>4. paid.late \in [Ticks -> 0..1] /\ paid = [paid EXCEPT !.late = paid.late]
    BY DEF Inv, PaidInv
  <2> QED BY <2>1, <2>2, <2>3, <2>4, WorldMoves
<1> QED BY <1>1, <1>2, <1>3, <1>4, <1>5, <1>6, <1>7 DEF Next

\* In every reachable state.
LEMMA Invariant == Spec => []Inv
BY InitInv, NextInv, PTL DEF Spec

-----------------------------------------------------------------------------
(* What follows *)

\* What was paid for a batch is within its hold.
LEMMA SpentWithinHold ==
    ASSUME Inv, NEW b \in Batches
    PROVE  /\ paid.searches[b] * SearchPrice + paid.models[b] * ModelPrice \in Nat
           /\ HeldFor(b) \in Nat
           /\ paid.searches[b] * SearchPrice + paid.models[b] * ModelPrice <= HeldFor(b)
<1>1. /\ paid.searches[b] \in Nat /\ paid.models[b] \in Nat
      /\ paid.searches[b] <= QueriesIn(b) /\ paid.models[b] <= 1
      /\ paid.searches[b] + paid.models[b] > 0 => \E c \in ClaimsOf(b) : c.admitted
  BY DEF Inv, PaidInv, EachRequestOnce
<1>2. SearchPrice \in Nat /\ ModelPrice \in Nat /\ QueriesIn(b) \in Nat /\ Envelope(b) \in Nat
  BY Constants, BatchQueries
<1>3. HeldFor(b) \in Nat
  BY <1>2 DEF HeldFor
<1>4. CASE paid.searches[b] + paid.models[b] = 0
  <2>1. paid.searches[b] = 0 /\ paid.models[b] = 0
    BY <1>1, <1>4
  <2> QED BY <1>2, <1>3, <2>1
<1>5. CASE paid.searches[b] + paid.models[b] > 0
  <2>1. HeldFor(b) = QueriesIn(b) * SearchPrice + ModelPrice
    BY <1>1, <1>5 DEF HeldFor, Envelope
  <2>2. \A p, n, q, m \in Nat : n <= q => n * p \in Nat /\ q * p \in Nat /\ n * p <= q * p
    OBVIOUS
  <2>3. /\ paid.searches[b] * SearchPrice \in Nat /\ QueriesIn(b) * SearchPrice \in Nat
        /\ paid.searches[b] * SearchPrice <= QueriesIn(b) * SearchPrice
    BY <1>1, <1>2, <2>2
  <2>4. paid.models[b] * ModelPrice \in Nat /\ paid.models[b] * ModelPrice <= ModelPrice
    <3>1. paid.models[b] = 0 \/ paid.models[b] = 1
      BY <1>1
    <3> QED BY <1>2, <3>1
  <2>5. PICK x \in Nat, y \in Nat, z \in Nat : /\ x = paid.searches[b] * SearchPrice
                                               /\ y = QueriesIn(b) * SearchPrice
                                               /\ z = paid.models[b] * ModelPrice
    BY <2>3, <2>4
  <2> QED BY <1>2, <1>3, <2>1, <2>3, <2>4, <2>5
<1> QED BY <1>1, <1>3, <1>4, <1>5

\* The sum of the requests is within the sum of the holds, and that within the
\* cap.
LEMMA SpendFollows == Inv => SpendWithinCap
<1> SUFFICES ASSUME Inv PROVE SpendWithinCap
  OBVIOUS
<1> DEFINE f == [b \in Batches |-> paid.searches[b] * SearchPrice + paid.models[b] * ModelPrice]
           g == [b \in Batches |-> HeldFor(b)]
<1>1. \A b \in Batches : f[b] \in Nat /\ g[b] \in Nat /\ f[b] <= g[b]
  BY SpentWithinHold
<1>2. SumFunction(f) = SumFunctionOnSet(f, Batches) /\ SumFunction(g) = SumFunctionOnSet(g, Batches)
  BY DEF SumFunction
<1>3. SumFunction(g) = Held /\ Held \in Nat /\ Held <= Cap /\ Cap \in Nat
  BY Constants DEF Inv, LedgerInv, BudgetInv
<1>4. SumFunction(f) \in Nat /\ SumFunction(f) <= Held
  <2> HIDE DEF f, g
  <2>1. SumFunctionOnSet(f, Batches) <= SumFunctionOnSet(g, Batches)
    BY <1>1, BatchesFinite, SumBelow
  <2>2. SumFunctionOnSet(f, Batches) \in Nat
    BY <1>1, BatchesFinite, SumWithout
  <2> QED BY <1>2, <1>3, <2>1, <2>2
<1>5. SumFunction(f) <= Cap
  <2> HIDE DEF f, g
  <2> QED BY <1>3, <1>4
<1> QED BY <1>5 DEF SpendWithinCap

\* What is spent by all ticks together, in requests of every batch and cycle,
\* never exceeds the approved amount, whatever is lost, crashes or overlaps
\* (SpendWithinCap), for any plan, prices and cap.
THEOREM SpendingWithinCap == Spec => []SpendWithinCap
BY Invariant, SpendFollows, PTL

\* No query and no model request of a batch goes out twice, and none without an
\* admitted hold (EachRequestOnce).
THEOREM RequestsOnce == Spec => []EachRequestOnce
<1>1. Inv => EachRequestOnce
  BY DEF Inv, PaidInv
<1> QED BY <1>1, Invariant, PTL

\* Facts are committed only into a workspace that confirms the scope they were
\* searched for (FactsMatchScope).
THEOREM FactsMatch == Spec => []FactsMatchScope
<1>1. Inv => FactsMatchScope
  BY DEF Inv, LedgerInv
<1> QED BY <1>1, Invariant, PTL

\* After a declined hold no later tick resumes its cycle (DeclinedIsFinal).
THEOREM DeclinedStays == Spec => []DeclinedIsFinal
<1>1. Inv => DeclinedIsFinal
  BY DEF Inv, LedgerInv
<1> QED BY <1>1, Invariant, PTL

\* A claim is settled, worked on, or was left open by a fault, a lost authority
\* or two lost races (NoClaimIsForgotten).
THEOREM ClaimsMinded == Spec => []NoClaimIsForgotten
<1>1. ASSUME Inv PROVE NoClaimIsForgotten
  <2> SUFFICES ASSUME NEW c \in claims
               PROVE  \/ SettlementsOf(c.batch) # {} \/ c.batch \in paid.left
                      \/ Working(c.attempt) /\ Batch(c.attempt) = c.batch
    BY DEF NoClaimIsForgotten
  <2>1. Minded(c)
    BY <1>1 DEF Inv, PaidInv
  <2> QED BY <2>1 DEF Minded, Searching, Settling, Working
<1> QED BY <1>1, Invariant, PTL

\* Every variable keeps its type, a tick at work has a batch, and at most one
\* request of a tick goes out after its authority went (TypeOK).
THEOREM TypeCorrect == Spec => []TypeOK
<1>1. ASSUME Inv PROVE TypeOK
  <2>1. \A t \in Ticks : /\ run[t].pc \in States /\ run[t].plan \in Seq(Batches)
                         /\ run[t].pc \in {"idle", "load", "done"} <=> run[t].plan = <<>>
                         /\ run[t].attempt \in 1..2
    BY <1>1 DEF Inv, RunInv, RunType, PlanInv
  <2>2. /\ paid.searches \in [Batches -> Nat] /\ paid.models \in [Batches -> Nat]
        /\ paid.left \subseteq Batches /\ paid.late \in [Ticks -> 0..1]
    BY <1>1 DEF Inv, PaidInv
  <2>3. /\ claims \subseteq ClaimType /\ settled \subseteq SettlementType /\ wire \subseteq RequestType
        /\ WorldInv
    BY <1>1 DEF Inv, LedgerInv, WireInv
  <2> QED BY <2>1, <2>2, <2>3 DEF TypeOK, ClaimType, SettlementType, RequestType, WorldInv
<1> QED BY <1>1, Invariant, PTL

==============================================================================
