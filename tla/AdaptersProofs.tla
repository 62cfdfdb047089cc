---------------------------- MODULE AdaptersProofs ----------------------------
(***************************************************************************)
(* Proofs about the provider adapters, for every set of JSON values,       *)
(* schemas, models, rates and options.                                     *)
(*                                                                         *)
(* redact, the mock's default and the validator are recursive functions    *)
(* over trees.  The library's induction theorems are out of the provers'   *)
(* reach here, so the first section proves what is needed of them with     *)
(* functions and sets alone: a set of heights has a least element (Least), *)
(* so that a property of all trees follows from a tree of the lowest       *)
(* height that has it not (Lowest), and so that equations f[v] = ... that  *)
(* only ask f about what is lower have one solution (SomeSolution for      *)
(* functions into a given set, SomeTree for those that build trees).       *)
(*                                                                         *)
(* Then redact (RedactIsClean), the mock's answers (DefaultIsAccepted,     *)
(* TouchedIsAccepted), rounding and prices, the log, and the adapters,     *)
(* whose steps are steps of Logging and Pricing.                           *)
(***************************************************************************)
EXTENDS Adapters, FiniteSetTheorems, TLAPS

\* Every set of numbers has a least one: smaller intervals are smaller sets.
LEMMA Least ==
  ASSUME NEW N, N \subseteq Nat, NEW i \in N
  PROVE  \E n \in N : \A m \in N : n <= m
<1> DEFINE D == {0 .. n : n \in N \cap (0 .. i)}
<1>1. IsFiniteSet(0 .. i)
  BY FS_Interval
<1>2. IsWellFoundedOn(StrictSubsetOrdering(0 .. i), SUBSET (0 .. i))
  BY <1>1, FS_FiniteSubsetsOfFinite, FS_StrictSubsetOrderingWellFounded
<1>3. D \subseteq SUBSET (0 .. i) /\ 0 .. i \in D
  OBVIOUS
<1>4. PICK T \in D : \A U \in D : <<U, T>> \notin StrictSubsetOrdering(0 .. i)
  <2> HIDE DEF D
  <2> QED BY <1>2, <1>3, WFMin
<1>5. PICK n \in N \cap (0 .. i) : T = 0 .. n
  BY <1>4
<1>6. ASSUME NEW m \in N, m < n PROVE FALSE
  <2>1. 0 .. m \in D /\ 0 .. m \in SUBSET (0 .. i) /\ 0 .. n \in SUBSET (0 .. i)
    BY <1>5, <1>6
  <2>2. 0 .. m # 0 .. n /\ 0 .. m \subseteq 0 .. n
    <3>1. n \in 0 .. n /\ n \notin 0 .. m
      BY <1>6
    <3>2. 0 .. m \subseteq 0 .. n
      BY <1>6
    <3> QED BY <3>1, <3>2
  <2> QED BY <1>4, <1>5, <2>1, <2>2 DEF StrictSubsetOrdering
<1> QED BY <1>5, <1>6

\* What is not empty has an element of the lowest rank.
LEMMA Lowest ==
  ASSUME NEW D, NEW rank \in [D -> Nat], NEW B, B \subseteq D, B # {}
  PROVE  \E d \in B : \A e \in B : rank[d] <= rank[e]
<1> DEFINE N == {rank[e] : e \in B}
<1>1. N \subseteq Nat /\ N # {}
  OBVIOUS
<1>2. PICK k \in N : \A j \in N : k <= j
  <2> HIDE DEF N
  <2> QED BY <1>1, Least
<1> QED BY <1>2

\* g and h agree on what is lower than d.
AgreeBelow(g, h, rank, D, d) == \A e \in D : rank[e] < rank[d] => g[e] = h[e]

\* What F makes of a function at d depends on what is lower than d only.
Descends(F, rank, D, R) ==
  \A g, h \in [D -> R], d \in D : AgreeBelow(g, h, rank, D, d) => F[g][d] = F[h][d]

\* h solves h = F[h] up to rank n.
Solves(h, F, rank, D, n) == \A d \in D : rank[d] < n => h[d] = F[h][d]

\* Two solutions, up to m and up to n, agree where both hold.
LEMMA OneSolution ==
  ASSUME NEW D, NEW R, NEW rank \in [D -> Nat], NEW F, Descends(F, rank, D, R),
         NEW m \in Nat, NEW g \in [D -> R], Solves(g, F, rank, D, m),
         NEW n \in Nat, NEW h \in [D -> R], Solves(h, F, rank, D, n),
         NEW d \in D, rank[d] < m, rank[d] < n
  PROVE  g[d] = h[d]
<1> DEFINE B == {e \in D : rank[e] < m /\ rank[e] < n /\ g[e] # h[e]}
<1>1. ASSUME B # {} PROVE FALSE
  <2>1. PICK e \in B : \A x \in B : rank[e] <= rank[x]
    <3>1. B \subseteq D
      OBVIOUS
    <3> HIDE DEF B
    <3> QED BY <1>1, <3>1, Lowest
  <2>2. AgreeBelow(g, h, rank, D, e)
    BY <2>1 DEF AgreeBelow
  <2>3. F[g][e] = F[h][e]
    BY <2>1, <2>2 DEF Descends
  <2> QED BY <2>1, <2>3 DEF Solves
<1> QED BY <1>1

\* There is a solution up to any rank: F of one up to the rank before.
LEMMA SolutionBelow ==
  ASSUME NEW D, NEW R, NEW r \in R, NEW rank \in [D -> Nat], NEW F \in [[D -> R] -> [D -> R]],
         Descends(F, rank, D, R), NEW n \in Nat
  PROVE  \E h \in [D -> R] : Solves(h, F, rank, D, n)
<1> DEFINE B == {k \in Nat : ~ \E h \in [D -> R] : Solves(h, F, rank, D, k)}
<1>1. ASSUME B # {} PROVE FALSE
  <2>1. PICK k \in B : \A j \in B : k <= j
    <3>1. B \subseteq Nat
      OBVIOUS
    <3> HIDE DEF B
    <3> QED BY <1>1, <3>1, Least
  <2>2. CASE k = 0
    <3>1. [d \in D |-> r] \in [D -> R] /\ Solves([d \in D |-> r], F, rank, D, 0)
      BY DEF Solves
    <3> QED BY <2>2, <3>1
  <2>3. CASE k # 0
    <3>1. k - 1 \in Nat /\ k - 1 \notin B
      BY <2>1, <2>3
    <3>2. PICK g \in [D -> R] : Solves(g, F, rank, D, k - 1)
      BY <3>1
    <3>3. F[g] \in [D -> R]
      OBVIOUS
    <3>4. ASSUME NEW d \in D, rank[d] < k
          PROVE  F[F[g]][d] = F[g][d]
      <4>1. AgreeBelow(F[g], g, rank, D, d)
        BY <2>1, <3>2, <3>4 DEF AgreeBelow, Solves
      <4> QED BY <3>3, <4>1 DEF Descends
    <3>5. Solves(F[g], F, rank, D, k)
      BY <3>4 DEF Solves
    <3> QED BY <3>3, <3>5
  <2> QED BY <2>2, <2>3
<1> QED BY <1>1

\* What a recursion is asked for, and what it then has.
Recursion(F, rank, D, R) ==
  /\ R # {} /\ rank \in [D -> Nat]
  /\ F \in [[D -> R] -> [D -> R]]
  /\ Descends(F, rank, D, R)

HasSolution(F, D, R) == \E h \in [D -> R] : h = F[h]

\* A recursion that goes down in rank has a solution.
LEMMA SomeSolution ==
  ASSUME NEW D, NEW R, NEW rank, NEW F, Recursion(F, rank, D, R)
  PROVE  HasSolution(F, D, R)
<1>0. /\ rank \in [D -> Nat] /\ F \in [[D -> R] -> [D -> R]]
      /\ Descends(F, rank, D, R) /\ \E r : r \in R
  BY DEF Recursion
<1> DEFINE H(n) == CHOOSE h : h \in [D -> R] /\ Solves(h, F, rank, D, n)
           k == [d \in D |-> H(rank[d] + 1)[d]]
<1>1. ASSUME NEW n \in Nat PROVE H(n) \in [D -> R] /\ Solves(H(n), F, rank, D, n)
  BY <1>0, SolutionBelow
<1> HIDE DEF H
<1>2. k \in [D -> R]
  BY <1>0, <1>1
<1>3. ASSUME NEW d \in D PROVE k[d] = F[k][d]
  <2> DEFINE g == H(rank[d] + 1)
  <2>1. rank[d] + 1 \in Nat /\ rank[d] < rank[d] + 1
    BY <1>0
  <2>2. g \in [D -> R] /\ Solves(g, F, rank, D, rank[d] + 1)
    BY <1>1, <2>1
  <2>3. ASSUME NEW e \in D, rank[e] < rank[d] PROVE k[e] = g[e]
    <3>1. rank[e] + 1 \in Nat /\ rank[e] < rank[e] + 1 /\ rank[e] < rank[d] + 1
      BY <1>0, <2>3
    <3>2. H(rank[e] + 1) \in [D -> R] /\ Solves(H(rank[e] + 1), F, rank, D, rank[e] + 1)
      BY <1>1, <3>1
    <3> HIDE DEF g
    <3>3. H(rank[e] + 1)[e] = g[e]
      BY <2>1, <2>2, <3>1, <3>2, <1>0, OneSolution
    <3> QED BY <3>3
  <2>4. AgreeBelow(k, g, rank, D, d)
    BY <2>3 DEF AgreeBelow
  <2>5. F[k][d] = F[g][d]
    BY <1>0, <1>2, <2>2, <2>4 DEF Descends
  <2>6. k[d] = g[d] /\ g[d] = F[g][d]
    BY <2>1, <2>2 DEF Solves
  <2> QED BY <2>5, <2>6
<1>4. F[k] \in [D -> R]
  BY <1>0, <1>2
<1>5. k = F[k]
  BY <1>2, <1>3, <1>4
<1> HIDE DEF k
<1> QED BY <1>2, <1>5 DEF HasSolution

\* A value made of the values of other things: where a shape is no leaf, each
\* name has the mark, or what h makes of the thing it is made from.
Built(h, t) ==
  IF t.leaf THEN t.value
  ELSE <<t.kind, [k \in t.names |-> IF k \in t.marked THEN Redacted ELSE h[t.from[k]]]>>

\* What a shape is made from is lower.
Shapes(T, rank, D) ==
  \A d \in D : ~T[d].leaf =>
    \A k \in T[d].names : k \notin T[d].marked =>
      T[d].from[k] \in D /\ rank[T[d].from[k]] < rank[d]

\* What is built of the same lower things is the same.
LEMMA BuiltAgree ==
  ASSUME NEW D, NEW rank, NEW T, Shapes(T, rank, D), NEW g, NEW h, NEW d \in D,
         \A e \in D : rank[e] < rank[d] => g[e] = h[e]
  PROVE  Built(g, T[d]) = Built(h, T[d])
<1>1. CASE T[d].leaf
  BY <1>1 DEF Built
<1>2. CASE ~T[d].leaf
  <2>1. \A k \in T[d].names : k \notin T[d].marked => g[T[d].from[k]] = h[T[d].from[k]]
    BY <1>2 DEF Shapes
  <2> QED BY <1>2, <2>1 DEF Built
<1> QED BY <1>1, <1>2

BuiltTo(h, T, rank, D, n) == \A d \in D : rank[d] < n => h[d] = Built(h, T[d])

\* Two functions built up to m and up to n agree where both are.
LEMMA OneTree ==
  ASSUME NEW D, NEW rank \in [D -> Nat], NEW T, Shapes(T, rank, D),
         NEW m \in Nat, NEW g, BuiltTo(g, T, rank, D, m),
         NEW n \in Nat, NEW h, BuiltTo(h, T, rank, D, n),
         NEW d \in D, rank[d] < m, rank[d] < n
  PROVE  g[d] = h[d]
<1> DEFINE B == {e \in D : rank[e] < m /\ rank[e] < n /\ g[e] # h[e]}
<1>1. ASSUME B # {} PROVE FALSE
  <2>1. PICK e \in B : \A x \in B : rank[e] <= rank[x]
    <3>1. B \subseteq D
      OBVIOUS
    <3> HIDE DEF B
    <3> QED BY <1>1, <3>1, Lowest
  <2>2. \A x \in D : rank[x] < rank[e] => g[x] = h[x]
    BY <2>1
  <2>3. Built(g, T[e]) = Built(h, T[e])
    BY <2>1, <2>2, BuiltAgree
  <2> QED BY <2>1, <2>3 DEF BuiltTo
<1> QED BY <1>1

\* There is a function that is built up to any rank.
LEMMA TreeBelow ==
  ASSUME NEW D, NEW rank \in [D -> Nat], NEW T, Shapes(T, rank, D), NEW n \in Nat
  PROVE  \E h : BuiltTo(h, T, rank, D, n)
<1> DEFINE B == {k \in Nat : ~ \E h : BuiltTo(h, T, rank, D, k)}
<1>1. ASSUME B # {} PROVE FALSE
  <2>1. PICK k \in B : \A j \in B : k <= j
    <3>1. B \subseteq Nat
      OBVIOUS
    <3> HIDE DEF B
    <3> QED BY <1>1, <3>1, Least
  <2>2. CASE k = 0
    <3>1. BuiltTo(rank, T, rank, D, 0)
      BY DEF BuiltTo
    <3> QED BY <2>2, <3>1
  <2>3. CASE k # 0
    <3>1. k - 1 \in Nat /\ k - 1 \notin B
      BY <2>1, <2>3
    <3>2. PICK g : BuiltTo(g, T, rank, D, k - 1)
      BY <3>1
    <3> DEFINE h == [d \in D |-> Built(g, T[d])]
    <3>3. ASSUME NEW d \in D, rank[d] < k
          PROVE  h[d] = Built(h, T[d])
      <4>1. \A e \in D : rank[e] < rank[d] => h[e] = g[e]
        BY <2>1, <3>2, <3>3 DEF BuiltTo
      <4> HIDE DEF h
      <4>2. Built(h, T[d]) = Built(g, T[d])
        BY <4>1, BuiltAgree
      <4> QED BY <4>2 DEF h
    <3>4. BuiltTo(h, T, rank, D, k)
      BY <3>3 DEF BuiltTo
    <3> QED BY <3>4
  <2> QED BY <2>2, <2>3
<1> QED BY <1>1

\* What is built of lower things can be built.
LEMMA SomeTree ==
  ASSUME NEW D, NEW rank \in [D -> Nat], NEW T, Shapes(T, rank, D)
  PROVE  \E h : h = [d \in D |-> Built(h, T[d])]
<1> DEFINE H(n) == CHOOSE h : BuiltTo(h, T, rank, D, n)
           k == [d \in D |-> H(rank[d] + 1)[d]]
<1>1. ASSUME NEW n \in Nat PROVE BuiltTo(H(n), T, rank, D, n)
  BY TreeBelow
<1> HIDE DEF H
<1>2. ASSUME NEW d \in D PROVE k[d] = Built(k, T[d])
  <2> DEFINE g == H(rank[d] + 1)
  <2>1. rank[d] + 1 \in Nat /\ rank[d] < rank[d] + 1 /\ BuiltTo(g, T, rank, D, rank[d] + 1)
    BY <1>1
  <2>2. ASSUME NEW e \in D, rank[e] < rank[d] PROVE k[e] = g[e]
    <3>1. rank[e] + 1 \in Nat /\ rank[e] < rank[e] + 1 /\ rank[e] < rank[d] + 1
      BY <2>2
    <3>2. BuiltTo(H(rank[e] + 1), T, rank, D, rank[e] + 1)
      BY <1>1, <3>1
    <3> HIDE DEF g
    <3>3. H(rank[e] + 1)[e] = g[e]
      BY <2>1, <3>1, <3>2, OneTree
    <3> QED BY <3>3
  <2> HIDE DEF k
  <2>3. Built(k, T[d]) = Built(g, T[d])
    BY <2>2, BuiltAgree
  <2>4. k[d] = g[d]
    BY DEF k
  <2> QED BY <2>1, <2>3, <2>4 DEF BuiltTo
<1>3. k = [d \in D |-> Built(k, T[d])]
  <2>1. k = [d \in D |-> k[d]]
    OBVIOUS
  <2> HIDE DEF k
  <2> QED BY <1>2, <2>1
<1> QED BY <1>3

RedactShape(v) ==
  [leaf |-> ~Walked(v), value |-> Scrub(v), kind |-> v[1], names |-> DOMAIN v[2],
   from |-> v[2], marked |-> {k \in DOMAIN v[2] : Sensitive(v, k)}]

RedactOf(h, v) ==
  IF Walked(v)
    THEN <<v[1], [k \in DOMAIN v[2] |->
                    IF Sensitive(v, k) THEN Redacted ELSE h[v[2][k]]]>>
    ELSE Scrub(v)

\* Redact solves the equation it is defined by.
LEMMA RedactIs ==
  ASSUME NEW v \in Values
  PROVE  Redact[v] = RedactOf(Redact, v)
<1> DEFINE T == [w \in Values |-> RedactShape(w)]
<1>1. ASSUME NEW w \in Values, NEW h PROVE RedactOf(h, w) = Built(h, T[w])
  BY <1>1 DEF RedactOf, Built, RedactShape
<1>2. Shapes(T, Height, Values)
  BY ValuesAreTrees DEF Shapes, RedactShape, Walked
<1> HIDE DEF T
<1>3. PICK g : g = [w \in Values |-> Built(g, T[w])]
  BY <1>2, ValuesAreTrees, SomeTree
<1>4. g = [w \in Values |-> RedactOf(g, w)]
  BY <1>1, <1>3
<1>5. Redact = CHOOSE h : h = [w \in Values |-> RedactOf(h, w)]
  BY Zenon DEF Redact, RedactOf
<1>6. Redact = [w \in Values |-> RedactOf(Redact, w)]
  BY <1>4, <1>5
<1> QED BY <1>6

\* The equation of Leaves, as one of the functions h it is asked of.
LeavesOf(h, v) ==
  IF Compound(v)
    THEN UNION {{<<Sensitive(v, k) \/ leaf[1], leaf[2]>> : leaf \in h[v[2][k]]} :
                 k \in DOMAIN v[2]}
    ELSE {<<FALSE, v>>}

LeafSets == SUBSET (BOOLEAN \X Values)

\* Leaves gives sets of leaves, whatever is put for those of the parts.
LEMMA LeavesTyped ==
  ASSUME NEW h, NEW v \in Values,
         \A w \in Values : Height[w] < Height[v] => h[w] \in LeafSets
  PROVE  LeavesOf(h, v) \in LeafSets
<1>1. CASE Compound(v)
  <2>1. ASSUME NEW k \in DOMAIN v[2], NEW leaf \in h[v[2][k]]
        PROVE  <<Sensitive(v, k) \/ leaf[1], leaf[2]>> \in BOOLEAN \X Values
    <3>1. h[v[2][k]] \in LeafSets
      BY <1>1, ValuesAreTrees
    <3>2. leaf \in BOOLEAN \X Values
      BY <3>1 DEF LeafSets
    <3> QED BY <3>2
  <2> QED BY <1>1, <2>1 DEF LeavesOf, LeafSets
<1>2. CASE ~Compound(v)
  <2>1. <<FALSE, v>> \in BOOLEAN \X Values
    OBVIOUS
  <2> QED BY <1>2, <2>1 DEF LeavesOf, LeafSets
<1> QED BY <1>1, <1>2

\* Leaves solves the equation it is defined by.
LEMMA LeavesIs ==
  /\ Leaves \in [Values -> LeafSets]
  /\ \A v \in Values : Leaves[v] = LeavesOf(Leaves, v)
<1> DEFINE F == [h \in [Values -> LeafSets] |-> [v \in Values |-> LeavesOf(h, v)]]
<1>1. F \in [[Values -> LeafSets] -> [Values -> LeafSets]]
  <2> SUFFICES ASSUME NEW h \in [Values -> LeafSets], NEW v \in Values
               PROVE  LeavesOf(h, v) \in LeafSets
    OBVIOUS
  <2> QED BY LeavesTyped
<1>2. Descends(F, Height, Values, LeafSets)
  <2> SUFFICES ASSUME NEW g \in [Values -> LeafSets], NEW h \in [Values -> LeafSets],
                      NEW v \in Values, AgreeBelow(g, h, Height, Values, v)
               PROVE  LeavesOf(g, v) = LeavesOf(h, v)
    BY DEF Descends
  <2>1. Compound(v) => \A k \in DOMAIN v[2] : g[v[2][k]] = h[v[2][k]]
    BY ValuesAreTrees DEF AgreeBelow
  <2> QED BY <2>1 DEF LeavesOf
<1>3. {} \in LeafSets /\ Height \in [Values -> Nat]
  BY ValuesAreTrees DEF LeafSets
<1>4. HasSolution(F, Values, LeafSets)
  <2> HIDE DEF F
  <2>1. Recursion(F, Height, Values, LeafSets)
    BY <1>1, <1>2, <1>3 DEF Recursion
  <2> QED BY <2>1, SomeSolution
<1>5. PICK g \in [Values -> LeafSets] : g = [v \in Values |-> LeavesOf(g, v)]
  BY <1>4 DEF HasSolution
<1> HIDE DEF F
<1>6. Leaves = CHOOSE h : h = [v \in Values |-> LeavesOf(h, v)]
  BY Zenon DEF Leaves, LeavesOf
<1>7. Leaves = [v \in Values |-> LeavesOf(Leaves, v)]
  BY <1>5, <1>6
<1>8. \A v \in Values : Leaves[v] = LeavesOf(Leaves, v)
  BY <1>7
<1> DEFINE B == {v \in Values : Leaves[v] \notin LeafSets}
<1>9. ASSUME B # {} PROVE FALSE
  <2>1. PICK v \in B : \A w \in B : Height[v] <= Height[w]
    <3>1. B \subseteq Values
      OBVIOUS
    <3> HIDE DEF B
    <3> QED BY <1>9, <3>1, ValuesAreTrees, Lowest
  <2>2. \A w \in Values : Height[w] < Height[v] => Leaves[w] \in LeafSets
    BY <2>1, ValuesAreTrees
  <2> QED BY <1>8, <2>1, <2>2, LeavesTyped
<1>10. Leaves \in [Values -> LeafSets]
  BY <1>7, <1>9
<1> QED BY <1>8, <1>10

\* Below an object or a list of Values there are lower ones.
LEMMA PartIsLower ==
  ASSUME NEW v \in Values, Compound(v), NEW k \in DOMAIN v[2]
  PROVE  /\ v[2][k] \in Values
         /\ Height[v] \in Nat /\ Height[v[2][k]] \in Nat /\ Height[v[2][k]] < Height[v]
BY ValuesAreTrees

\* What redact makes of an object or a list: one of the same names.
LEMMA RedactedNode ==
  ASSUME NEW v \in Values, Compound(v)
  PROVE  /\ Redact[v] \in Values /\ Compound(Redact[v])
         /\ Redact[v] = <<v[1], Redact[v][2]>>
         /\ Redact[v][2] = [k \in DOMAIN v[2] |-> Redact[v][2][k]]
         /\ DOMAIN Redact[v][2] = DOMAIN v[2]
         /\ \A k \in DOMAIN v[2] :
              /\ Sensitive(Redact[v], k) = Sensitive(v, k)
              /\ Redact[v][2][k] = IF Sensitive(v, k) THEN Redacted ELSE Redact[v[2][k]]
<1> DEFINE f == [k \in DOMAIN v[2] |-> IF Sensitive(v, k) THEN Redacted ELSE Redact[v[2][k]]]
<1>1. Redact[v] = <<v[1], f>>
  BY RedactIs DEF RedactOf, Walked
<1>2. Redact[v] \in Values
  BY RedactionConstants
<1>3. Redact[v][1] = v[1] /\ Redact[v][2] = f
  BY <1>1
<1>4. Compound(Redact[v])
  BY <1>3 DEF Compound
<1>5. \A k : Sensitive(Redact[v], k) = Sensitive(v, k)
  BY <1>3 DEF Sensitive
<1> QED BY <1>1, <1>2, <1>3, <1>4, <1>5

\* A leaf is redacted by scrubbing it.
LEMMA RedactedLeaf ==
  ASSUME NEW v \in Values, ~Compound(v)
  PROVE  /\ Redact[v] = Scrub(v) /\ Redact[v] \in Values /\ ~Compound(Redact[v])
         /\ Leaves[v] = {<<FALSE, v>>} /\ Leaves[Redact[v]] = {<<FALSE, Redact[v]>>}
<1>1. Redact[v] = Scrub(v) /\ Redact[v] \in Values
  BY RedactIs, RedactionConstants DEF RedactOf, Walked
<1>2. ~Compound(Redact[v])
  BY <1>1 DEF Scrub, Redacted, Compound
<1> QED BY <1>1, <1>2, LeavesIs DEF LeavesOf

\* A leaf of an object or a list is one of its parts' leaves.
LEMMA LeafOfNode ==
  ASSUME NEW v \in Values, Compound(v), NEW leaf
  PROVE  leaf \in Leaves[v] <=>
           \E k \in DOMAIN v[2] : \E l \in Leaves[v[2][k]] : leaf = <<Sensitive(v, k) \/ l[1], l[2]>>
<1>1. Leaves[v] = UNION {{<<Sensitive(v, k) \/ l[1], l[2]>> : l \in Leaves[v[2][k]]} :
                          k \in DOMAIN v[2]}
  BY LeavesIs DEF LeavesOf
<1> QED BY <1>1

\* Nothing sensitive and no key is left.
Hidden(v) ==
  \A leaf \in Leaves[Redact[v]] : leaf[2] # KeyString /\ (leaf[1] => leaf[2] = Redacted)

\* All the rest is.
Kept(v) ==
  \A leaf \in Leaves[v] : leaf[1] \/ leaf[2] = KeyString \/ leaf \in Leaves[Redact[v]]

\* What is redacted stays as it is.
Stable(v) == Redact[Redact[v]] = Redact[v]

\* What redact makes of a leaf is clean.
LEMMA LeafIsClean ==
  ASSUME NEW v \in Values, ~Compound(v)
  PROVE  Hidden(v) /\ Kept(v) /\ Stable(v)
<1>1. /\ Redact[v] = Scrub(v) /\ Redact[v] \in Values /\ ~Compound(Redact[v])
      /\ Leaves[v] = {<<FALSE, v>>} /\ Leaves[Redact[v]] = {<<FALSE, Redact[v]>>}
  BY RedactedLeaf
<1>2. Redacted # KeyString
  BY RedactionConstants DEF Redacted, KeyString
<1>3. Redact[v] # KeyString /\ (v # KeyString => Redact[v] = v)
  BY <1>1, <1>2 DEF Scrub
<1>4. Redact[Redact[v]] = Scrub(Redact[v])
  BY <1>1, RedactedLeaf
<1>5. Stable(v)
  BY <1>3, <1>4 DEF Stable, Scrub
<1>6. Hidden(v)
  <2>1. ASSUME NEW leaf \in Leaves[Redact[v]] PROVE ~leaf[1] /\ leaf[2] = Redact[v]
    <3>1. leaf = <<FALSE, Redact[v]>>
      BY <1>1, Zenon
    <3> QED BY <3>1
  <2> QED BY <1>3, <2>1 DEF Hidden
<1>7. Kept(v)
  <2>1. ASSUME NEW leaf \in Leaves[v]
        PROVE  leaf[2] = v /\ (v # KeyString => leaf \in Leaves[Redact[v]])
    <3>1. leaf = <<FALSE, v>>
      BY <1>1, Zenon
    <3>2. v # KeyString => leaf \in Leaves[Redact[v]]
      BY <1>1, <1>3, <3>1
    <3> QED BY <3>1, <3>2
  <2> QED BY <2>1 DEF Kept
<1> QED BY <1>5, <1>6, <1>7

\* What is redacted below a node is so in the node.
LEMMA NodeIsClean ==
  ASSUME NEW v \in Values, Compound(v),
         \A k \in DOMAIN v[2] : Hidden(v[2][k]) /\ Kept(v[2][k]) /\ Stable(v[2][k])
  PROVE  Hidden(v) /\ Kept(v) /\ Stable(v)
<1> DEFINE r == Redact[v]
<1>1. /\ r \in Values /\ Compound(r) /\ r = <<v[1], r[2]>> /\ DOMAIN r[2] = DOMAIN v[2]
      /\ r[2] = [k \in DOMAIN v[2] |-> r[2][k]]
      /\ \A k \in DOMAIN v[2] :
           /\ Sensitive(r, k) = Sensitive(v, k)
           /\ r[2][k] = IF Sensitive(v, k) THEN Redacted ELSE Redact[v[2][k]]
  BY RedactedNode
<1> HIDE DEF r
<1>2. ASSUME NEW k \in DOMAIN v[2] PROVE r[2][k] \in Values
  BY <1>1, PartIsLower
<1>3. Redacted # KeyString /\ ~Compound(Redacted)
  BY RedactionConstants DEF Redacted, KeyString, Compound
<1>4. ASSUME NEW k \in DOMAIN v[2], Sensitive(v, k)
      PROVE  Leaves[r[2][k]] = {<<FALSE, Redacted>>} /\ r[2][k] = Redacted /\ Redact[Redacted] = Redacted
  <2>1. r[2][k] = Redacted /\ Redacted \in Values
    BY <1>1, <1>2, <1>4
  <2> QED BY <1>3, <2>1, RedactedLeaf DEF Scrub
<1>5. \A leaf \in Leaves[r] : leaf[2] # KeyString /\ (leaf[1] => leaf[2] = Redacted)
  <2> SUFFICES ASSUME NEW leaf \in Leaves[r]
               PROVE  leaf[2] # KeyString /\ (leaf[1] => leaf[2] = Redacted)
    OBVIOUS
  <2>1. PICK k \in DOMAIN v[2] :
          \E l \in Leaves[r[2][k]] : leaf = <<Sensitive(r, k) \/ l[1], l[2]>>
    <3>1. r \in Values /\ Compound(r) /\ DOMAIN r[2] = DOMAIN v[2]
      BY <1>1
    <3>2. \E k \in DOMAIN r[2] :
            \E l \in Leaves[r[2][k]] : leaf = <<Sensitive(r, k) \/ l[1], l[2]>>
      BY <3>1, LeafOfNode, Zenon
    <3> QED BY <3>1, <3>2
  <2>2. PICK l \in Leaves[r[2][k]] : leaf = <<Sensitive(v, k) \/ l[1], l[2]>>
    BY <1>1, <2>1
  <2>3. leaf[2] = l[2] /\ (leaf[1] => Sensitive(v, k) \/ l[1])
    BY <2>2
  <2>4. CASE Sensitive(v, k)
    <3>1. l = <<FALSE, Redacted>>
      <4>1. Leaves[r[2][k]] = {<<FALSE, Redacted>>}
        BY <1>4, <2>4
      <4> QED BY <2>2, <4>1, Zenon
    <3>2. l[2] = Redacted
      BY <3>1
    <3> QED BY <1>3, <2>3, <3>2
  <2>5. CASE ~Sensitive(v, k)
    <3>1. l \in Leaves[Redact[v[2][k]]]
      BY <1>1, <2>2, <2>5
    <3>2. l[2] # KeyString /\ (l[1] => l[2] = Redacted)
      BY <3>1 DEF Hidden
    <3> QED BY <2>3, <2>5, <3>2
  <2> QED BY <2>4, <2>5
<1>6. \A leaf \in Leaves[v] : leaf[1] \/ leaf[2] = KeyString \/ leaf \in Leaves[r]
  <2> SUFFICES ASSUME NEW leaf \in Leaves[v], ~leaf[1], leaf[2] # KeyString
               PROVE  leaf \in Leaves[r]
    OBVIOUS
  <2>1. PICK k \in DOMAIN v[2] :
          \E l \in Leaves[v[2][k]] : leaf = <<Sensitive(v, k) \/ l[1], l[2]>>
    BY LeafOfNode
  <2>2. PICK l \in Leaves[v[2][k]] : leaf = <<Sensitive(v, k) \/ l[1], l[2]>>
    BY <2>1
  <2>3. leaf[2] = l[2] /\ (Sensitive(v, k) \/ l[1] => leaf[1])
    BY <2>2
  <2>4. ~Sensitive(v, k) /\ ~l[1] /\ l[2] # KeyString
    BY <2>3
  <2>5. l \in Leaves[Redact[v[2][k]]]
    BY <2>2, <2>4 DEF Kept
  <2>6. l \in Leaves[r[2][k]] /\ leaf = <<Sensitive(r, k) \/ l[1], l[2]>>
    BY <1>1, <2>2, <2>4, <2>5
  <2> QED BY <1>1, <2>6, LeafOfNode
<1>7. Redact[r] = r
  <2> DEFINE s == Redact[r]
  <2>1. /\ s = <<r[1], s[2]>> /\ s[2] = [k \in DOMAIN r[2] |-> s[2][k]]
        /\ \A k \in DOMAIN r[2] :
             s[2][k] = IF Sensitive(r, k) THEN Redacted ELSE Redact[r[2][k]]
    BY <1>1, RedactedNode
  <2>2. \A k \in DOMAIN v[2] : s[2][k] = r[2][k]
    <3> SUFFICES ASSUME NEW k \in DOMAIN v[2] PROVE s[2][k] = r[2][k]
      OBVIOUS
    <3>1. CASE Sensitive(v, k)
      BY <1>1, <2>1, <3>1
    <3>2. CASE ~Sensitive(v, k)
      <4>1. Redact[Redact[v[2][k]]] = Redact[v[2][k]]
        BY DEF Stable
      <4> QED BY <1>1, <2>1, <3>2, <4>1
    <3> QED BY <3>1, <3>2
  <2>3. s[2] = [k \in DOMAIN v[2] |-> s[2][k]] /\ r[2] = [k \in DOMAIN v[2] |-> r[2][k]]
    BY <1>1, <2>1
  <2> HIDE DEF s
  <2>4. s[2] = r[2]
    BY <2>2, <2>3
  <2>5. r[1] = v[1]
    BY <1>1
  <2>6. s = r
    BY <1>1, <2>1, <2>4, <2>5
  <2> QED BY <2>6 DEF s
<1>8. Hidden(v) /\ Kept(v) /\ Stable(v)
  BY <1>5, <1>6, <1>7 DEF Hidden, Kept, Stable, r
<1> QED BY <1>8

\* security/redaction.py:49-67: every JSON value, however nested.
LEMMA RedactIsClean ==
  ASSUME NEW v \in Values
  PROVE  CleanlyRedacted(v)
<1> DEFINE B == {w \in Values : ~(Hidden(w) /\ Kept(w) /\ Stable(w))}
<1>1. ASSUME B # {} PROVE FALSE
  <2>1. PICK w \in B : \A u \in B : Height[w] <= Height[u]
    <3>1. B \subseteq Values
      OBVIOUS
    <3> HIDE DEF B
    <3> QED BY <1>1, <3>1, ValuesAreTrees, Lowest
  <2>2. CASE Compound(w)
    <3>1. ASSUME NEW k \in DOMAIN w[2]
          PROVE  Hidden(w[2][k]) /\ Kept(w[2][k]) /\ Stable(w[2][k])
      BY <2>1, <2>2, PartIsLower
    <3> QED BY <2>1, <2>2, <3>1, NodeIsClean
  <2>3. CASE ~Compound(w)
    BY <2>1, <2>3, LeafIsClean
  <2> QED BY <2>2, <2>3
<1>2. Hidden(v) /\ Kept(v) /\ Stable(v)
  BY <1>1
<1> QED BY <1>2 DEF CleanlyRedacted, Hidden, Kept, Stable

-----------------------------------------------------------------------------
\* A schema whose default is put together from those of its parts.
Composed(s) ==
  Given(s) = {} /\ (TypeFor(s) = "object" \/ (TypeFor(s) = "array" /\ HasItems(s)))

DefaultOf(h, s) ==
  IF Given(s) # {} THEN GivenTo(s)
  ELSE IF TypeFor(s) = "object"
    THEN <<"object", [k \in DOMAIN Properties(s) |-> h[Properties(s)[k]]]>>
  ELSE IF TypeFor(s) = "array"
    THEN IF HasItems(s) THEN ListOf(h[s.items]) ELSE <<"array", <<>> >>
  ELSE IF TypeFor(s) \in DOMAIN Zero THEN Zero[TypeFor(s)] ELSE EmptyObject

DefaultShape(s) ==
  [leaf |-> ~Composed(s), value |-> DefaultOf(Depth, s), kind |-> TypeFor(s),
   names |-> IF TypeFor(s) = "object" THEN DOMAIN Properties(s) ELSE {1},
   from |-> IF TypeFor(s) = "object" THEN Properties(s) ELSE [i \in {1} |-> s.items],
   marked |-> {}]

\* A list of one item, as a function.
LEMMA SingleItem == ASSUME NEW x PROVE <<x>> = [i \in {1} |-> x]
OBVIOUS

\* packaging checks schemas: what properties holds are schemas less deep.
LEMMA PropertyIsLower ==
  ASSUME NEW s \in Schemas, NEW k \in DOMAIN Properties(s)
  PROVE  /\ Properties(s)[k] \in Schemas
         /\ Depth[s] \in Nat /\ Depth[Properties(s)[k]] \in Nat
         /\ Depth[Properties(s)[k]] < Depth[s]
BY SchemasAreTrees

\* And so is what items holds.
LEMMA ItemsAreLower ==
  ASSUME NEW s \in Schemas, Has(s, "items")
  PROVE  s.items \in Schemas /\ Depth[s] \in Nat /\ Depth[s.items] \in Nat /\ Depth[s.items] < Depth[s]
BY SchemasAreTrees

\* Default solves the equation it is defined by.
LEMMA DefaultIs ==
  ASSUME NEW s \in Schemas
  PROVE  Default[s] = DefaultOf(Default, s)
<1> DEFINE T == [r \in Schemas |-> DefaultShape(r)]
<1>1. ASSUME NEW r \in Schemas, NEW h PROVE DefaultOf(h, r) = Built(h, T[r])
  <2>1. T[r] = DefaultShape(r)
    OBVIOUS
  <2>2. CASE Composed(r) /\ TypeFor(r) = "object"
    <3>1. Given(r) = {} /\ TypeFor(r) = "object"
      BY <2>2 DEF Composed
    <3>2. DefaultOf(h, r) = <<"object", [k \in DOMAIN Properties(r) |-> h[Properties(r)[k]]]>>
      BY <3>1 DEF DefaultOf
    <3>3. Built(h, T[r]) = <<"object", [k \in DOMAIN Properties(r) |-> h[Properties(r)[k]]]>>
      BY <2>1, <2>2, <3>1 DEF Built, DefaultShape
    <3> QED BY <3>2, <3>3
  <2>3. CASE Composed(r) /\ TypeFor(r) # "object"
    <3>1. TypeFor(r) = "array" /\ HasItems(r) /\ Given(r) = {}
      BY <2>3 DEF Composed
    <3>2. DefaultOf(h, r) = <<"array", <<h[r.items]>> >>
      BY <3>1 DEF DefaultOf, ListOf
    <3>3. Built(h, T[r]) = <<"array", [i \in {1} |-> h[r.items]]>>
      BY <2>1, <2>3, <3>1 DEF Built, DefaultShape
    <3> QED BY <3>2, <3>3, SingleItem
  <2>4. CASE ~Composed(r)
    <3>1. DefaultOf(h, r) = DefaultOf(Depth, r)
      BY <2>4 DEF DefaultOf, Composed
    <3> QED BY <2>1, <2>4, <3>1 DEF Built, DefaultShape
  <2> QED BY <2>2, <2>3, <2>4
<1>2. Shapes(T, Depth, Schemas)
  <2> SUFFICES ASSUME NEW r \in Schemas, Composed(r), NEW k \in DefaultShape(r).names
               PROVE  /\ DefaultShape(r).from[k] \in Schemas
                      /\ Depth[DefaultShape(r).from[k]] < Depth[r]
    BY DEF Shapes, DefaultShape
  <2>1. CASE TypeFor(r) = "object"
    BY <2>1, PropertyIsLower DEF DefaultShape
  <2>2. CASE TypeFor(r) # "object"
    <3>1. Has(r, "items")
      BY <2>2 DEF Composed, HasItems
    <3> QED BY <2>2, <3>1, ItemsAreLower DEF DefaultShape
  <2> QED BY <2>1, <2>2
<1> HIDE DEF T
<1>3. PICK g : g = [r \in Schemas |-> Built(g, T[r])]
  BY <1>2, SchemasAreTrees, SomeTree
<1>4. g = [r \in Schemas |-> DefaultOf(g, r)]
  BY <1>1, <1>3
<1>5. Default = CHOOSE h : h = [r \in Schemas |-> DefaultOf(h, r)]
  BY Zenon DEF Default, DefaultOf
<1>6. Default = [r \in Schemas |-> DefaultOf(Default, r)]
  BY <1>4, <1>5
<1> QED BY <1>6

\* The verdict on one value, with the verdicts h on its parts.
AcceptedOf(h, s, v) ==
  /\ v[1] \in Types(s) \/ (v[1] = "integer" /\ "number" \in Types(s))
  /\ Has(s, "const") => v = s.const
  /\ Has(s, "enum") => v \in Range(s.enum)
  /\ Has(s, "narrow") => v \notin {Zero[t] : t \in DOMAIN Zero}
  /\ v[1] = "object" =>
       /\ Required(s) \subseteq DOMAIN v[2]
       /\ \A k \in DOMAIN v[2] \cap DOMAIN Properties(s) : h[Properties(s)[k]][v[2][k]]
  /\ v[1] = "array" /\ Has(s, "items") => \A i \in DOMAIN v[2] : h[s.items][v[2][i]]

Verdicts == [Values -> BOOLEAN]

AcceptsOf(h, s) == [v \in Values |-> AcceptedOf(h, s, v)]

\* Accepts solves the equation it is defined by.
LEMMA AcceptsIs ==
  ASSUME NEW s \in Schemas, NEW v \in Values
  PROVE  Accepts[s][v] <=> AcceptedOf(Accepts, s, v)
<1> DEFINE F == [h \in [Schemas -> Verdicts] |-> [r \in Schemas |-> AcceptsOf(h, r)]]
<1>1. F \in [[Schemas -> Verdicts] -> [Schemas -> Verdicts]]
  <2>1. ASSUME NEW h, NEW r PROVE AcceptsOf(h, r) \in Verdicts
    <3>1. ASSUME NEW w PROVE AcceptedOf(h, r, w) \in BOOLEAN
      BY DEF AcceptedOf
    <3> QED BY <3>1 DEF AcceptsOf, Verdicts
  <2> QED BY <2>1
<1>2. Descends(F, Depth, Schemas, Verdicts)
  <2> SUFFICES ASSUME NEW g \in [Schemas -> Verdicts], NEW h \in [Schemas -> Verdicts],
                      NEW r \in Schemas, AgreeBelow(g, h, Depth, Schemas, r)
               PROVE  AcceptsOf(g, r) = AcceptsOf(h, r)
    BY DEF Descends
  <2>1. \A k \in DOMAIN Properties(r) : g[Properties(r)[k]] = h[Properties(r)[k]]
    BY PropertyIsLower DEF AgreeBelow
  <2>2. Has(r, "items") => g[r.items] = h[r.items]
    BY ItemsAreLower DEF AgreeBelow
  <2>3. ASSUME NEW w \in Values PROVE AcceptedOf(g, r, w) = AcceptedOf(h, r, w)
    BY <2>1, <2>2 DEF AcceptedOf
  <2> QED BY <2>3 DEF AcceptsOf
<1>3. Recursion(F, Depth, Schemas, Verdicts)
  <2>1. [w \in Values |-> TRUE] \in Verdicts /\ Depth \in [Schemas -> Nat]
    BY SchemasAreTrees DEF Verdicts
  <2> HIDE DEF F
  <2> QED BY <1>1, <1>2, <2>1 DEF Recursion
<1>4. HasSolution(F, Schemas, Verdicts)
  <2> HIDE DEF F
  <2> QED BY <1>3, SomeSolution
<1>5. PICK g \in [Schemas -> Verdicts] : g = [r \in Schemas |-> AcceptsOf(g, r)]
  BY <1>4 DEF HasSolution
<1> HIDE DEF F
<1>6. Accepts = CHOOSE h : h = [r \in Schemas |-> AcceptsOf(h, r)]
  BY Zenon DEF Accepts, AcceptsOf, AcceptedOf
<1>7. Accepts = [r \in Schemas |-> AcceptsOf(Accepts, r)]
  BY <1>5, <1>6
<1>8. Accepts[s] = AcceptsOf(Accepts, s)
  BY <1>7
<1> QED BY <1>8 DEF AcceptsOf

PlainOf(h, s) ==
  /\ ~Has(s, "always")
  /\ IF Given(s) # {} THEN \A v \in Given(s) : Accepts[s][v]
     ELSE /\ TypeFor(s) # "none" /\ ~Has(s, "narrow") /\ ~Has(s, "enum")
          /\ TypeFor(s) = "object" =>
               /\ Required(s) \subseteq DOMAIN Properties(s)
               /\ \A k \in DOMAIN Properties(s) : h[Properties(s)[k]]
          /\ TypeFor(s) = "array" /\ HasItems(s) => h[s.items]

\* Plain solves the equation it is defined by.
LEMMA PlainIs ==
  ASSUME NEW s \in Schemas
  PROVE  Plain[s] <=> PlainOf(Plain, s)
<1> DEFINE F == [h \in [Schemas -> BOOLEAN] |-> [r \in Schemas |-> PlainOf(h, r)]]
<1>1. F \in [[Schemas -> BOOLEAN] -> [Schemas -> BOOLEAN]]
  <2>1. ASSUME NEW h, NEW r PROVE PlainOf(h, r) \in BOOLEAN
    BY DEF PlainOf
  <2> QED BY <2>1
<1>2. Descends(F, Depth, Schemas, BOOLEAN)
  <2> SUFFICES ASSUME NEW g \in [Schemas -> BOOLEAN], NEW h \in [Schemas -> BOOLEAN],
                      NEW r \in Schemas, AgreeBelow(g, h, Depth, Schemas, r)
               PROVE  PlainOf(g, r) = PlainOf(h, r)
    BY DEF Descends
  <2>1. \A k \in DOMAIN Properties(r) : g[Properties(r)[k]] = h[Properties(r)[k]]
    BY PropertyIsLower DEF AgreeBelow
  <2>2. HasItems(r) => g[r.items] = h[r.items]
    BY ItemsAreLower DEF AgreeBelow, HasItems
  <2> QED BY <2>1, <2>2 DEF PlainOf
<1>3. Recursion(F, Depth, Schemas, BOOLEAN)
  <2>1. Depth \in [Schemas -> Nat]
    BY SchemasAreTrees
  <2> HIDE DEF F
  <2> QED BY <1>1, <1>2, <2>1 DEF Recursion
<1>4. HasSolution(F, Schemas, BOOLEAN)
  <2> HIDE DEF F
  <2> QED BY <1>3, SomeSolution
<1>5. PICK g \in [Schemas -> BOOLEAN] : g = [r \in Schemas |-> PlainOf(g, r)]
  BY <1>4 DEF HasSolution
<1> HIDE DEF F
<1>6. Plain = CHOOSE h : h = [r \in Schemas |-> PlainOf(h, r)]
  BY Zenon DEF Plain, PlainOf
<1>7. Plain = [r \in Schemas |-> PlainOf(Plain, r)]
  BY <1>5, <1>6
<1>8. Plain[s] = PlainOf(Plain, s)
  BY <1>7
<1> QED BY <1>8

\* TypeFor picks one of the types the schema allows, or none.
LEMMA TypeForIn ==
  ASSUME NEW s \in Schemas, TypeFor(s) # "none"
  PROVE  TypeFor(s) \in Types(s) /\ TypeFor(s) \in Kinds
<1> DEFINE named == IF Has(s, "types") THEN {i \in DOMAIN s.types : s.types[i] # "null"} ELSE {}
<1>1. CASE Has(s, "type")
  <2>1. TypeFor(s) = s.type /\ Types(s) = {s.type}
    BY <1>1 DEF TypeFor, Types
  <2> QED BY <1>1, <2>1, SchemasAreTrees
<1>2. CASE ~Has(s, "type") /\ named = {}
  BY <1>2 DEF TypeFor
<1>3. CASE ~Has(s, "type") /\ named # {}
  <2>1. Has(s, "types") /\ s.types \in Seq(Kinds)
    BY <1>3, SchemasAreTrees
  <2>2. named \subseteq DOMAIN s.types
    BY <2>1
  <2>3. named \subseteq Nat
    BY <2>1, <2>2
  <2>4. \E i \in named : \A j \in named : i <= j
    <3> HIDE DEF named
    <3> QED BY <1>3, <2>3, Least
  <2> DEFINE first == CHOOSE i \in named : \A j \in named : i <= j
  <2>5. first \in named
    <3> HIDE DEF named
    <3> QED BY <2>4
  <2>6. TypeFor(s) = s.types[first]
    BY <1>3 DEF TypeFor
  <2>7. Types(s) = Range(s.types)
    BY <1>3, <2>1 DEF Types
  <2> HIDE DEF first
  <2>8. first \in DOMAIN s.types
    BY <2>2, <2>5
  <2> QED BY <2>1, <2>6, <2>7, <2>8 DEF Range
<1> QED BY <1>1, <1>2, <1>3

\* The zero values are of their types, where that of number is an integer.
LEMMA ZeroIs ==
  /\ DOMAIN Zero = {"string", "integer", "number", "boolean", "null"}
  /\ Zero["string"] = <<"string", "">>
  /\ \A t \in DOMAIN Zero :
       /\ Zero[t][1] = t \/ (Zero[t][1] = "integer" /\ t = "number")
       /\ Zero[t][1] # "object" /\ Zero[t][1] # "array"
<1>1. DOMAIN Zero = {"string", "integer", "number", "boolean", "null"}
  BY DEF Zero
<1>2. Zero["string"] = <<"string", "">>
  BY DEF Zero
<1>3. Zero["string"][1] = "string" /\ Zero["null"][1] = "null"
  BY DEF Zero
<1>4. Zero["integer"][1] = "integer" /\ Zero["number"][1] = "integer"
  BY DEF Zero
<1>5. Zero["boolean"][1] = "boolean"
  <2>1. Zero["boolean"] = <<"boolean", FALSE>>
    BY DEF Zero
  <2> QED BY <2>1
<1>6. ASSUME NEW t \in DOMAIN Zero
      PROVE  /\ Zero[t][1] = t \/ (Zero[t][1] = "integer" /\ t = "number")
             /\ Zero[t][1] # "object" /\ Zero[t][1] # "array"
  BY <1>1, <1>3, <1>4, <1>5
<1> QED BY <1>1, <1>2, <1>6

\* What the parts of a schema are served.
ServesParts(s) ==
  /\ TypeFor(s) = "object" =>
       \A k \in DOMAIN Properties(s) :
         Plain[Properties(s)[k]] => Accepts[Properties(s)[k]][Default[Properties(s)[k]]]
  /\ HasItems(s) => (Plain[s.items] => Accepts[s.items][Default[s.items]])

\* A plain schema accepts its default if its parts accept theirs.
LEMMA ComposedIsAccepted ==
  ASSUME NEW s \in Schemas, Plain[s], ServesParts(s)
  PROVE  Accepts[s][Default[s]]
<1> DEFINE d == Default[s]
<1>1. d \in Values /\ d = DefaultOf(Default, s) /\ PlainOf(Plain, s)
  BY SchemasAreTrees, DefaultIs, PlainIs
<1> HIDE DEF d
<1>2. CASE Given(s) # {}
  <2>1. GivenTo(s) \in Given(s) /\ d = GivenTo(s)
    BY <1>1, <1>2 DEF DefaultOf, GivenTo
  <2> QED BY <1>1, <1>2, <2>1 DEF PlainOf, d
<1>3. CASE Given(s) = {}
  <2>1. /\ TypeFor(s) # "none" /\ ~Has(s, "narrow") /\ ~Has(s, "enum")
        /\ TypeFor(s) = "object" =>
             /\ Required(s) \subseteq DOMAIN Properties(s)
             /\ \A k \in DOMAIN Properties(s) : Plain[Properties(s)[k]]
        /\ TypeFor(s) = "array" /\ HasItems(s) => Plain[s.items]
    BY <1>1, <1>3 DEF PlainOf
  <2>2. ~Has(s, "const")
    BY <1>3 DEF Given
  <2>3. TypeFor(s) \in Types(s) /\ TypeFor(s) \in Kinds
    BY <2>1, TypeForIn
  <2>4. CASE TypeFor(s) = "object"
    <3>1. d = <<"object", [k \in DOMAIN Properties(s) |-> Default[Properties(s)[k]]]>>
      BY <1>1, <1>3, <2>4 DEF DefaultOf
    <3>2. /\ d[1] = "object" /\ DOMAIN d[2] = DOMAIN Properties(s)
          /\ \A k \in DOMAIN Properties(s) : d[2][k] = Default[Properties(s)[k]]
      BY <3>1
    <3>3. \A k \in DOMAIN Properties(s) : Accepts[Properties(s)[k]][d[2][k]]
      BY <2>1, <2>4, <3>2 DEF ServesParts
    <3>4. AcceptedOf(Accepts, s, d)
      BY <2>1, <2>2, <2>3, <2>4, <3>2, <3>3 DEF AcceptedOf
    <3> QED BY <1>1, <3>4, AcceptsIs DEF d
  <2>5. CASE TypeFor(s) = "array"
    <3>1. d = IF HasItems(s) THEN ListOf(Default[s.items]) ELSE <<"array", <<>> >>
      BY <1>1, <1>3, <2>5 DEF DefaultOf
    <3>2. d[1] = "array"
      BY <3>1 DEF ListOf
    <3>3. Has(s, "items") => \A i \in DOMAIN d[2] : Accepts[s.items][d[2][i]]
      <4>1. CASE HasItems(s)
        <5>1. d[2] = <<Default[s.items]>>
          BY <3>1, <4>1 DEF ListOf
        <5>2. \A i \in DOMAIN d[2] : d[2][i] = Default[s.items]
          BY <5>1
        <5>3. Accepts[s.items][Default[s.items]]
          BY <2>1, <2>5, <4>1 DEF ServesParts
        <5> QED BY <5>2, <5>3
      <4>2. CASE ~HasItems(s)
        BY <3>1, <4>2
      <4> QED BY <4>1, <4>2
    <3>4. AcceptedOf(Accepts, s, d)
      BY <2>1, <2>2, <2>3, <2>5, <3>2, <3>3 DEF AcceptedOf
    <3> QED BY <1>1, <3>4, AcceptsIs DEF d
  <2>6. CASE TypeFor(s) \notin {"object", "array"}
    <3>1. TypeFor(s) \in DOMAIN Zero
      BY <2>3, <2>6 DEF Kinds, Zero
    <3>2. d = Zero[TypeFor(s)]
      BY <1>1, <1>3, <2>6, <3>1 DEF DefaultOf
    <3>3. /\ d[1] = TypeFor(s) \/ (d[1] = "integer" /\ TypeFor(s) = "number")
          /\ d[1] # "object" /\ d[1] # "array"
      BY <3>1, <3>2, ZeroIs
    <3>4. AcceptedOf(Accepts, s, d)
      BY <2>1, <2>2, <2>3, <3>3 DEF AcceptedOf
    <3> QED BY <1>1, <3>4, AcceptsIs DEF d
  <2> QED BY <2>4, <2>5, <2>6
<1> QED BY <1>2, <1>3

\* providers/mock.py:46-91: of every plain schema, however nested.
LEMMA DefaultIsAccepted ==
  ASSUME NEW s \in Schemas, Plain[s]
  PROVE  Accepts[s][Default[s]]
<1> DEFINE B == {r \in Schemas : Plain[r] /\ ~Accepts[r][Default[r]]}
<1>1. ASSUME B # {} PROVE FALSE
  <2>1. PICK r \in B : \A q \in B : Depth[r] <= Depth[q]
    <3>1. B \subseteq Schemas
      OBVIOUS
    <3> HIDE DEF B
    <3> QED BY <1>1, <3>1, SchemasAreTrees, Lowest
  <2>2. ServesParts(r)
    BY <2>1, PropertyIsLower, ItemsAreLower DEF ServesParts, HasItems
  <2> QED BY <2>1, <2>2, ComposedIsAccepted
<1> QED BY <1>1

\* A schema that accepts the empty string and lists nothing accepts any string.
LEMMA StringIsAccepted ==
  ASSUME NEW p \in Schemas, ~Listed(p), Zero["string"] \in Values, Accepts[p][Zero["string"]],
         NEW topic, <<"string", topic>> \in Values
  PROVE  Accepts[p][<<"string", topic>>]
<1> DEFINE u == <<"string", topic>>
           z == Zero["string"]
<1>1. z[1] = "string" /\ u[1] = "string"
  BY ZeroIs
<1>2. AcceptedOf(Accepts, p, z)
  BY AcceptsIs
<1>3. z \in {Zero[t] : t \in DOMAIN Zero}
  BY ZeroIs
<1> HIDE DEF u, z
<1>4. ~Has(p, "narrow") /\ "string" \in Types(p)
  BY <1>1, <1>2, <1>3 DEF AcceptedOf
<1>5. AcceptedOf(Accepts, p, u)
  BY <1>1, <1>4 DEF AcceptedOf, Listed
<1>6. Accepts[p][u] <=> AcceptedOf(Accepts, p, u)
  <2>1. u \in Values
    BY DEF u
  <2> QED BY <2>1, AcceptsIs
<1> QED BY <1>5, <1>6 DEF u

\* providers/mock.py:128-135: the title of an accepted output may be replaced.
LEMMA TouchedIsAccepted ==
  ASSUME NEW s \in Schemas, NEW d \in Values, Accepts[s][d],
         NEW topic, Touched(d, topic) \in Values, topic # "" => ~TitlePinned(s)
  PROVE  Accepts[s][Touched(d, topic)]
<1>1. CASE d[1] = "object" /\ "title" \in DOMAIN d[2] /\ d[2].title = Zero.string /\ topic # ""
  <2> DEFINE t == <<"object", [d[2] EXCEPT !.title = <<"string", topic>>]>>
  <2>1. Touched(d, topic) = t /\ t \in Values
    BY <1>1 DEF Touched
  <2>2. /\ t[1] = "object" /\ DOMAIN t[2] = DOMAIN d[2] /\ t[2]["title"] = <<"string", topic>>
        /\ \A k \in DOMAIN d[2] : k # "title" => t[2][k] = d[2][k]
    BY <1>1
  <2> HIDE DEF t
  <2>3. AcceptedOf(Accepts, s, d)
    BY AcceptsIs
  <2>4. ~Listed(s) /\ ("title" \in DOMAIN Properties(s) => ~Listed(Properties(s).title))
    BY <1>1 DEF TitlePinned
  <2>5. ASSUME NEW k \in DOMAIN t[2] \cap DOMAIN Properties(s)
        PROVE  Accepts[Properties(s)[k]][t[2][k]]
    <3>1. Accepts[Properties(s)[k]][d[2][k]]
      BY <1>1, <2>2, <2>3 DEF AcceptedOf
    <3>2. CASE k = "title"
      <4>1. Zero["string"] = d[2][k] /\ t[2][k] = <<"string", topic>>
        BY <1>1, <2>2, <3>2
      <4>2. d[2][k] \in Values /\ t[2][k] \in Values
        BY <1>1, <2>1, <2>2, ValuesAreTrees DEF Compound
      <4>3. Properties(s)[k] \in Schemas /\ ~Listed(Properties(s)[k])
        BY <2>4, <3>2, PropertyIsLower
      <4> QED BY <3>1, <4>1, <4>2, <4>3, StringIsAccepted
    <3>3. CASE k # "title"
      BY <2>2, <3>1, <3>3
    <3> QED BY <3>2, <3>3
  <2>6. ASSUME Has(s, "narrow") PROVE t \notin {Zero[n] : n \in DOMAIN Zero}
    BY <2>2, ZeroIs
  <2>7. AcceptedOf(Accepts, s, t)
    BY <1>1, <2>2, <2>3, <2>4, <2>5, <2>6 DEF AcceptedOf, Listed
  <2> QED BY <2>1, <2>7, AcceptsIs
<1>2. CASE ~(d[1] = "object" /\ "title" \in DOMAIN d[2] /\ d[2].title = Zero.string /\ topic # "")
  <2>1. Touched(d, topic) = d
    BY <1>2 DEF Touched
  <2> QED BY <2>1
<1> QED BY <1>1, <1>2

\* A schema that does not list its values is not changed, and without a topic none is.
LEMMA SeenIsSame ==
  ASSUME NEW s \in Schemas, NEW topic, topic # "" => ~TitlePinned(s)
  PROVE  Seen(s, topic) = s
BY DEF Seen, TitlePinned, Listed
-----------------------------------------------------------------------------
\* Decimal.quantize with ROUND_HALF_EVEN is off by at most half a unit.
LEMMA QuantizeIsNear ==
  ASSUME NEW parts \in Nat
  PROVE  /\ Quantize(parts) \in Nat
         /\ 2 * (Quantize(parts) * Parts - parts) <= Parts
         /\ 2 * (parts - Quantize(parts) * Parts) <= Parts
<1> DEFINE q == parts \div Parts
           r == parts % Parts
<1>1. Parts \in Nat /\ Parts > 0
  BY PricingConstants
<1>2. q \in Nat /\ r \in 0 .. Parts - 1 /\ parts = q * Parts + r
  BY <1>1, Z3
<1>3. Quantize(parts) = IF 2 * r > Parts \/ (2 * r = Parts /\ q % 2 = 1) THEN q + 1 ELSE q
  BY DEF Quantize
<1> HIDE DEF q, r
<1>4. (q + 1) * Parts = q * Parts + Parts
  BY <1>1, <1>2
<1>5. CASE 2 * r > Parts \/ (2 * r = Parts /\ q % 2 = 1)
  <2>1. Quantize(parts) = q + 1
    BY <1>3, <1>5
  <2>2. 2 * r >= Parts
    BY <1>1, <1>2, <1>5
  <2> QED BY <1>1, <1>2, <1>4, <2>1, <2>2
<1>6. CASE ~(2 * r > Parts \/ (2 * r = Parts /\ q % 2 = 1))
  <2>1. Quantize(parts) = q
    BY <1>3, <1>6
  <2>2. 2 * r <= Parts
    BY <1>1, <1>2, <1>6
  <2> QED BY <1>1, <1>2, <2>1, <2>2
<1> QED BY <1>5, <1>6

\* How far x units are from a price.
Off(parts, x) == IF x * Parts > parts THEN x * Parts - parts ELSE parts - x * Parts

\* x is closer to the price than u, or as close and even.
Nearer(parts, x, u) ==
  Off(parts, x) < Off(parts, u) \/ (Off(parts, x) = Off(parts, u) /\ x % 2 = 0)

\* No other number of units is closer, nor as close and preferred.
LEMMA QuantizeIsNearest ==
  ASSUME NEW parts \in Nat, NEW u \in Nat
  PROVE  u = Quantize(parts) \/ Nearer(parts, Quantize(parts), u)
<1> DEFINE q == parts \div Parts
           r == parts % Parts
           c == q * Parts
           w == u * Parts
<1>1. Parts \in Nat /\ Parts > 0
  BY PricingConstants
<1>2. q \in Nat /\ r \in 0 .. Parts - 1 /\ parts = c + r
  BY <1>1, Z3
<1>3. Quantize(parts) = IF 2 * r > Parts \/ (2 * r = Parts /\ q % 2 = 1) THEN q + 1 ELSE q
  BY DEF Quantize
<1> HIDE DEF q, r
<1>4. c \in Nat /\ w \in Nat /\ (q + 1) * Parts = c + Parts
  BY <1>1, <1>2
<1>5. Off(parts, q) = r /\ Off(parts, q + 1) = Parts - r
  BY <1>1, <1>2, <1>4 DEF Off
<1>6. u < q => w <= c - Parts
  <2> SUFFICES ASSUME u < q PROVE w <= c - Parts
    OBVIOUS
  <2>1. PICK k \in Nat : q = u + 1 + k
    <3>1. q - u - 1 \in Nat
      BY <1>2
    <3> QED BY <1>2, <3>1
  <2>2. c = w + Parts + k * Parts /\ k * Parts \in Nat
    BY <1>1, <2>1
  <2> QED BY <1>1, <1>4, <2>2
<1>7. u > q + 1 => w >= c + Parts + Parts
  <2> SUFFICES ASSUME u > q + 1 PROVE w >= c + Parts + Parts
    OBVIOUS
  <2>1. PICK k \in Nat : u = q + 2 + k
    <3>1. u - q - 2 \in Nat
      BY <1>2
    <3> QED BY <1>2, <3>1
  <2>2. w = c + Parts + Parts + k * Parts /\ k * Parts \in Nat
    BY <1>1, <1>2, <2>1
  <2> QED BY <1>1, <1>4, <2>2
<1>8. /\ Off(parts, u) \in Nat
      /\ u < q => Off(parts, u) >= Parts + r
      /\ u > q + 1 => Off(parts, u) >= Parts + (Parts - r)
  <2> HIDE DEF c
  <2>1. Off(parts, u) = IF w > parts THEN w - parts ELSE parts - w
    BY DEF Off
  <2> HIDE DEF w
  <2> QED BY <1>1, <1>2, <1>4, <1>6, <1>7, <2>1
<1>9. u \in {q, q + 1} \/ u < q \/ u > q + 1
  BY <1>2
<1>10. CASE 2 * r > Parts \/ (2 * r = Parts /\ q % 2 = 1)
  <2>1. Quantize(parts) = q + 1
    BY <1>3, <1>10
  <2>2. 2 * r >= Parts
    BY <1>1, <1>2, <1>10
  <2>3. q % 2 = 1 => (q + 1) % 2 = 0
    BY <1>2, Z3
  <2>4. CASE u = q
    BY <1>1, <1>2, <1>5, <1>10, <2>1, <2>3, <2>4 DEF Nearer
  <2>5. CASE u < q \/ u > q + 1
    BY <1>1, <1>2, <1>5, <1>8, <2>1, <2>2, <2>5 DEF Nearer
  <2> QED BY <1>9, <2>1, <2>4, <2>5
<1>11. CASE ~(2 * r > Parts \/ (2 * r = Parts /\ q % 2 = 1))
  <2>1. Quantize(parts) = q
    BY <1>3, <1>11
  <2>2. 2 * r < Parts \/ (2 * r = Parts /\ q % 2 = 0)
    <3>1. q % 2 = 0 \/ q % 2 = 1
      BY <1>2, Z3
    <3> QED BY <1>1, <1>2, <1>11, <3>1
  <2>3. CASE u = q + 1
    BY <1>1, <1>2, <1>5, <2>1, <2>2, <2>3 DEF Nearer
  <2>4. CASE u < q \/ u > q + 1
    BY <1>1, <1>2, <1>5, <1>8, <2>1, <2>2, <2>4 DEF Nearer
  <2> QED BY <1>9, <2>1, <2>3, <2>4
<1> QED BY <1>10, <1>11

\* A price of whole units stays as it is.
LEMMA QuantizeIsIdempotent ==
  ASSUME NEW units \in Nat
  PROVE  Quantize(units * Parts) = units
<1>1. Parts \in Nat /\ Parts > 0
  BY PricingConstants
<1>2. (units * Parts) \div Parts = units /\ (units * Parts) % Parts = 0
  BY <1>1, Z3
<1> QED BY <1>1, <1>2 DEF Quantize

\* A part more is never rounded to less.
LEMMA QuantizeIsMonotone ==
  ASSUME NEW parts \in Nat
  PROVE  Quantize(parts + 1) >= Quantize(parts)
<1> DEFINE q == parts \div Parts
           r == parts % Parts
           q1 == (parts + 1) \div Parts
           r1 == (parts + 1) % Parts
<1>1. Parts \in Nat /\ Parts > 0
  BY PricingConstants
<1>2. q \in Nat /\ r \in 0 .. Parts - 1 /\ q1 \in Nat /\ r1 \in 0 .. Parts - 1
  BY <1>1, Z3
<1>3. (q1 = q /\ r1 = r + 1) \/ q1 = q + 1
  BY <1>1, Z3
<1>4. /\ Quantize(parts) = IF 2 * r > Parts \/ (2 * r = Parts /\ q % 2 = 1) THEN q + 1 ELSE q
      /\ Quantize(parts + 1) =
           IF 2 * r1 > Parts \/ (2 * r1 = Parts /\ q1 % 2 = 1) THEN q1 + 1 ELSE q1
  BY DEF Quantize
<1> HIDE DEF q, r, q1, r1
<1>5. CASE q1 = q /\ r1 = r + 1
  BY <1>1, <1>2, <1>4, <1>5
<1>6. CASE q1 = q + 1
  BY <1>1, <1>2, <1>4, <1>6
<1> QED BY <1>3, <1>5, <1>6

\* A price is a whole number of parts.
LEMMA PriceIsNat ==
  ASSUME NEW rate \in Rates, NEW tin \in Tokens, NEW tout \in Tokens
  PROVE  Price(rate, tin, tout) \in Nat
BY PricingConstants DEF Price

\* A call moves the recorded sum by at most half a unit away from the exact one.
LEMMA PriceInvStep ==
  ASSUME PriceTypeOK, DriftBounded, [PriceNext]_priceVars
  PROVE  PriceTypeOK' /\ DriftBounded'
<1>1. CASE UNCHANGED priceVars
  BY <1>1 DEF priceVars, PriceTypeOK, DriftBounded
<1>2. ASSUME NEW rate \in Rates, NEW tin \in Tokens, NEW tout \in Tokens, Bill(rate, tin, tout)
      PROVE  PriceTypeOK' /\ DriftBounded'
  <2> DEFINE price == Price(rate, tin, tout)
             units == Quantize(price)
  <2>1. /\ price \in Nat /\ units \in Nat
        /\ 2 * (units * Parts - price) <= Parts
        /\ 2 * (price - units * Parts) <= Parts
    BY PriceIsNat, QuantizeIsNear
  <2>2. calls' = calls + 1 /\ exact' = exact + price /\ recorded' = recorded + units
    BY <1>2 DEF Bill, Estimate
  <2> HIDE DEF price, units
  <2>3. /\ calls \in Nat /\ exact \in Nat /\ recorded \in Nat /\ Parts \in Nat
    BY PricingConstants DEF PriceTypeOK
  <2>4. /\ recorded' * Parts = recorded * Parts + units * Parts
        /\ calls' * Parts = calls * Parts + Parts
    BY <2>1, <2>2, <2>3
  <2>5. PriceTypeOK'
    BY <2>1, <2>2, <2>3 DEF PriceTypeOK
  <2> DEFINE a == recorded * Parts
             b == units * Parts
             c == calls * Parts
  <2>6. a \in Int /\ b \in Int /\ c \in Int
    BY <2>1, <2>3
  <2>7. 2 * (a - exact) <= c /\ 2 * (exact - a) <= c
    BY DEF DriftBounded
  <2> HIDE DEF a, b, c
  <2>8. 2 * ((a + b) - (exact + price)) <= c + Parts /\ 2 * ((exact + price) - (a + b)) <= c + Parts
    <3>1. 2 * (b - price) <= Parts /\ 2 * (price - b) <= Parts
      BY <2>1 DEF b
    <3> QED BY <2>1, <2>3, <2>6, <2>7, <3>1
  <2> QED BY <2>2, <2>4, <2>5, <2>8 DEF DriftBounded, a, b, c
<1> QED BY <1>1, <1>2 DEF PriceNext
\* providers/cost_table.py:47-53 and grants/manager.py:100: what a grant records
\* for any sequence of calls is off by half a unit a call at most.
THEOREM DriftIsBounded == PriceSpec => []DriftBounded
<1>1. PriceInit => PriceTypeOK /\ DriftBounded
  BY PricingConstants DEF PriceInit, PriceTypeOK, DriftBounded
<1> QED BY <1>1, PriceInvStep, PTL DEF PriceSpec

\* providers/cost_table.py:53 and providers/mock.py:141, quantize("0.0001"): every
\* price is rounded to the nearest unit, a tie to the even one, in the order of the
\* prices, and what is rounded stays as it is.
THEOREM RoundingIsHalfEven == PriceSpec => []QuantizeIsHalfEven
<1>1. PriceTypeOK => QuantizeIsHalfEven
  <2> SUFFICES ASSUME PriceTypeOK, NEW parts \in 0 .. exact
               PROVE  /\ \A u \in 0 .. Quantize(parts) + 1 :
                           u = Quantize(parts) \/ Nearer(parts, Quantize(parts), u)
                      /\ Quantize(parts + 1) >= Quantize(parts)
                      /\ Quantize(Quantize(parts) * Parts) = Quantize(parts)
    <3> HIDE DEF Quantize
    <3> QED BY Zenon DEF QuantizeIsHalfEven, Nearer, Off
  <2>1. parts \in Nat /\ Quantize(parts) \in Nat
    BY QuantizeIsNear DEF PriceTypeOK
  <2>2. ASSUME NEW u \in 0 .. Quantize(parts) + 1
        PROVE  u = Quantize(parts) \/ Nearer(parts, Quantize(parts), u)
    BY <2>1, QuantizeIsNearest
  <2> QED BY <2>1, <2>2, QuantizeIsMonotone, QuantizeIsIdempotent
<1>2. PriceInit => PriceTypeOK /\ DriftBounded
  BY PricingConstants DEF PriceInit, PriceTypeOK, DriftBounded
<1> QED BY <1>1, <1>2, PriceInvStep, PTL DEF PriceSpec

-----------------------------------------------------------------------------
\* What PromptGated rests on: without options the environment is the shell's, the
\* level is taken from the shell before any option is parsed, and an unsafe mode
\* that the shell does not export was asked for by the flag and announced.
LogInv ==
  /\ level \in {""} \cup DOMAIN Rank
  /\ stderr \subseteq {"banner", "request", "outcome"}
  /\ shell.unsafe \in BOOLEAN /\ env.unsafe \in BOOLEAN
  /\ options = Unparsed => env = shell
  /\ level = "" => options = Unparsed
  /\ level = "DEBUG" => shell.level = "DEBUG"
  /\ env.unsafe => shell.unsafe \/ ("unsafe_debug_prompt" \in options /\ "banner" \in stderr)
  /\ PromptGated

\* A process starts with the environment of the shell.
LEMMA LogInvInit == LogInit => LogInv
BY DEF LogInit, LogInv, PromptGated

\* security/redaction.py:78-90: the level a process starts with.
LEMMA LogInvConfigure ==
  ASSUME LogInv, Configure
  PROVE  LogInv'
BY DEF LogInv, Configure, PromptGated, Rank

\* cli.py:43-62: the options change the environment after the level is set.
LEMMA LogInvGlobalOpts ==
  ASSUME LogInv, NEW opts \in Options, GlobalOpts(opts)
  PROVE  LogInv'
<1>1. /\ options' # Unparsed /\ level # "" /\ options = Unparsed
      /\ options' = opts /\ level' = level /\ shell' = shell
  BY OptionsAreParsed DEF GlobalOpts, Unparsed
<1>2. env'.unsafe = (env.unsafe \/ "unsafe_debug_prompt" \in opts)
  BY DEF GlobalOpts
<1>3. stderr' = IF "unsafe_debug_prompt" \in opts THEN stderr \cup {"banner"} ELSE stderr
  BY DEF GlobalOpts
<1>4. "unsafe_debug_prompt" \notin options
  BY <1>1 DEF Unparsed
<1>5. "request" \in stderr' => "request" \in stderr
  BY <1>3
<1>6. shell.unsafe \/ "request" \notin stderr
  BY <1>4 DEF LogInv, PromptGated
<1>7. PromptGated'
  BY <1>1, <1>5, <1>6 DEF PromptGated
<1>8. env'.unsafe => shell.unsafe \/ ("unsafe_debug_prompt" \in opts /\ "banner" \in stderr')
  BY <1>1, <1>2, <1>3, <1>4 DEF LogInv
<1> QED BY <1>1, <1>2, <1>3, <1>7, <1>8 DEF LogInv

\* security/redaction.py:78-90: only the level DEBUG lets a request through.
LEMMA LogInvRequest ==
  ASSUME LogInv, options # Unparsed, LogRequest
  PROVE  LogInv'
<1>1. level \in DOMAIN Rank /\ Rank["DEBUG"] = 10
  BY DEF LogInv, Rank
<1>2. Rank["DEBUG"] >= Rank[level] => level = "DEBUG"
  BY <1>1 DEF Rank
<1>3. /\ shell' = shell /\ env' = env /\ level' = level /\ options' = options
      /\ stderr' \in {stderr, stderr \cup {"request"}}
      /\ stderr' # stderr => env.unsafe /\ level = "DEBUG"
  BY <1>2 DEF LogRequest, Emit, logVars
<1> QED BY <1>3 DEF LogInv, PromptGated

\* A warning is no request.
LEMMA LogInvWarn ==
  ASSUME LogInv, Warn
  PROVE  LogInv'
<1>1. /\ shell' = shell /\ env' = env /\ level' = level /\ options' = options
      /\ stderr' \in {stderr, stderr \cup {"outcome"}}
  BY DEF Warn, Emit
<1> QED BY <1>1 DEF LogInv, PromptGated

\* The next process starts from the shell again.
LEMMA LogInvExit ==
  ASSUME LogInv, Exit
  PROVE  LogInv'
BY DEF LogInv, Exit, PromptGated

\* So every step of the log keeps the invariant.
LEMMA LogInvStep ==
  ASSUME LogInv, [LogNext]_logVars
  PROVE  LogInv'
<1>1. CASE UNCHANGED logVars
  BY <1>1 DEF LogInv, PromptGated, logVars
<1> QED BY <1>1, LogInvConfigure, LogInvGlobalOpts, LogInvRequest, LogInvWarn, LogInvExit
        DEF LogNext

\* security/redaction.py:78-90, cli.py:43-62 and providers/openai_adapter.py: unless
\* the shell exports the unsafe mode itself, a prompt reaches stderr only under the
\* flag, with its warning, whatever processes ran before.
THEOREM PromptIsGated == LogSpec => []PromptGated
<1>1. LogInv => PromptGated
  BY DEF LogInv
<1> QED BY <1>1, LogInvInit, LogInvStep, PTL DEF LogSpec

-----------------------------------------------------------------------------
\* A process with a request under way has parsed its options.
Parsed ==
  /\ model \in Models
  /\ call \in {"none", "sent", "over"}
  /\ call = "sent" => options # Unparsed

\* Whoever pays a noticeable price is charged a unit, and charges stay within the
\* budget.
Paid ==
  /\ metered \in Nat
  /\ metered <= recorded
  /\ recorded # 0 => recorded <= Budget

\* The output is a JSON value, and a synthesised one that of its schema and topic.
Made ==
  /\ output \in Values \cup {NoOutput}
  /\ madeFrom # Nothing =>
       /\ madeFrom.schema \in Schemas /\ madeFrom.topic \in Topics
       /\ output = Touched(Default[madeFrom.schema], madeFrom.topic)
       /\ madeFrom.valid = Accepts[Seen(madeFrom.schema, madeFrom.topic)][output]

AdapterInv == PriceTypeOK /\ LogInv /\ Parsed /\ Paid /\ Made

\* A model has the rates of the table, those of the mock, or none.
LEMMA LookupInRates ==
  ASSUME NEW m, Lookup(m) # <<>>
  PROVE  Lookup(m) \in Rates
<1>1. CASE m.provider = "mock"
  BY <1>1, AdapterConstants DEF Lookup
<1>2. CASE m.provider # "mock" /\ m \in DOMAIN CostTable
  BY <1>2, AdapterConstants DEF Lookup
<1>3. CASE m.provider # "mock" /\ m \notin DOMAIN CostTable
  BY <1>3 DEF Lookup
<1> QED BY <1>1, <1>2, <1>3

\* A grant starts unused.
LEMMA AdapterInvInit == AdapterInit => AdapterInv
<1> SUFFICES ASSUME AdapterInit PROVE AdapterInv
  OBVIOUS
<1>1. PriceTypeOK /\ LogInv
  BY LogInvInit DEF AdapterInit, PriceInit, PriceTypeOK
<1>2. Parsed /\ Paid /\ Made
  BY DEF AdapterInit, PriceInit, Parsed, Paid, Made
<1> QED BY <1>1, <1>2 DEF AdapterInv

\* What execute does with an answer, to the books and to the log.
LEMMA SettleStep ==
  ASSUME AdapterInv, call = "sent", NEW tokens \in Usage, NEW accepted, Settle(tokens, accepted)
  PROVE  /\ [PriceNext]_priceVars /\ [LogNext]_logVars
         /\ Paid' /\ Parsed'
<1>1. options # Unparsed
  BY DEF AdapterInv, Parsed
<1>2. [LogNext]_logVars
  BY <1>1 DEF Settle, LogNext
<1>3. options' = options \/ options' # Unparsed
  BY DEF Settle, Warn, Emit, logVars
<1>4. Parsed'
  BY DEF Settle, Goto, AdapterInv, Parsed
<1>5. CASE ~(recorded + Cost(model, tokens) <= Budget /\ Lookup(model) # <<>> /\ tokens # <<>>)
  <2>1. UNCHANGED priceVars /\ metered' = metered
    BY <1>5 DEF Settle, Unpaid
  <2>2. Paid'
    BY <2>1 DEF priceVars, AdapterInv, Paid
  <2> QED BY <1>2, <1>4, <2>1, <2>2
<1>6. CASE recorded + Cost(model, tokens) <= Budget /\ Lookup(model) # <<>> /\ tokens # <<>>
  <2> DEFINE rate == Lookup(model)
             price == Price(rate, tokens[1], tokens[2])
             units == Estimate(rate, tokens[1], tokens[2])
  <2>1. rate \in Rates /\ tokens[1] \in Tokens /\ tokens[2] \in Tokens
    <3>1. rate \in Rates
      BY <1>6, LookupInRates
    <3>2. tokens \in Tokens \X Tokens
      BY <1>6 DEF Usage
    <3> QED BY <3>1, <3>2
  <2>2. /\ Bill(rate, tokens[1], tokens[2])
        /\ metered' = IF 2 * price > Parts THEN metered + 1 ELSE metered
    BY <1>6 DEF Settle
  <2>3. price \in Nat /\ units = Quantize(price)
    BY <2>1, PriceIsNat DEF Estimate
  <2>4. Cost(model, tokens) = units
    BY <1>6 DEF Cost
  <2>5. recorded' = recorded + units
    BY <2>2 DEF Bill
  <2>6. PriceNext
    BY <2>1, <2>2 DEF PriceNext
  <2> HIDE DEF rate, price, units
  <2>7. units \in Nat /\ 2 * (price - units * Parts) <= Parts
    BY <2>3, QuantizeIsNear
  <2>8. 2 * price > Parts => units >= 1
    <3>1. units = 0 => units * Parts = 0
      BY PricingConstants
    <3> QED BY <2>3, <2>7, <3>1, PricingConstants
  <2>9. recorded \in Nat /\ metered \in Nat /\ metered <= recorded /\ Budget \in Int
    BY AdapterConstants DEF AdapterInv, PriceTypeOK, Paid
  <2>10. recorded + units <= Budget
    BY <1>6, <2>4
  <2>11. Paid'
    BY <2>2, <2>5, <2>7, <2>8, <2>9, <2>10 DEF Paid
  <2> QED BY <1>2, <1>4, <2>6, <2>11
<1> QED BY <1>5, <1>6

\* A step without an answer: nothing is charged, and the log only gets what its
\* own module lets it.
LEMMA QuietStep ==
  ASSUME AdapterInv, Refuse \/ Send \/ SdkFails \/ Escapes
  PROVE  /\ UNCHANGED <<priceVars, metered, output, madeFrom>>
         /\ [LogNext]_logVars /\ Parsed'
<1>1. options # Unparsed
  BY DEF AdapterInv, Parsed, Refuse, Send, SdkFails, Escapes
<1>2. [LogNext]_logVars
  BY <1>1 DEF Refuse, Send, SdkFails, Escapes, SendLogs, LogNext
<1>3. options' = options
  BY DEF Refuse, Send, SdkFails, Escapes, SendLogs, LogRequest, Warn, Emit, logVars
<1>4. Parsed'
  BY <1>1, <1>3 DEF Refuse, Send, SdkFails, Escapes, Goto, AdapterInv, Parsed
<1> QED BY <1>2, <1>4 DEF Refuse, Send, SdkFails, Escapes, Unpaid, NoAnswer

\* Every step of the adapters, one action after the other.
LEMMA AdapterStep ==
  ASSUME AdapterInv, [AdapterNext]_allVars
  PROVE  [PriceNext]_priceVars /\ [LogNext]_logVars /\ Parsed' /\ Paid' /\ Made'
<1>1. CASE UNCHANGED allVars
  BY <1>1 DEF allVars, priceVars, logVars, adapterVars, AdapterInv, Parsed, Paid, Made
<1>2. CASE Configure /\ UNCHANGED <<priceVars, adapterVars>>
  <2>1. LogNext /\ options' = options
    BY <1>2 DEF LogNext, Configure
  <2> QED BY <1>2, <2>1 DEF priceVars, adapterVars, AdapterInv, Parsed, Paid, Made
<1>3. ASSUME NEW opts \in Options, GlobalOpts(opts), UNCHANGED <<priceVars, adapterVars>>
      PROVE  [PriceNext]_priceVars /\ [LogNext]_logVars /\ Parsed' /\ Paid' /\ Made'
  <2>1. LogNext /\ options' # Unparsed
    BY <1>3, OptionsAreParsed DEF LogNext, GlobalOpts
  <2> QED BY <1>3, <2>1 DEF priceVars, adapterVars, AdapterInv, Parsed, Paid, Made
<1>4. CASE Refuse \/ Send \/ SdkFails \/ Escapes
  <2>1. Paid' /\ Made'
    BY <1>4, QuietStep DEF priceVars, AdapterInv, Paid, Made
  <2> QED BY <1>4, <2>1, QuietStep
<1>5. CASE EndProcess
  <2>1. LogNext /\ call' = "none" /\ model' = model
    BY <1>5 DEF EndProcess, LogNext, Goto
  <2>2. Parsed'
    BY <2>1 DEF AdapterInv, Parsed
  <2>3. Paid' /\ Made'
    BY <1>5 DEF EndProcess, Unpaid, priceVars, AdapterInv, Paid, Made
  <2> QED BY <1>5, <2>1, <2>2, <2>3 DEF EndProcess, Unpaid
<1>6. ASSUME NEW tokens \in Usage, NEW value \in Outputs, NEW accepted \in BOOLEAN,
             SdkAnswers(value, tokens, accepted) \/ MockReplays(value, tokens, accepted)
      PROVE  [PriceNext]_priceVars /\ [LogNext]_logVars /\ Parsed' /\ Paid' /\ Made'
  <2>1. call = "sent" /\ Settle(tokens, accepted)
    BY <1>6 DEF SdkAnswers, MockReplays
  <2>2. output' \in {value, NoOutput} /\ madeFrom' = Nothing
    BY <1>6 DEF SdkAnswers, MockReplays
  <2>3. Made'
    BY <2>2, AdapterConstants DEF Made
  <2> QED BY <2>1, <2>3, SettleStep
<1>7. ASSUME NEW tokens \in Usage, NEW schema \in Schemas, NEW topic \in Topics,
             MockSynthesises(topic, tokens, schema)
      PROVE  [PriceNext]_priceVars /\ [LogNext]_logVars /\ Parsed' /\ Paid' /\ Made'
  <2> DEFINE valid == Accepts[Seen(schema, topic)][output']
  <2>1. call = "sent" /\ Settle(tokens, madeFrom'.valid)
    BY <1>7 DEF MockSynthesises
  <2>2. /\ output' = Touched(Default[schema], topic)
        /\ madeFrom' = [schema |-> schema, topic |-> topic, valid |-> valid]
    BY <1>7 DEF MockSynthesises
  <2> HIDE DEF valid
  <2>3. output' \in Values
    BY <2>2, AdapterConstants
  <2>4. madeFrom'.schema = schema /\ madeFrom'.topic = topic /\ madeFrom'.valid = valid
    BY <2>2
  <2>5. Made'
    BY <2>2, <2>3, <2>4 DEF Made, valid
  <2> QED BY <2>1, <2>5, SettleStep
<1> QED BY <1>1, <1>2, <1>3, <1>4, <1>5, <1>6, <1>7 DEF AdapterNext

\* Amounts stay whole numbers.
LEMMA PriceTypeStep ==
  ASSUME PriceTypeOK, [PriceNext]_priceVars
  PROVE  PriceTypeOK'
<1>1. CASE UNCHANGED priceVars
  BY <1>1 DEF priceVars, PriceTypeOK
<1>2. ASSUME NEW rate \in Rates, NEW tin \in Tokens, NEW tout \in Tokens, Bill(rate, tin, tout)
      PROVE  PriceTypeOK'
  <2>1. Price(rate, tin, tout) \in Nat /\ Estimate(rate, tin, tout) \in Nat
    BY PriceIsNat, QuantizeIsNear DEF Estimate
  <2> QED BY <1>2, <2>1 DEF Bill, PriceTypeOK
<1> QED BY <1>1, <1>2 DEF PriceNext

\* So every step keeps the invariant.
LEMMA AdapterInvStep ==
  ASSUME AdapterInv, [AdapterNext]_allVars
  PROVE  AdapterInv'
BY AdapterStep, PriceTypeStep, LogInvStep DEF AdapterInv

\* And it always holds.
LEMMA AdapterInvHolds == AdapterSpec => []AdapterInv
BY AdapterInvInit, AdapterInvStep, PTL DEF AdapterSpec

\* broker/runtime.py:174-222: whatever adapters and answers processes have under
\* one grant, to the log and to the books it is what the modules Logging and
\* Pricing let happen.
THEOREM AdaptersLogAndPrice == AdapterSpec => LogSpec /\ PriceSpec
<1>1. AdapterInit => LogInit /\ PriceInit
  BY DEF AdapterInit
<1>2. AdapterInv /\ [AdapterNext]_allVars => [LogNext]_logVars /\ [PriceNext]_priceVars
  BY AdapterStep
<1> QED BY <1>1, <1>2, AdapterInvHolds, PTL DEF AdapterSpec, LogSpec, PriceSpec

\* providers/cost_table.py:47-53: so recorded spending drifts by half a unit a call
\* at most, and every price was rounded half-even.
THEOREM AdaptersKeepPrices == AdapterSpec => [](DriftBounded /\ QuantizeIsHalfEven)
BY AdaptersLogAndPrice, DriftIsBounded, RoundingIsHalfEven, PTL

\* providers/openai_adapter.py:60-61: and a request of any adapter is logged only
\* as PromptIsGated says.
THEOREM AdaptersGatePrompts == AdapterSpec => []PromptGated
BY AdaptersLogAndPrice, PromptIsGated, PTL

\* broker/runtime.py:174-222: the state of calls, books and log keeps its shape.
THEOREM AdapterTypes == AdapterSpec => []AdapterTypeOK
<1>1. AdapterInv => AdapterTypeOK
  BY DEF AdapterInv, Parsed, Paid, LogInv, AdapterTypeOK
<1> QED BY <1>1, AdapterInvHolds, PTL

\* broker/runtime.py:193-209 with grants/manager.py:98-105: under any budget, rates
\* and token counts, at most as many calls cost over half a unit as the budget has
\* units.
THEOREM NoPaidCallIsFree == AdapterSpec => []MeteredCallsBounded
<1>1. AdapterInv => MeteredCallsBounded
  BY AdapterConstants DEF AdapterInv, PriceTypeOK, Paid, MeteredCallsBounded
<1> QED BY <1>1, AdapterInvHolds, PTL

\* providers/mock.py:46-85 and 116-125: of any plain schema, however nested, the
\* mock serves an instance, and the topic it puts in leaves it one.
THEOREM MockServes == AdapterSpec => []MockServesPlainSchemas
<1>1. AdapterInv => MockServesPlainSchemas
  <2> SUFFICES ASSUME AdapterInv, madeFrom # Nothing, Plain[madeFrom.schema],
                      TitlePinned(madeFrom.schema) => madeFrom.topic = ""
               PROVE  Accepts[madeFrom.schema][output] /\ madeFrom.valid
    BY DEF MockServesPlainSchemas
  <2> DEFINE s == madeFrom.schema
             d == Default[s]
  <2>1. /\ s \in Schemas /\ madeFrom.topic \in Topics
        /\ output = Touched(d, madeFrom.topic)
        /\ madeFrom.valid = Accepts[Seen(s, madeFrom.topic)][output]
    BY DEF AdapterInv, Made
  <2>2. d \in Values /\ output \in Values
    BY <2>1, SchemasAreTrees, AdapterConstants
  <2>3. Accepts[s][d]
    BY <2>1, DefaultIsAccepted
  <2>4. madeFrom.topic # "" => ~TitlePinned(s)
    OBVIOUS
  <2>5. Seen(s, madeFrom.topic) = s
    <3> HIDE DEF s
    <3> QED BY <2>1, <2>4, SeenIsSame
  <2> HIDE DEF s, d
  <2>6. Accepts[s][output]
    BY <2>1, <2>2, <2>3, <2>4, TouchedIsAccepted
  <2> QED BY <2>1, <2>5, <2>6 DEF s
<1> QED BY <1>1, AdapterInvHolds, PTL

\* security/redaction.py:49-67: whatever JSON value redact is given, it hides what
\* it has to and only that, and a second redaction changes nothing.
THEOREM RedactionIsComplete == AdapterSpec => []RedactionComplete
<1>1. AdapterInv => RedactionComplete
  BY RedactIsClean DEF AdapterInv, Made, RedactionComplete
<1> QED BY <1>1, AdapterInvHolds, PTL
=============================================================================
