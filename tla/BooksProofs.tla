------------------------------ MODULE BooksProofs ------------------------------
(***************************************************************************)
(* Receipts against recorded spending, for any number of executions and    *)
(* grants.  What a single execution leaves is settled first: at each place *)
(* of its run, what it paid, what base_fields says and what its receipt    *)
(* says (BooksInv).  A charge adds the same amount to the grant and to     *)
(* what one execution paid, so that the recorded total never exceeds the   *)
(* sum over the executions, and equals it when callers run one at a time   *)
(* (NothingLost).  Under overlaps a total may lack charges, but only of    *)
(* executions that shared the grant: whoever else has a copy in hand is    *)
(* noted (SharedNoted), so that no total there is, on disk or in a copy,   *)
(* lacks what was charged alone (AloneInv).  The sums are over a finite    *)
(* set of executions nobody knows the size of: a fact about all of them is *)
(* proved by looking at a smallest part of it where it fails               *)
(* (SmallestPart).                                                         *)
(***************************************************************************)
EXTENDS BrokerRuntimeProofs, FiniteSetTheorems

\* Induction over the parts of a finite set: some set in D has no proper part in D.
LEMMA SmallestPart ==
  ASSUME NEW S, IsFiniteSet(S), NEW D, D \subseteq SUBSET S, D # {}
  PROVE  \E T \in D : \A U \in D : U \subseteq T => U = T
<1>1. IsWellFoundedOn(StrictSubsetOrdering(S), SUBSET S)
  BY FS_FiniteSubsetsOfFinite, FS_StrictSubsetOrderingWellFounded
<1>2. PICK T \in D : \A U \in D : <<U, T>> \notin StrictSubsetOrdering(S)
  BY <1>1, WFMin
<1> QED BY <1>2 DEF StrictSubsetOrdering

\* The element a fold takes first, and the functions that add up f as it does.
Pick(s) == CHOOSE x \in s : TRUE

AddsUp(h, f, S) ==
  h = [s \in SUBSET S |-> IF s = {} THEN 0 ELSE f[Pick(s)] + h[s \ {Pick(s)}]]

LEMMA SumIs ==
  ASSUME NEW f, NEW S
  PROVE  SumFunctionOnSet(f, S) = (CHOOSE h : AddsUp(h, f, S))[S]
BY Zenon DEF SumFunctionOnSet, FoldFunctionOnSet, MapThenFoldSet, AddsUp, Pick

LEMMA PickIn == ASSUME NEW s, s # {} PROVE Pick(s) \in s
BY DEF Pick

\* The equation at one part.
LEMMA AddsUpAt ==
  ASSUME NEW h, NEW f, NEW S, AddsUp(h, f, S), NEW s \in SUBSET S
  PROVE  h[s] = IF s = {} THEN 0 ELSE f[Pick(s)] + h[s \ {Pick(s)}]
BY DEF AddsUp

LEMMA OneAddsUp ==
  ASSUME NEW f, NEW S, IsFiniteSet(S), NEW g, AddsUp(g, f, S), NEW h, AddsUp(h, f, S)
  PROVE  g = h
<1> DEFINE D == {s \in SUBSET S : g[s] # h[s]}
<1>1. ASSUME D # {} PROVE FALSE
  <2>0. D \subseteq SUBSET S
    OBVIOUS
  <2>1. PICK s \in D : \A u \in D : u \subseteq s => u = s
    <3> HIDE DEF D
    <3> QED BY <1>1, <2>0, SmallestPart
  <2>2. s # {} => s \ {Pick(s)} \in SUBSET S /\ s \ {Pick(s)} # s
    BY <2>1, PickIn
  <2>3. s # {} => g[s \ {Pick(s)}] = h[s \ {Pick(s)}]
    BY <2>1, <2>2
  <2>4. /\ g[s] = IF s = {} THEN 0 ELSE f[Pick(s)] + g[s \ {Pick(s)}]
        /\ h[s] = IF s = {} THEN 0 ELSE f[Pick(s)] + h[s \ {Pick(s)}]
    BY <2>1, AddsUpAt
  <2> QED BY <2>1, <2>3, <2>4
<1>2. /\ g = [s \in SUBSET S |-> g[s]] /\ h = [s \in SUBSET S |-> h[s]]
  BY DEF AddsUp
<1> QED BY <1>1, <1>2

\* What adds up over S does so over a part of it.
LEMMA PartAddsUp ==
  ASSUME NEW f, NEW S, NEW h, AddsUp(h, f, S), NEW T \in SUBSET S
  PROVE  AddsUp([s \in SUBSET T |-> h[s]], f, T)
<1> DEFINE k == [s \in SUBSET T |-> h[s]]
<1>1. ASSUME NEW s \in SUBSET T
      PROVE  k[s] = IF s = {} THEN 0 ELSE f[Pick(s)] + k[s \ {Pick(s)}]
  <2>1. s \in SUBSET S /\ s \ {Pick(s)} \in SUBSET T
    OBVIOUS
  <2>2. h[s] = IF s = {} THEN 0 ELSE f[Pick(s)] + h[s \ {Pick(s)}]
    BY <2>1 DEF AddsUp
  <2> QED BY <2>1, <2>2
<1>2. DOMAIN k = SUBSET T /\ k = [s \in SUBSET T |-> k[s]]
  OBVIOUS
<1> HIDE DEF k
<1> QED BY <1>1, <1>2 DEF AddsUp

LEMMA SomeAddsUp ==
  ASSUME NEW f, NEW S, IsFiniteSet(S)
  PROVE  \E h : AddsUp(h, f, S)
<1> DEFINE D == {T \in SUBSET S : ~ \E h : AddsUp(h, f, T)}
<1>1. ASSUME D # {} PROVE FALSE
  <2>0. D \subseteq SUBSET S
    OBVIOUS
  <2>1. PICK T \in D : \A U \in D : U \subseteq T => U = T
    <3> HIDE DEF D
    <3> QED BY <1>1, <2>0, SmallestPart
  <2> DEFINE Sub(s) == CHOOSE h : AddsUp(h, f, s)
             k == [s \in SUBSET T |->
                     IF s = {} THEN 0 ELSE f[Pick(s)] + Sub(s \ {Pick(s)})[s \ {Pick(s)}]]
  <2>2. ASSUME NEW U \in SUBSET T, U # T PROVE AddsUp(Sub(U), f, U)
    <3>1. U \in SUBSET S /\ U \notin D
      BY <2>1, <2>2
    <3> QED BY <3>1
  <2>3. ASSUME NEW U \in SUBSET T, U # T
        PROVE  Sub(U)[U] = k[U]
    <3> DEFINE V == U \ {Pick(U)}
    <3>0. Sub(U)[U] = IF U = {} THEN 0 ELSE f[Pick(U)] + Sub(U)[V]
      <4>1. AddsUp(Sub(U), f, U)
        BY <2>2, <2>3
      <4> HIDE DEF Sub
      <4> QED BY <4>1, AddsUpAt
    <3>1. CASE U = {}
      BY <3>0, <3>1
    <3>2. CASE U # {}
      <4>1. V \in SUBSET U /\ V \in SUBSET T /\ V # T /\ V \in SUBSET V
        BY <2>3, <3>2, PickIn
      <4>2. AddsUp([s \in SUBSET V |-> Sub(U)[s]], f, V)
        BY <2>2, <2>3, <4>1, PartAddsUp
      <4>3. AddsUp(Sub(V), f, V)
        BY <2>2, <4>1
      <4>4. IsFiniteSet(V)
        BY <2>1, <4>1, FS_Subset
      <4>5. [s \in SUBSET V |-> Sub(U)[s]] = Sub(V)
        BY <4>2, <4>3, <4>4, OneAddsUp
      <4>6. Sub(U)[V] = Sub(V)[V]
        BY <4>1, <4>5
      <4>7. Sub(U)[U] = f[Pick(U)] + Sub(U)[V]
        BY <3>0, <3>2
      <4>8. k[U] = f[Pick(U)] + Sub(V)[V]
        BY <3>2
      <4> QED BY <4>6, <4>7, <4>8
    <3> QED BY <3>1, <3>2
  <2>4. ASSUME NEW s \in SUBSET T
        PROVE  k[s] = IF s = {} THEN 0 ELSE f[Pick(s)] + k[s \ {Pick(s)}]
    <3>1. s # {} => s \ {Pick(s)} \in SUBSET T /\ s \ {Pick(s)} # T
      BY PickIn
    <3>2. s # {} => Sub(s \ {Pick(s)})[s \ {Pick(s)}] = k[s \ {Pick(s)}]
      BY <2>3, <3>1
    <3>3. k[s] = IF s = {} THEN 0 ELSE f[Pick(s)] + Sub(s \ {Pick(s)})[s \ {Pick(s)}]
      OBVIOUS
    <3> QED BY <3>2, <3>3
  <2>5. k = [s \in SUBSET T |-> k[s]]
    OBVIOUS
  <2> HIDE DEF k
  <2>6. AddsUp(k, f, T)
    BY <2>4, <2>5 DEF AddsUp
  <2> QED BY <2>1, <2>6
<1> QED BY <1>1

\* The sum is what one gets by taking elements in the order of the fold.
LEMMA SumStep ==
  ASSUME NEW f, NEW S, IsFiniteSet(S)
  PROVE  SumFunctionOnSet(f, S) =
           IF S = {} THEN 0 ELSE f[Pick(S)] + SumFunctionOnSet(f, S \ {Pick(S)})
<1> DEFINE h == CHOOSE x : AddsUp(x, f, S)
           T == S \ {Pick(S)}
           k == CHOOSE x : AddsUp(x, f, T)
<1>1. AddsUp(h, f, S)
  BY SomeAddsUp
<1>2. IsFiniteSet(T) /\ T \in SUBSET S
  BY FS_Subset
<1>3. AddsUp(k, f, T)
  BY <1>2, SomeAddsUp
<1>4. AddsUp([s \in SUBSET T |-> h[s]], f, T)
  BY <1>1, <1>2, PartAddsUp
<1>5. h[T] = k[T]
  BY <1>2, <1>3, <1>4, OneAddsUp
<1>6. SumFunctionOnSet(f, S) = h[S] /\ SumFunctionOnSet(f, T) = k[T]
  BY SumIs
<1>7. h[S] = IF S = {} THEN 0 ELSE f[Pick(S)] + h[T]
  BY <1>1 DEF AddsUp
<1> QED BY <1>5, <1>6, <1>7

-----------------------------------------------------------------------------
\* What holds of no element, and of a set when it does of the set less any one
\* element, holds of every part of a finite set.
LEMMA PartByPart ==
  ASSUME NEW S, IsFiniteSet(S), NEW D, {} \in D,
         \A T \in SUBSET S : T # {} /\ (\A x \in T : T \ {x} \in D) => T \in D
  PROVE  \A T \in SUBSET S : T \in D
<1> DEFINE C == {T \in SUBSET S : T \notin D}
<1>1. ASSUME C # {} PROVE FALSE
  <2>1. C \subseteq SUBSET S
    OBVIOUS
  <2>2. PICK T \in C : \A U \in C : U \subseteq T => U = T
    <3> HIDE DEF C
    <3> QED BY <1>1, <2>1, SmallestPart
  <2>3. ASSUME NEW x \in T PROVE T \ {x} \in D
    <3>1. T \ {x} \in SUBSET S /\ T \ {x} # T /\ T \ {x} \subseteq T
      BY <2>1, <2>2
    <3> QED BY <2>2, <3>1
  <2> QED BY <2>2, <2>3
<1> QED BY <1>1

LEMMA SumNone == ASSUME NEW f PROVE SumFunctionOnSet(f, {}) = 0
<1>1. IsFiniteSet({})
  BY FS_EmptySet
<1> QED BY <1>1, SumStep

\* A sum of naturals is one.
LEMMA SumNat ==
  ASSUME NEW f, NEW S, IsFiniteSet(S), \A x \in S : f[x] \in Nat
  PROVE  SumFunctionOnSet(f, S) \in Nat
<1> DEFINE D == {T \in SUBSET S : SumFunctionOnSet(f, T) \in Nat}
<1>1. {} \in D
  BY SumNone
<1>2. ASSUME NEW T \in SUBSET S, T # {}, \A x \in T : T \ {x} \in D PROVE T \in D
  <2>1. SumFunctionOnSet(f, T) = f[Pick(T)] + SumFunctionOnSet(f, T \ {Pick(T)})
    BY <1>2, FS_Subset, SumStep
  <2>2. Pick(T) \in T /\ f[Pick(T)] \in Nat
    BY <1>2, PickIn
  <2> QED BY <1>2, <2>1, <2>2
<1>3. S \in D
  <2>1. \A T \in SUBSET S : T # {} /\ (\A y \in T : T \ {y} \in D) => T \in D
    BY <1>2
  <2> HIDE DEF D
  <2>2. \A T \in SUBSET S : T \in D
    BY <1>1, <2>1, PartByPart
  <2> QED BY <2>2
<1> QED BY <1>3

\* Any element may be taken out of a sum of naturals, not only the fold's own.
LEMMA SumTake ==
  ASSUME NEW f, NEW S, IsFiniteSet(S), \A x \in S : f[x] \in Nat, NEW x \in S
  PROVE  SumFunctionOnSet(f, S) = f[x] + SumFunctionOnSet(f, S \ {x})
<1> DEFINE Sum(T) == SumFunctionOnSet(f, T)
           D == {T \in SUBSET S : \A y \in T : Sum(T) = f[y] + Sum(T \ {y})}
<1>1. {} \in D
  OBVIOUS
<1>2. ASSUME NEW T \in SUBSET S, T # {}, \A y \in T : T \ {y} \in D PROVE T \in D
  <2> DEFINE p == Pick(T)
  <2>1. p \in T /\ Sum(T) = f[p] + Sum(T \ {p})
    BY <1>2, FS_Subset, SumStep, PickIn
  <2>2. ASSUME NEW y \in T PROVE Sum(T) = f[y] + Sum(T \ {y})
    <3> HIDE DEF p
    <3>1. CASE y = p
      BY <2>1, <3>1
    <3>2. CASE y # p
      <4> DEFINE R == T \ {p, y}
      <4>1. y \in T \ {p} /\ (T \ {p}) \ {y} = R /\ p \in T \ {y} /\ (T \ {y}) \ {p} = R
        BY <2>1, <3>2
      <4>2. Sum(T \ {p}) = f[y] + Sum(R) /\ Sum(T \ {y}) = f[p] + Sum(R)
        <5>1. Sum(T \ {p}) = f[y] + Sum((T \ {p}) \ {y})
          BY <1>2, <2>1, <4>1
        <5>2. Sum(T \ {y}) = f[p] + Sum((T \ {y}) \ {p})
          BY <1>2, <4>1
        <5> QED BY <4>1, <5>1, <5>2
      <4>3. f[p] \in Nat /\ f[y] \in Nat
        BY <2>1
      <4>4. Sum(R) \in Nat
        BY FS_Subset, SumNat
      <4> HIDE DEF R, Sum
      <4> QED BY <2>1, <4>2, <4>3, <4>4
    <3> QED BY <3>1, <3>2
  <2> QED BY <2>2
<1>3. S \in D
  <2>1. \A T \in SUBSET S : T # {} /\ (\A y \in T : T \ {y} \in D) => T \in D
    BY <1>2
  <2> HIDE DEF D
  <2>2. \A T \in SUBSET S : T \in D
    BY <1>1, <2>1, PartByPart
  <2> QED BY <2>2
<1> QED BY <1>3

\* Larger terms, larger sum.
LEMMA SumGrows ==
  ASSUME NEW f, NEW g, NEW S, IsFiniteSet(S),
         \A x \in S : f[x] \in Nat /\ g[x] \in Nat /\ f[x] <= g[x]
  PROVE  SumFunctionOnSet(f, S) <= SumFunctionOnSet(g, S)
<1> DEFINE D == {T \in SUBSET S : SumFunctionOnSet(f, T) <= SumFunctionOnSet(g, T)}
<1>1. {} \in D
  BY SumNone
<1>2. ASSUME NEW T \in SUBSET S, T # {}, \A x \in T : T \ {x} \in D PROVE T \in D
  <2> DEFINE p == Pick(T)
             F == SumFunctionOnSet(f, T \ {p})
             G == SumFunctionOnSet(g, T \ {p})
  <2>1. /\ SumFunctionOnSet(f, T) = f[p] + F
        /\ SumFunctionOnSet(g, T) = g[p] + G
    BY <1>2, FS_Subset, SumStep
  <2>2. p \in T /\ f[p] \in Nat /\ g[p] \in Nat /\ f[p] <= g[p]
    BY <1>2, PickIn
  <2>3. F <= G
    BY <1>2, <2>2
  <2>4. F \in Nat /\ G \in Nat
    BY FS_Subset, SumNat
  <2> HIDE DEF p, F, G
  <2> QED BY <2>1, <2>2, <2>3, <2>4
<1>3. S \in D
  <2>1. \A T \in SUBSET S : T # {} /\ (\A y \in T : T \ {y} \in D) => T \in D
    BY <1>2
  <2> HIDE DEF D
  <2>2. \A T \in SUBSET S : T \in D
    BY <1>1, <2>1, PartByPart
  <2> QED BY <2>2
<1> QED BY <1>3

LEMMA SumZero ==
  ASSUME NEW f, NEW S, IsFiniteSet(S), \A x \in S : f[x] = 0
  PROVE  SumFunctionOnSet(f, S) = 0
<1> DEFINE D == {T \in SUBSET S : SumFunctionOnSet(f, T) = 0}
<1>1. {} \in D
  BY SumNone
<1>2. ASSUME NEW T \in SUBSET S, T # {}, \A x \in T : T \ {x} \in D PROVE T \in D
  <2>1. /\ SumFunctionOnSet(f, T) = f[Pick(T)] + SumFunctionOnSet(f, T \ {Pick(T)})
        /\ Pick(T) \in T
    BY <1>2, FS_Subset, SumStep, PickIn
  <2> QED BY <1>2, <2>1
<1>3. S \in D
  <2>1. \A T \in SUBSET S : T # {} /\ (\A y \in T : T \ {y} \in D) => T \in D
    BY <1>2
  <2> HIDE DEF D
  <2>2. \A T \in SUBSET S : T \in D
    BY <1>1, <2>1, PartByPart
  <2> QED BY <2>2
<1> QED BY <1>3

\* Adding to one term adds as much to the sum.
LEMMA SumAdds ==
  ASSUME NEW f, NEW g, NEW S, IsFiniteSet(S), NEW x \in S, NEW amount \in Nat,
         \A y \in S : f[y] \in Nat,
         \A y \in S : g[y] = IF y = x THEN f[y] + amount ELSE f[y]
  PROVE  SumFunctionOnSet(g, S) = SumFunctionOnSet(f, S) + amount
<1> DEFINE R == S \ {x}
           F == SumFunctionOnSet(f, R)
           G == SumFunctionOnSet(g, R)
<1>1. /\ SumFunctionOnSet(f, S) = f[x] + F
      /\ SumFunctionOnSet(g, S) = g[x] + G
  BY SumTake
<1>2. F \in Nat /\ G \in Nat
  BY FS_Subset, SumNat
<1>3. F <= G /\ G <= F
  BY FS_Subset, SumGrows
<1>4. f[x] \in Nat /\ g[x] = f[x] + amount
  OBVIOUS
<1> HIDE DEF F, G
<1> QED BY <1>1, <1>2, <1>3, <1>4
-----------------------------------------------------------------------------
\* What execution e contributes to what was charged to g, and to what receipts say.
PaidTo(g) == [e \in Execs |-> IF paid[e] # None /\ base[e].id = g THEN paid[e] ELSE 0]

AuditedTo(g) ==
  [e \in Execs |->
    IF /\ receipts[e] # None /\ base[e].id = g
       /\ receipts[e].status \in {"succeeded", "invalid_output"}
      THEN Amount(receipts[e].cost) ELSE 0]

\* Execution e charges the grant it was started with, after its call, and its
\* receipt repeats what base_fields said when it was signed.
Accounted(e) ==
  /\ held[e] # Idle => held[e].id = base[e].id /\ paid[e] = None
  /\ paid[e] # None => e \in called
  /\ receipts[e] # None => /\ receipts[e].status = base[e].status
                           /\ receipts[e].cost = base[e].cost
                           /\ Truthful(e)
  /\ pc[e] = "done" => receipts[e] # None

\* No copy in a caller's hands records more than was charged to its grant.
CopiesCharged ==
  \A p \in Procs, g \in GrantIds :
    held[p] # Idle /\ held[p].id = g => held[p].grant.spent <= Paid(g)

BooksInv == (\A e \in Execs : Accounted(e)) /\ NothingMadeUp /\ CopiesCharged

LEMMA PaidIs == ASSUME NEW g PROVE Paid(g) = SumFunctionOnSet(PaidTo(g), Execs)
BY DEF Paid, PaidTo, SumFunction

LEMMA AuditedIs == ASSUME NEW g PROVE Audited(g) = SumFunctionOnSet(AuditedTo(g), Execs)
BY DEF Audited, AuditedTo, SumFunction

LEMMA PaidTerm ==
  ASSUME RuntimeTypeOK, NEW g
  PROVE  \A e \in Execs : PaidTo(g)[e] \in Nat
BY GrantConstants DEF PaidTo, RuntimeTypeOK

LEMMA PaidNat == ASSUME RuntimeTypeOK, NEW g PROVE Paid(g) \in Nat
BY PaidIs, PaidTerm, SumNat, RuntimeConstants

LEMMA RecordedNat == ASSUME TypeOK, NEW g \in GrantIds PROVE Recorded(g) \in Nat
<1>1. grants[g] \in GrantDoc \cup {None}
  BY DEF TypeOK
<1> QED BY <1>1 DEF Recorded, GrantDoc

\* What was charged stays as it is while nobody is charged.
LEMMA PaidKept ==
  ASSUME \A e \in Execs : paid'[e] = paid[e] /\ (paid[e] # None => base'[e].id = base[e].id),
         NEW g
  PROVE  Paid(g)' = Paid(g)
<1>1. PaidTo(g)' = PaidTo(g)
  BY DEF PaidTo
<1> QED BY <1>1 DEF Paid, PaidTo

\* A charge adds its amount to what was charged to its grant.
LEMMA PaidAdds ==
  ASSUME RuntimeTypeOK, NEW e \in Execs, paid[e] = None, NEW amount \in Amounts,
         paid' = [paid EXCEPT ![e] = amount], base' = base, NEW g
  PROVE  Paid(g)' = IF base[e].id = g THEN Paid(g) + amount ELSE Paid(g)
<1>1. amount \in Nat /\ amount # None /\ IsFiniteSet(Execs)
  BY GrantConstants, RuntimeConstants, NoneIsNoDocument
<1>2. Paid(g)' = SumFunctionOnSet(PaidTo(g)', Execs)
  BY DEF Paid, PaidTo, SumFunction
<1>3. paid'[e] = amount /\ \A f \in Execs \ {e} : paid'[f] = paid[f]
  BY DEF RuntimeTypeOK
<1>4. CASE base[e].id = g
  <2>1. \A f \in Execs : PaidTo(g)'[f] = IF f = e THEN PaidTo(g)[f] + amount ELSE PaidTo(g)[f]
    BY <1>1, <1>3, <1>4 DEF PaidTo
  <2>2. SumFunctionOnSet(PaidTo(g)', Execs) = SumFunctionOnSet(PaidTo(g), Execs) + amount
    BY <1>1, <2>1, PaidTerm, SumAdds
  <2> QED BY <1>2, <1>4, <2>2, PaidIs
<1>5. CASE base[e].id # g
  <2>1. PaidTo(g)' = PaidTo(g)
    BY <1>3, <1>5 DEF PaidTo
  <2> QED BY <1>2, <1>5, <2>1, PaidIs
<1> QED BY <1>4, <1>5
-----------------------------------------------------------------------------
\* What a step of e that charges nothing has to show.
Settled(e) ==
  /\ Accounted(e)'
  /\ paid'[e] = paid[e]
  /\ paid[e] # None => base'[e].id = base[e].id

\* If e still has a copy after the step, it is of the grant it was of before.
SameCopy(e) == held'[e] # Idle => held[e] # Idle /\ held'[e].id = held[e].id

LEMMA RestsSettled ==
  ASSUME NEW e \in Execs, Accounted(e), Rests(e)
  PROVE  Settled(e)
BY DEF Accounted, Rests, Settled, Truthful, Amount

\* Until the receipt is signed, an execution only has to keep to its grant.
LEMMA UnsignedSettled ==
  ASSUME AuditInv, NEW e \in Execs, Accounted(e),
         pc[e] \notin {"receipted"} \cup Ended, pc'[e] # "done",
         SameCopy(e),
         base'[e].id = base[e].id,
         paid' = paid, receipts' = receipts, called \subseteq called'
  PROVE  Settled(e)
<1>1. receipts[e] = None
  BY DEF AuditInv, OnTheBooks
<1> QED BY <1>1 DEF Accounted, Settled, SameCopy

LEMMA DecideKeepsId ==
  ASSUME RuntimeTypeOK, NEW e \in Execs, NEW status, NEW output, Decide(e, status, output)
  PROVE  pc'[e] = "decided" /\ base'[e].id = base[e].id
<1>1. pc \in [Execs -> Stages] /\ base \in [Execs -> BaseFields]
  BY DEF RuntimeTypeOK
<1>2. base' = [base EXCEPT ![e] = [base[e] EXCEPT !.status = status, !.output = output]]
  BY <1>1 DEF Decide
<1>3. base[e] \in BaseFields
  BY <1>1
<1> QED BY <1>1, <1>2, <1>3 DEF Decide, Goto, BaseFields

\* What the manager does to e's copy when nothing is charged: it is let go, or
\* stays a copy of the same document.
LEMMA CopyKept ==
  ASSUME RuntimeTypeOK, NEW e \in Execs,
         Abandon(e) \/ AssertUsable(e) \/ Forget(e) \/ UNCHANGED managerVars
  PROVE  SameCopy(e)
<1>1. held \in [Procs -> Held]
  BY DEF RuntimeTypeOK, TypeOK
<1>2. CASE AssertUsable(e)
  <2>1. held[e] # Idle
    BY <1>2, IdleOp DEF AssertUsable
  <2>2. held[e] \in [op: {"charge", "admitted", "revoke"}, id: GrantIds, grant: GrantDoc]
    BY <1>1, <2>1, ExecIsCaller DEF Held
  <2>3. held'[e] = Idle \/ held'[e] = [held[e] EXCEPT !.op = "admitted"]
    BY <1>1, <1>2, ExecIsCaller DEF AssertUsable
  <2> QED BY <2>1, <2>2, <2>3 DEF SameCopy
<1> QED BY <1>1, <1>2, ExecIsCaller DEF Abandon, Forget, managerVars, SameCopy

\* A step of e that charges nothing.
Unpaid(e) ==
  \/ LoadFails(e) \/ Raise(e) \/ Crash(e)
  \/ \E k \in Packages, g \in GrantIds : Load(e, k, g)
  \/ Admit(e) \/ CheckInput(e) \/ AdapterRefuses(e) \/ CallProvider(e) \/ ProviderFails(e)
  \/ \E cost \in Amounts \cup {None}, output \in Outputs : ProviderAnswers(e, cost, output)
  \/ ChargeGrant(e) /\ UNCHANGED paid
  \/ CheckOutput(e) \/ PersistReceipt(e) \/ PersistResult(e)

\* A step of e that charges.
Pays(e) ==
  /\ pc[e] = "answered"
  /\ Charge(e, Amount(base[e].cost))
  /\ paid' = [paid EXCEPT ![e] = Amount(base[e].cost)]
  /\ pc' = [pc EXCEPT ![e] = "charged"]
  /\ UNCHANGED <<base, called, shared, receipts, results>>

LEMMA UnpaidOrPays ==
  ASSUME RuntimeNext
  PROVE  (\E e \in Execs : Unpaid(e) \/ Pays(e)) \/ Outside
<1>1. ASSUME NEW e \in Execs, ChargeGrant(e) PROVE Unpaid(e) \/ Pays(e)
  BY <1>1 DEF ChargeGrant, Unpaid, Pays, Goto, auditFiles
<1> QED BY <1>1 DEF RuntimeNext, Step, Unpaid

LEMMA StepSettled ==
  ASSUME AuditInv, NEW e \in Execs, Accounted(e), Unpaid(e)
  PROVE  Settled(e)
<1>1. /\ RuntimeTypeOK /\ held \in [Procs -> Held]
      /\ pc \in [Execs -> Stages] /\ base \in [Execs -> BaseFields] /\ OnTheBooks(e)
      /\ receipts = [f \in Execs |-> receipts[f]]
  BY DEF AuditInv, RuntimeTypeOK, TypeOK
<1>2. ASSUME NEW k \in Packages, NEW g \in GrantIds, Load(e, k, g) PROVE Settled(e)
  <2>1. /\ pc[e] = "idle" /\ pc'[e] = "loaded" /\ UNCHANGED <<called, paid, receipts>>
        /\ base'[e].id = g
    BY <1>1, <1>2 DEF Load, Goto, NoBase, auditFiles
  <2>2. held'[e].id = g
    BY <1>1, <1>2, ExecIsCaller DEF Load, LoadGrant, Holding
  <2>3. paid[e] = None /\ receipts[e] = None
    BY <1>1, <2>1 DEF OnTheBooks, Ended
  <2> QED BY <2>1, <2>2, <2>3 DEF Accounted, Settled
<1>3. ASSUME NEW status, NEW output, Decide(e, status, output),
             pc[e] \notin {"receipted"} \cup Ended, UNCHANGED <<called, paid, receipts>>,
             Abandon(e) \/ AssertUsable(e) \/ UNCHANGED managerVars
      PROVE  Settled(e)
  <2>1. pc'[e] # "done" /\ base'[e].id = base[e].id
    BY <1>1, <1>3, DecideKeepsId
  <2>2. SameCopy(e)
    BY <1>1, <1>3, CopyKept
  <2>3. paid' = paid /\ receipts' = receipts /\ called \subseteq called'
    BY <1>3
  <2> QED BY <1>3, <2>1, <2>2, <2>3, UnsignedSettled
<1>4. ASSUME NEW stage \in {"admitted", "prepared", "calling"}, Goto(e, stage),
             base'[e].id = base[e].id, UNCHANGED <<paid, receipts>>, called \subseteq called',
             pc[e] \notin {"receipted"} \cup Ended,
             AssertUsable(e) \/ UNCHANGED managerVars
      PROVE  Settled(e)
  <2>1. pc'[e] # "done"
    BY <1>1, <1>4 DEF Goto
  <2>2. SameCopy(e)
    BY <1>1, <1>4, CopyKept
  <2>3. paid' = paid /\ receipts' = receipts /\ base'[e].id = base[e].id
    BY <1>4
  <2> QED BY <1>4, <2>1, <2>2, <2>3, UnsignedSettled
<1>5. CASE Admit(e)
  <2>1. /\ pc[e] \notin {"receipted"} \cup Ended /\ UNCHANGED <<called, paid, receipts>>
    BY <1>5 DEF Admit, auditFiles, Ended
  <2>2. \/ Goto(e, "admitted") /\ base'[e].id = base[e].id /\ AssertUsable(e)
        \/ (\E status : Decide(e, status, None)) /\ (Abandon(e) \/ AssertUsable(e))
    <3>1. base[e] \in BaseFields
      BY <1>1
    <3>2. base' = [base EXCEPT ![e].at = now] => base'[e].id = base[e].id
      BY <1>1, <3>1 DEF BaseFields
    <3> QED BY <1>5, <3>2 DEF Admit
  <2> QED BY <1>3, <1>4, <2>1, <2>2
<1>6. CASE CheckInput(e) \/ AdapterRefuses(e) \/ CallProvider(e)
  <2>1. /\ pc[e] \notin {"receipted"} \cup Ended /\ UNCHANGED <<paid, receipts>>
        /\ called \subseteq called'
    BY <1>6 DEF CheckInput, AdapterRefuses, CallProvider, auditFiles, Ended
  <2> QED BY <1>3, <1>4, <1>6, <2>1 DEF CheckInput, AdapterRefuses, CallProvider
<1>7. ASSUME NEW cost, NEW output, ProviderAnswers(e, cost, output) PROVE Settled(e)
  <2>1. base' = [base EXCEPT ![e] = [base[e] EXCEPT !.cost = cost, !.output = output]]
    BY <1>1, <1>7 DEF ProviderAnswers
  <2>2. base[e] \in BaseFields
    BY <1>1
  <2>3. base'[e].id = base[e].id
    BY <1>1, <2>1, <2>2 DEF BaseFields
  <2>4. /\ pc[e] \notin {"receipted"} \cup Ended /\ pc'[e] # "done" /\ SameCopy(e)
        /\ paid' = paid /\ receipts' = receipts /\ called \subseteq called'
    BY <1>1, <1>7 DEF ProviderAnswers, Calling, Goto, managerVars, auditFiles, Ended,
                       SameCopy
  <2> QED BY <2>3, <2>4, UnsignedSettled
<1>8. CASE ProviderFails(e) \/ CheckOutput(e)
  <2>1. /\ pc[e] \notin {"receipted"} \cup Ended /\ UNCHANGED <<called, paid, receipts>>
    BY <1>8 DEF ProviderFails, Calling, CheckOutput, auditFiles, Ended
  <2> QED BY <1>3, <1>8, <2>1 DEF ProviderFails, CheckOutput
<1>9. CASE ChargeGrant(e) /\ UNCHANGED paid
  <2>1. /\ pc[e] = "answered" /\ paid[e] = None /\ UNCHANGED <<called, receipts>>
    BY <1>1, <1>9 DEF ChargeGrant, OnTheBooks, auditFiles
  <2>2. ~(paid' = [paid EXCEPT ![e] = Amount(base[e].cost)])
    BY <1>1, <1>9, <2>1, AmountKnown, NoneIsNoDocument DEF RuntimeTypeOK
  <2> QED BY <1>3, <1>9, <2>1, <2>2 DEF ChargeGrant, Ended
<1>10. CASE PersistReceipt(e)
  <2> DEFINE receipt ==
        [status |-> base[e].status, pkg |-> base[e].pkg, terms |-> base[e].grant.terms,
         budget |-> base[e].grant.budget, cost |-> base[e].cost,
         output_hash |-> HashOf(base[e].output)]
  <2>1. /\ Truthful(e) /\ pc'[e] = "receipted" /\ UNCHANGED <<held, base, called, paid>>
        /\ receipts'[e] = receipt
    BY <1>1, <1>10 DEF PersistReceipt, OnTheBooks, Goto, managerVars
  <2>2. Truthful(e)'
    BY <2>1 DEF Truthful, Amount
  <2> QED BY <2>1, <2>2 DEF Accounted, Settled
<1>11. CASE PersistResult(e)
  <2>1. /\ receipts[e] # None /\ UNCHANGED <<held, base, called, paid, receipts>>
    BY <1>1, <1>11 DEF PersistResult, OnTheBooks, managerVars
  <2> QED BY <2>1 DEF Accounted, Settled, Truthful, Amount
<1>12. CASE LoadFails(e) \/ Raise(e) \/ Crash(e)
  <2>1. /\ pc'[e] \in {"raised", "crashed"} /\ UNCHANGED <<base, called, paid, receipts>>
    BY <1>1, <1>12 DEF LoadFails, Raise, Crash, Goto, auditFiles
  <2>2. Forget(e) \/ UNCHANGED managerVars
    BY <1>12 DEF LoadFails, Raise, Crash
  <2>3. SameCopy(e)
    BY <1>1, <2>2, CopyKept
  <2> QED BY <2>1, <2>3 DEF Accounted, Settled, SameCopy, Truthful, Amount
<1> QED
  BY <1>2, <1>5, <1>6, <1>7, <1>8, <1>9, <1>10, <1>11, <1>12 DEF Unpaid
-----------------------------------------------------------------------------
\* What the manager does while nothing is charged.
Quiet ==
  \/ \E g \in GrantIds, budget \in Budgets, life \in Lifetimes, terms \in Terms :
       CreateGrant(g, budget, life, terms)
  \/ \E p \in Procs, g \in GrantIds, op \in {"charge", "revoke"} : LoadGrant(p, g, op)
  \/ \E p \in Procs : AssertUsable(p) \/ RevokePersist(p) \/ Abandon(p)
  \/ Tick \/ UNCHANGED vars

LEMMA QuietSteps ==
  ASSUME AuditInv, (\E e \in Execs : Unpaid(e)) \/ Outside \/ UNCHANGED runtimeVars
  PROVE  Quiet
<1>1. ASSUME NEW e \in Execs, Abandon(e) \/ AssertUsable(e) \/ Forget(e) PROVE Quiet
  BY <1>1, ForgetStep, ExecIsCaller DEF Quiet
<1>2. UNCHANGED managerVars => Quiet
  BY DEF Quiet, managerVars, vars
<1>3. ASSUME NEW e \in Execs, NEW k \in Packages, NEW g \in GrantIds, Load(e, k, g)
      PROVE  Quiet
  BY <1>3, ExecIsCaller DEF Load, Quiet
<1>4. ASSUME NEW e \in Execs, Admit(e) PROVE Quiet
  BY <1>1, <1>4 DEF Admit
<1>5. ASSUME NEW e \in Execs, ChargeGrant(e), UNCHANGED paid PROVE Quiet
  <2>1. paid[e] = None /\ Amount(base[e].cost) # None /\ paid \in [Execs -> Amounts \cup {None}]
    BY <1>5, AmountKnown, NoneIsNoDocument DEF ChargeGrant, AuditInv, RuntimeTypeOK, OnTheBooks
  <2> QED BY <1>1, <1>5, <2>1 DEF ChargeGrant
<1>6. ASSUME NEW e \in Execs, Raise(e) \/ Crash(e) PROVE Quiet
  BY <1>1, <1>6 DEF Raise, Crash
<1>7. ASSUME NEW e \in Execs,
             CheckInput(e) \/ AdapterRefuses(e) \/ ProviderFails(e)
      PROVE  Quiet
  <2>1. Abandon(e) \/ UNCHANGED managerVars
    BY <1>7 DEF CheckInput, AdapterRefuses, ProviderFails
  <2> QED BY <1>1, <1>2, <2>1
<1>8. ASSUME NEW e \in Execs,
             \/ LoadFails(e) \/ CallProvider(e) \/ CheckOutput(e)
             \/ PersistReceipt(e) \/ PersistResult(e)
             \/ \E cost \in Amounts \cup {None}, output \in Outputs :
                  ProviderAnswers(e, cost, output)
      PROVE  Quiet
  <2>1. UNCHANGED managerVars
    BY <1>8 DEF LoadFails, CallProvider, CheckOutput, PersistReceipt, PersistResult,
                ProviderAnswers, managerVars
  <2> QED BY <1>2, <2>1
<1>9. Outside => Quiet
  BY AdminIsCaller DEF Outside, Quiet
<1>10. UNCHANGED runtimeVars => Quiet
  BY <1>2 DEF runtimeVars, managerVars
<1> QED
  BY <1>3, <1>4, <1>5, <1>6, <1>7, <1>8, <1>9, <1>10 DEF Unpaid

\* The totals of grant g that are on disk or in a caller's hands.
Totals(g) ==
  {Recorded(g)} \cup {held[p].grant.spent : p \in {q \in Procs : held[q] # Idle /\ held[q].id = g}}

LEMMA CopyTotal ==
  ASSUME TypeOK, NEW p \in Procs, held[p] # Idle
  PROVE  held[p].id \in GrantIds /\ held[p].grant.spent \in Totals(held[p].id)
BY HeldCopy DEF Totals

\* A manager that charges nothing records nothing new: what is on disk or in a
\* caller's hands was there before.
LEMMA QuietKeeps ==
  ASSUME IInv, Quiet, NEW g \in GrantIds
  PROVE  Totals(g)' \subseteq Totals(g)
<1>1. /\ TypeOK /\ grants \in [GrantIds -> GrantDoc \cup {None}] /\ held \in [Procs -> Held]
  BY DEF IInv, TypeOK
<1>2. Recorded(g) \in Totals(g)
  BY DEF Totals
<1>3. ASSUME NEW p \in Procs, \A q \in Procs \ {p} : held'[q] = held[q],
             held'[p] # Idle /\ held'[p].id = g => held'[p].grant.spent \in Totals(g),
             Recorded(g)' \in Totals(g)
      PROVE  Totals(g)' \subseteq Totals(g)
  <2>1. ASSUME NEW q \in Procs, held'[q] # Idle, held'[q].id = g
        PROVE  held'[q].grant.spent \in Totals(g)
    <3>1. CASE q = p
      BY <1>3, <2>1, <3>1
    <3>2. CASE q # p
      BY <1>3, <2>1, <3>2 DEF Totals
    <3> QED BY <3>1, <3>2
  <2> QED BY <1>3, <2>1 DEF Totals
<1>4. ASSUME UNCHANGED held, Recorded(g)' \in Totals(g)
      PROVE  Totals(g)' \subseteq Totals(g)
  BY <1>4 DEF Totals
<1>5. UNCHANGED grants => Recorded(g)' \in Totals(g)
  BY <1>2 DEF Recorded
<1>6. ASSUME NEW h \in GrantIds, NEW budget \in Budgets, NEW life \in Lifetimes,
             NEW terms \in Terms, CreateGrant(h, budget, life, terms)
      PROVE  Totals(g)' \subseteq Totals(g)
  <2>1. /\ grants[h] = None /\ UNCHANGED held
        /\ grants' = [grants EXCEPT ![h] = NewGrant(budget, now + life, terms)]
    BY <1>6 DEF CreateGrant, Persist
  <2>2. NewGrant(budget, now + life, terms).spent = 0
    BY DEF NewGrant
  <2>3. Recorded(g)' = Recorded(g)
    <3> HIDE DEF NewGrant
    <3> QED BY <1>1, <2>1, <2>2 DEF Recorded
  <2> QED BY <1>2, <1>4, <2>1, <2>3
<1>7. ASSUME NEW p \in Procs, NEW h \in GrantIds, NEW op \in {"charge", "revoke"},
             LoadGrant(p, h, op)
      PROVE  Totals(g)' \subseteq Totals(g)
  <2>1. /\ grants[h] # None /\ UNCHANGED grants
        /\ held'[p].id = h /\ held'[p].grant = grants[h]
        /\ \A q \in Procs \ {p} : held'[q] = held[q]
    BY <1>1, <1>7 DEF LoadGrant, Holding
  <2>2. held'[p].id = g => held'[p].grant.spent \in Totals(g)
    BY <1>2, <2>1 DEF Recorded
  <2> QED BY <1>3, <1>5, <2>1, <2>2
<1>8. ASSUME NEW p \in Procs, AssertUsable(p) PROVE Totals(g)' \subseteq Totals(g)
  <2>1. held[p] # Idle /\ UNCHANGED grants
    BY <1>8, IdleOp DEF AssertUsable
  <2>2. held[p] \in [op: {"charge", "admitted", "revoke"}, id: GrantIds, grant: GrantDoc]
    BY <1>1, <2>1 DEF Held
  <2>3. /\ held'[p] = Idle \/ held'[p] = [held[p] EXCEPT !.op = "admitted"]
        /\ \A q \in Procs \ {p} : held'[q] = held[q]
    BY <1>1, <1>8 DEF AssertUsable
  <2>4. held'[p] # Idle => held'[p].id = held[p].id /\ held'[p].grant = held[p].grant
    BY <2>2, <2>3
  <2> QED BY <1>1, <1>3, <1>5, <2>1, <2>3, <2>4, CopyTotal
<1>9. ASSUME NEW p \in Procs, RevokePersist(p) PROVE Totals(g)' \subseteq Totals(g)
  <2>1. held[p] # Idle
    BY <1>9, IdleOp DEF RevokePersist
  <2>2. /\ held[p].id \in GrantIds /\ Revoked(held[p].grant).spent = held[p].grant.spent
        /\ Revoked(held[p].grant) \in GrantDoc
    BY <1>1, <2>1, HeldCopy, RevokedDoc
  <2>3. /\ grants' = [grants EXCEPT ![held[p].id] = Revoked(held[p].grant)]
        /\ held' = [held EXCEPT ![p] = Idle]
    BY <1>9 DEF RevokePersist, Persist
  <2>4. Revoked(held[p].grant) # None
    BY <2>2, GrantConstants
  <2>5. Recorded(g)' = IF g = held[p].id THEN held[p].grant.spent ELSE Recorded(g)
    <3>1. grants'[g] = IF g = held[p].id THEN Revoked(held[p].grant) ELSE grants[g]
      BY <1>1, <2>3
    <3> QED BY <2>2, <2>4, <3>1 DEF Recorded
  <2>6. Recorded(g)' \in Totals(g)
    BY <1>1, <1>2, <2>1, <2>5, CopyTotal
  <2>7. held'[p] = Idle /\ \A q \in Procs \ {p} : held'[q] = held[q]
    BY <1>1, <2>3
  <2> QED BY <1>3, <2>6, <2>7
<1>10. ASSUME NEW p \in Procs, Abandon(p) PROVE Totals(g)' \subseteq Totals(g)
  <2>1. UNCHANGED grants /\ held'[p] = Idle /\ \A q \in Procs \ {p} : held'[q] = held[q]
    BY <1>1, <1>10 DEF Abandon
  <2> QED BY <1>3, <1>5, <2>1
<1>11. ASSUME Tick \/ UNCHANGED vars PROVE Totals(g)' \subseteq Totals(g)
  BY <1>4, <1>5, <1>11 DEF Tick, vars
<1> QED
  BY <1>6, <1>7, <1>8, <1>9, <1>10, <1>11 DEF Quiet

\* A charge records its amount on top of what the copy said, and the copy said
\* no more than what was charged before.
LEMMA PaysKeeps ==
  ASSUME AuditInv, IInv, BooksInv, NEW e \in Execs, Pays(e)
  PROVE  NothingMadeUp' /\ CopiesCharged' /\ Accounted(e)'
<1> DEFINE amount == Amount(base[e].cost)
           id == base[e].id
<1>1. /\ RuntimeTypeOK /\ OnTheBooks(e) /\ amount \in Amounts /\ amount \in Nat
      /\ TypeOK /\ grants \in [GrantIds -> GrantDoc \cup {None}] /\ held \in [Procs -> Held]
      /\ pc \in [Execs -> Stages] /\ Accounted(e)
  BY AmountKnown, GrantConstants DEF AuditInv, RuntimeTypeOK, TypeOK, BooksInv
<1>2. /\ held[e].op = "admitted" /\ CanPay(held[e].grant, amount)
      /\ grants' = [grants EXCEPT ![held[e].id] = Charged(held[e].grant, amount)]
      /\ held' = [held EXCEPT ![e] = Idle]
      /\ paid' = [paid EXCEPT ![e] = amount]
      /\ pc[e] = "answered" /\ pc' = [pc EXCEPT ![e] = "charged"]
      /\ base' = base /\ called' = called /\ receipts' = receipts
  BY DEF Pays, Charge, Persist
<1>3. held[e] # Idle
  BY <1>2, IdleOp
<1>4. held[e].id = id /\ id \in GrantIds /\ held[e].grant \in GrantDoc
  BY <1>1, <1>3, ExecIsCaller, HeldCopy DEF Accounted
<1>5. paid[e] = None /\ e \in called /\ receipts[e] = None
  BY <1>1, <1>2 DEF OnTheBooks, Ended
<1>6. \A g \in GrantIds : Paid(g)' = IF id = g THEN Paid(g) + amount ELSE Paid(g)
  <2> HIDE DEF amount
  <2> QED BY <1>1, <1>2, <1>5, PaidAdds
<1>7. \A g \in GrantIds : Paid(g) \in Nat /\ Recorded(g) <= Paid(g)
  BY <1>1, PaidNat DEF BooksInv, NothingMadeUp
<1>8. held[e].grant.spent <= Paid(id) /\ held[e].grant.spent \in Nat
  BY <1>3, <1>4, ExecIsCaller DEF BooksInv, CopiesCharged, GrantDoc
<1>9. /\ Charged(held[e].grant, amount).spent = held[e].grant.spent + amount
      /\ Charged(held[e].grant, amount) # None
  BY <1>1, <1>2, <1>4, ChargedDoc, GrantConstants
<1>10. ASSUME NEW g \in GrantIds PROVE Recorded(g)' <= Paid(g)'
  <2>1. grants'[g] = IF g = id THEN Charged(held[e].grant, amount) ELSE grants[g]
    BY <1>1, <1>2, <1>4
  <2>2. CASE g = id
    <3>1. Recorded(g)' = held[e].grant.spent + amount
      BY <1>9, <2>1, <2>2 DEF Recorded
    <3>2. Paid(g)' = Paid(g) + amount
      BY <1>6, <2>2
    <3> HIDE DEF amount
    <3> QED BY <1>1, <1>7, <1>8, <2>2, <3>1, <3>2
  <2>3. CASE g # id
    <3>1. Recorded(g)' = Recorded(g)
      BY <2>1, <2>3 DEF Recorded
    <3> QED BY <1>6, <1>7, <2>3, <3>1
  <2> QED BY <2>2, <2>3
<1>11. ASSUME NEW p \in Procs, NEW g \in GrantIds, held'[p] # Idle, held'[p].id = g
       PROVE  held'[p].grant.spent <= Paid(g)'
  <2>1. held'[p] = held[p] /\ held[p] # Idle
    BY <1>1, <1>2, <1>11, ExecIsCaller
  <2>2. held[p].grant.spent <= Paid(g) /\ held[p].grant.spent \in Nat
    BY <1>1, <1>11, <2>1, HeldCopy DEF BooksInv, CopiesCharged, GrantDoc
  <2>3. Paid(g) \in Nat /\ Paid(g)' \in {Paid(g), Paid(g) + amount}
    BY <1>6, <1>7
  <2> HIDE DEF amount
  <2> QED BY <1>1, <2>1, <2>2, <2>3
<1>12. Accounted(e)'
  <2>1. held'[e] = Idle /\ pc'[e] = "charged"
    BY <1>1, <1>2, ExecIsCaller
  <2> QED BY <1>2, <1>5, <2>1 DEF Accounted
<1> QED BY <1>10, <1>11, <1>12 DEF NothingMadeUp, CopiesCharged

\* A step that charges nothing leaves every execution accounted for, and what was
\* charged as it was.
LEMMA QuietSettled ==
  ASSUME AuditInv, BooksInv, (\E e \in Execs : Unpaid(e)) \/ Outside \/ UNCHANGED runtimeVars
  PROVE  \A f \in Execs : Settled(f)
<1>1. ASSUME NEW e \in Execs, Unpaid(e) PROVE \A f \in Execs : Settled(f)
  <2>1. Booked(e)
    BY <1>1, LoadBooked, AdmitBooked, CallBooked, ChargeBooked, OutputBooked, PersistBooked,
       CutBooked DEF Unpaid
  <2>2. \A f \in Execs \ {e} : Settled(f)
    BY <2>1, RestsSettled DEF Booked, BooksInv
  <2>3. Settled(e)
    BY <1>1, StepSettled DEF BooksInv
  <2> QED BY <2>2, <2>3
<1>2. ASSUME Outside \/ UNCHANGED runtimeVars PROVE \A f \in Execs : Settled(f)
  <2>1. UNCHANGED <<pc, base, called, paid, receipts, results>>
    BY <1>2 DEF Outside, runtimeVars, auditFiles
  <2>2. ASSUME NEW f \in Execs PROVE held'[f] = held[f]
    BY <1>2, RuntimeConstants
    DEF AuditInv, RuntimeTypeOK, TypeOK, Outside, runtimeVars, CreateGrant, LoadGrant,
        RevokePersist, Abandon, Tick
  <2>3. \A f \in Execs : Rests(f)
    BY <2>1, <2>2 DEF Rests
  <2> QED BY <2>3, RestsSettled DEF BooksInv
<1> QED BY <1>1, <1>2

LEMMA QuietAccounted ==
  ASSUME AuditInv, BooksInv, (\E e \in Execs : Unpaid(e)) \/ Outside \/ UNCHANGED runtimeVars
  PROVE  /\ \A f \in Execs : Accounted(f)'
         /\ \A g \in GrantIds : Paid(g)' = Paid(g)
BY QuietSettled, PaidKept DEF Settled

LEMMA BooksStep ==
  ASSUME AuditInv, IInv, BooksInv, [RuntimeNext]_runtimeVars
  PROVE  BooksInv'
<1>1. CASE (\E e \in Execs : Unpaid(e)) \/ Outside \/ UNCHANGED runtimeVars
  <2>1. /\ \A f \in Execs : Accounted(f)'
        /\ \A g \in GrantIds : Paid(g)' = Paid(g) /\ Totals(g)' \subseteq Totals(g)
    BY <1>1, QuietAccounted, QuietSteps, QuietKeeps
  <2>2. \A g \in GrantIds : \A total \in Totals(g) : total <= Paid(g)
    BY DEF Totals, BooksInv, NothingMadeUp, CopiesCharged
  <2>3. \A g \in GrantIds : \A total \in Totals(g)' : total <= Paid(g)'
    BY <2>1, <2>2
  <2>4. NothingMadeUp' /\ CopiesCharged'
    BY <2>3 DEF Totals, NothingMadeUp, CopiesCharged
  <2> QED BY <2>1, <2>4 DEF BooksInv
<1>2. ASSUME NEW e \in Execs, Pays(e) PROVE BooksInv'
  <2>1. ChargeGrant(e)
    BY <1>2 DEF Pays, ChargeGrant, Goto, auditFiles
  <2>2. \A f \in Execs \ {e} : Settled(f)
    BY <2>1, ChargeBooked, RestsSettled DEF Booked, BooksInv
  <2> QED BY <1>2, <2>2, PaysKeeps DEF Settled, BooksInv
<1> QED BY <1>1, <1>2, UnpaidOrPays

LEMMA BooksInit == RuntimeInit => BooksInv
<1> SUFFICES ASSUME RuntimeInit PROVE BooksInv
  OBVIOUS
<1>1. RuntimeTypeOK
  BY RuntimeTypeInit
<1>2. /\ \A p \in Procs : held[p] = Idle
      /\ \A g \in GrantIds : grants[g] = None
      /\ \A e \in Execs : paid[e] = None /\ receipts[e] = None /\ pc[e] = "idle"
  BY DEF RuntimeInit, Init
<1>3. \A g \in GrantIds : Recorded(g) = 0 /\ Paid(g) \in Nat
  BY <1>1, <1>2, PaidNat DEF Recorded
<1> QED
  BY <1>2, <1>3, ExecIsCaller DEF BooksInv, Accounted, NothingMadeUp, CopiesCharged

LEMMA ManagerInv == RuntimeSpec => []IInv
BY RuntimeUsesManager, InvHolds, PTL

LEMMA BooksHold == RuntimeSpec => []BooksInv
<1>1. AuditInv /\ IInv /\ BooksInv /\ [RuntimeNext]_runtimeVars => BooksInv'
  BY BooksStep
<1> QED BY <1>1, BooksInit, AuditHolds, ManagerInv, PTL DEF RuntimeSpec

\* charge, grants/manager.py:98-106: whatever overlaps, fails or dies, no grant
\* file records more spending than the executions charged to it.
THEOREM NothingIsMadeUp == RuntimeSpec => []NothingMadeUp
BY BooksHold, PTL DEF BooksInv
-----------------------------------------------------------------------------
\* What execution e contributes to what was charged to g without sharing it.
AloneTo(g) ==
  [e \in Execs |->
    IF paid[e] # None /\ base[e].id = g /\ e \notin shared THEN paid[e] ELSE 0]

\* Two callers with the same grant in hand: an execution among them has shared it.
SharedNoted ==
  \A e \in Execs, q \in Procs :
    e # q /\ held[e] # Idle /\ held[q] # Idle /\ held[e].id = held[q].id => e \in shared

\* No total on disk or in a caller's hands, however old, lacks a charge made alone.
AloneInv ==
  /\ SharedNoted
  /\ \A g \in GrantIds : \A total \in Totals(g) : PaidAlone(g) <= total

LEMMA AloneIs == ASSUME NEW g PROVE PaidAlone(g) = SumFunctionOnSet(AloneTo(g), Execs)
BY DEF PaidAlone, AloneTo, SumFunction

LEMMA AloneTerm ==
  ASSUME RuntimeTypeOK, NEW g
  PROVE  \A e \in Execs : AloneTo(g)[e] \in Nat
BY GrantConstants DEF AloneTo, RuntimeTypeOK

LEMMA AloneNat == ASSUME RuntimeTypeOK, NEW g PROVE PaidAlone(g) \in Nat
BY AloneIs, AloneTerm, SumNat, RuntimeConstants

\* A caller goes on with the copy it has, or lets it go.
LetsGo(p) ==
  \/ Abandon(p) \/ AssertUsable(p) \/ RevokePersist(p) \/ UNCHANGED held
  \/ \E amount \in Amounts : Charge(p, amount)

LEMMA LetsGoKeeps ==
  ASSUME TypeOK, NEW p \in Procs, LetsGo(p), NEW q \in Procs
  PROVE  SameCopy(q)
<1>1. held \in [Procs -> Held]
  BY DEF TypeOK
<1>2. CASE AssertUsable(p)
  <2>1. held[p] # Idle
    BY <1>2, IdleOp DEF AssertUsable
  <2>2. held[p] \in [op: {"charge", "admitted", "revoke"}, id: GrantIds, grant: GrantDoc]
    BY <1>1, <2>1 DEF Held
  <2>3. /\ held'[p] = Idle \/ held'[p] = [held[p] EXCEPT !.op = "admitted"]
        /\ q # p => held'[q] = held[q]
    BY <1>1, <1>2 DEF AssertUsable
  <2> QED BY <2>1, <2>2, <2>3 DEF SameCopy
<1>3. CASE UNCHANGED held \/ held' = [held EXCEPT ![p] = Idle]
  BY <1>1, <1>3 DEF SameCopy
<1> QED BY <1>2, <1>3 DEF LetsGo, Abandon, RevokePersist, Charge

\* Either a caller takes a grant in hand, and that is noted, or nobody does.
LEMMA HandsMove ==
  ASSUME AuditInv, [RuntimeNext]_runtimeVars
  PROVE  \/ \E p \in Procs, g \in GrantIds, op \in {"charge", "revoke"} :
              LoadGrant(p, g, op) /\ Take(p, g) /\ (p \in Execs => pc[p] = "idle")
         \/ shared' = shared /\ \A p \in Procs : SameCopy(p)
<1> DEFINE Takes == \E p \in Procs, g \in GrantIds, op \in {"charge", "revoke"} :
                      LoadGrant(p, g, op) /\ Take(p, g) /\ (p \in Execs => pc[p] = "idle")
           Keeps == shared' = shared /\ \A p \in Procs : SameCopy(p)
<1>1. RuntimeTypeOK /\ TypeOK
  BY DEF AuditInv, RuntimeTypeOK
<1>2. ASSUME NEW p \in Procs, LetsGo(p), shared' = shared PROVE Keeps
  BY <1>1, <1>2, LetsGoKeeps
<1>3. ASSUME UNCHANGED held, shared' = shared PROVE Keeps
  BY <1>3 DEF SameCopy
<1>4. ASSUME NEW e \in Execs, NEW k \in Packages, NEW g \in GrantIds, Load(e, k, g)
      PROVE  Takes
  BY <1>4, ExecIsCaller DEF Load
<1>5. ASSUME NEW e \in Execs, Step(e) PROVE LetsGo(e) /\ shared' = shared
  <2>1. CASE Admit(e)
    BY <2>1 DEF Admit, LetsGo
  <2>2. CASE ChargeGrant(e)
    BY <1>1, <2>2, AmountKnown DEF ChargeGrant, LetsGo
  <2>3. CASE CheckInput(e) \/ AdapterRefuses(e) \/ ProviderFails(e)
    BY <2>3 DEF CheckInput, AdapterRefuses, ProviderFails, Calling, LetsGo, managerVars
  <2>4. CASE \/ CallProvider(e) \/ CheckOutput(e) \/ PersistReceipt(e) \/ PersistResult(e)
             \/ \E cost \in Amounts \cup {None}, output \in Outputs :
                  ProviderAnswers(e, cost, output)
    BY <2>4
    DEF CallProvider, CheckOutput, PersistReceipt, PersistResult, ProviderAnswers, Calling,
        LetsGo, managerVars
  <2> QED BY <1>5, <2>1, <2>2, <2>3, <2>4 DEF Step
<1>6. ASSUME NEW e \in Execs, LoadFails(e) \/ Raise(e) \/ Crash(e)
      PROVE  LetsGo(e) /\ shared' = shared
  BY <1>6, ForgetStep DEF LoadFails, Raise, Crash, LetsGo, managerVars, vars
<1>7. ASSUME Outside PROVE Takes \/ Keeps
  <2>1. ASSUME NEW g \in GrantIds, NEW budget \in Budgets, NEW life \in Lifetimes,
               NEW terms \in Terms, CreateGrant(g, budget, life, terms), shared' = shared
        PROVE  Keeps
    BY <1>3, <2>1 DEF CreateGrant
  <2>2. ASSUME Tick, shared' = shared PROVE Keeps
    BY <1>3, <2>2 DEF Tick
  <2>3. ASSUME NEW a \in Admins, RevokePersist(a) \/ Abandon(a), shared' = shared PROVE Keeps
    <3>1. LetsGo(a) /\ a \in Procs
      BY <2>3, AdminIsCaller DEF LetsGo
    <3> QED BY <1>2, <2>3, <3>1
  <2>4. ASSUME NEW a \in Admins, NEW g \in GrantIds, LoadGrant(a, g, "revoke"), Take(a, g)
        PROVE  Takes
    BY <2>4, AdminIsCaller, RuntimeConstants
  <2> HIDE DEF Takes, Keeps
  <2> QED BY <1>7, <2>1, <2>2, <2>3, <2>4 DEF Outside
<1>8. UNCHANGED runtimeVars => Keeps
  BY <1>3 DEF runtimeVars
<1> HIDE DEF Takes, Keeps
<1>9. Takes \/ Keeps
  BY <1>2, <1>4, <1>5, <1>6, <1>7, <1>8, ExecIsCaller DEF RuntimeNext
<1> QED BY <1>9 DEF Takes, Keeps

\* Who has a grant in hand beside others is noted, and whoever was charged before
\* stays as it was noted.
LEMMA SharedStep ==
  ASSUME AuditInv, BooksInv, SharedNoted, [RuntimeNext]_runtimeVars
  PROVE  /\ SharedNoted'
         /\ \A e \in Execs : paid[e] # None => (e \in shared' <=> e \in shared)
<1>1. TypeOK /\ held \in [Procs -> Held] /\ shared \subseteq Execs
  BY DEF AuditInv, RuntimeTypeOK, TypeOK
<1>2. ASSUME NEW p \in Procs, NEW g \in GrantIds, NEW op \in {"charge", "revoke"},
             LoadGrant(p, g, op), Take(p, g), p \in Execs => pc[p] = "idle"
      PROVE  /\ SharedNoted'
             /\ \A e \in Execs : paid[e] # None => (e \in shared' <=> e \in shared)
  <2> DEFINE others == {q \in Procs : held[q].id = g}
  <2>1. shared' = shared \cup (IF others = {} THEN {} ELSE (others \cup {p}) \cap Execs)
    BY <1>2 DEF Take
  <2>2. /\ held[p] = Idle /\ held'[p].id = g
        /\ \A q \in Procs \ {p} : held'[q] = held[q]
    BY <1>1, <1>2 DEF LoadGrant, MayStart, Holding
  <2>3. \A q \in others : held[q] # Idle /\ q # p
    BY <2>2, GrantConstants DEF Idle
  <2>4. ASSUME NEW e \in Execs, paid[e] # None PROVE e \notin others /\ e # p
    <3>1. held[e] = Idle /\ e \in Procs
      BY <2>4, ExecIsCaller DEF BooksInv, Accounted
    <3>2. pc[e] # "idle"
      BY <2>4 DEF AuditInv, OnTheBooks
    <3> QED BY <1>2, <2>3, <3>1, <3>2
  <2>5. ASSUME NEW e \in Execs, NEW q \in Procs, e # q, held'[e] # Idle, held'[q] # Idle,
               held'[e].id = held'[q].id
        PROVE  e \in shared'
    <3>1. e \in Procs
      BY ExecIsCaller
    <3>2. CASE e # p /\ q # p
      BY <2>1, <2>2, <2>5, <3>1, <3>2 DEF SharedNoted
    <3>3. CASE e = p \/ q = p
      <4>1. \E x \in others : x = (IF e = p THEN q ELSE e)
        BY <2>2, <2>5, <3>1, <3>3
      <4> QED BY <2>1, <2>5, <3>1, <3>3, <4>1
    <3> QED BY <3>2, <3>3
  <2> HIDE DEF others
  <2> QED BY <2>1, <2>4, <2>5 DEF SharedNoted
<1>3. ASSUME shared' = shared, \A p \in Procs : SameCopy(p)
      PROVE  SharedNoted'
  BY <1>3, ExecIsCaller DEF SharedNoted, SameCopy
<1> QED BY <1>2, <1>3, HandsMove

\* What was charged alone stays as it is while nobody is charged.
LEMMA AloneKept ==
  ASSUME AuditInv, BooksInv, SharedNoted, [RuntimeNext]_runtimeVars, \A e \in Execs : Settled(e),
         NEW g
  PROVE  PaidAlone(g)' = PaidAlone(g)
<1>1. \A e \in Execs : /\ paid'[e] = paid[e]
                       /\ paid[e] # None => base'[e].id = base[e].id /\ (e \in shared' <=> e \in shared)
  BY SharedStep DEF Settled
<1>2. ASSUME NEW e \in Execs PROVE AloneTo(g)'[e] = AloneTo(g)[e]
  <2>1. CASE paid[e] = None
    BY <1>1, <2>1 DEF AloneTo
  <2>2. CASE paid[e] # None
    <3>1. base'[e].id = base[e].id /\ (e \in shared' <=> e \in shared) /\ paid'[e] = paid[e]
      BY <1>1, <2>2
    <3>2. CASE e \in shared
      BY <3>1, <3>2 DEF AloneTo
    <3>3. CASE e \notin shared
      BY <3>1, <3>3 DEF AloneTo
    <3> QED BY <3>2, <3>3
  <2> QED BY <2>1, <2>2
<1>3. AloneTo(g)' = AloneTo(g)
  BY <1>2 DEF AloneTo
<1> QED BY <1>3 DEF PaidAlone, AloneTo

\* A charge of an execution that shares its grant adds nothing to what was charged
\* alone; otherwise nobody has another copy, and its own has all charges so far.
LEMMA PaysAlone ==
  ASSUME AuditInv, IInv, BooksInv, AloneInv, NEW e \in Execs, Pays(e), NEW g \in GrantIds
  PROVE  \A total \in Totals(g)' : PaidAlone(g)' <= total
<1> DEFINE amount == Amount(base[e].cost)
           id == base[e].id
<1>1. /\ RuntimeTypeOK /\ OnTheBooks(e) /\ Accounted(e)
      /\ TypeOK /\ grants \in [GrantIds -> GrantDoc \cup {None}] /\ held \in [Procs -> Held]
      /\ IsFiniteSet(Execs) /\ paid \in [Execs -> Amounts \cup {None}]
  BY RuntimeConstants DEF AuditInv, RuntimeTypeOK, TypeOK, BooksInv
<1>2. amount \in Nat /\ amount \in Amounts /\ amount # None
  BY <1>1, AmountKnown, GrantConstants, NoneIsNoDocument
<1>3. /\ held[e].op = "admitted" /\ CanPay(held[e].grant, amount)
      /\ grants' = [grants EXCEPT ![held[e].id] = Charged(held[e].grant, amount)]
      /\ held' = [held EXCEPT ![e] = Idle]
      /\ paid' = [paid EXCEPT ![e] = amount]
      /\ pc[e] = "answered" /\ base' = base /\ shared' = shared
  BY DEF Pays, Charge, Persist
<1>4. held[e] # Idle /\ e \in Procs
  BY <1>3, IdleOp, ExecIsCaller
<1>5. held[e].id = id /\ id \in GrantIds /\ held[e].grant \in GrantDoc /\ paid[e] = None
  BY <1>1, <1>4, HeldCopy DEF Accounted
<1>6. /\ Charged(held[e].grant, amount).spent = held[e].grant.spent + amount
      /\ Charged(held[e].grant, amount) # None /\ held[e].grant.spent \in Nat
  BY <1>2, <1>3, <1>5, ChargedDoc, GrantConstants DEF GrantDoc
<1> HIDE DEF amount
<1>7. /\ paid'[e] = amount
      /\ \A f \in Execs \ {e} : paid'[f] = paid[f]
  BY <1>1, <1>3
<1>8. PaidAlone(g)' = IF id = g /\ e \notin shared THEN PaidAlone(g) + amount ELSE PaidAlone(g)
  <2>1. PaidAlone(g)' = SumFunctionOnSet(AloneTo(g)', Execs)
    BY DEF PaidAlone, AloneTo, SumFunction
  <2>2. CASE id = g /\ e \notin shared
    <3>1. \A f \in Execs : AloneTo(g)'[f] = IF f = e THEN AloneTo(g)[f] + amount ELSE AloneTo(g)[f]
      BY <1>2, <1>3, <1>5, <1>7, <2>2 DEF AloneTo
    <3>2. SumFunctionOnSet(AloneTo(g)', Execs) = SumFunctionOnSet(AloneTo(g), Execs) + amount
      BY <1>1, <1>2, <3>1, AloneTerm, SumAdds
    <3> QED BY <2>1, <2>2, <3>2, AloneIs
  <2>3. CASE ~(id = g /\ e \notin shared)
    <3>1. AloneTo(g)' = AloneTo(g)
      BY <1>3, <1>5, <1>7, <2>3 DEF AloneTo
    <3> QED BY <2>1, <2>3, <3>1, AloneIs
  <2> QED BY <2>2, <2>3
<1>9. /\ PaidAlone(g) \in Nat
      /\ \A total \in Totals(g) : PaidAlone(g) <= total
  BY <1>1, AloneNat DEF AloneInv
<1>10. g = id => PaidAlone(g) <= held[e].grant.spent
  BY <1>1, <1>4, <1>5, <1>9, CopyTotal
<1>11. Recorded(g)' = IF g = id THEN held[e].grant.spent + amount ELSE Recorded(g)
  <2>1. grants'[g] = IF g = id THEN Charged(held[e].grant, amount) ELSE grants[g]
    BY <1>1, <1>3, <1>5
  <2> QED BY <1>6, <2>1 DEF Recorded
<1>12. PaidAlone(g)' <= Recorded(g)'
  <2>1. CASE g = id
    BY <1>2, <1>6, <1>8, <1>9, <1>10, <1>11, <2>1
  <2>2. CASE g # id
    <3>1. Recorded(g) \in Totals(g)
      BY DEF Totals
    <3> QED BY <1>8, <1>9, <1>11, <2>2, <3>1
  <2> QED BY <2>1, <2>2
<1>13. ASSUME NEW p \in Procs, held'[p] # Idle, held'[p].id = g
       PROVE  PaidAlone(g)' <= held'[p].grant.spent
  <2>1. p # e /\ held'[p] = held[p] /\ held[p] # Idle
    BY <1>1, <1>3, <1>4, <1>13
  <2>2. g = id => e \in shared
    BY <1>4, <1>5, <1>13, <2>1 DEF AloneInv, SharedNoted
  <2>3. PaidAlone(g)' = PaidAlone(g)
    BY <1>8, <2>2
  <2>4. held[p].grant.spent \in Totals(g)
    BY <1>13, <2>1 DEF Totals
  <2> QED BY <1>9, <2>1, <2>3, <2>4
<1> QED BY <1>12, <1>13 DEF Totals

LEMMA AloneStep ==
  ASSUME AuditInv, IInv, BooksInv, AloneInv, [RuntimeNext]_runtimeVars
  PROVE  AloneInv'
<1>1. SharedNoted'
  BY SharedStep DEF AloneInv
<1>2. CASE (\E e \in Execs : Unpaid(e)) \/ Outside \/ UNCHANGED runtimeVars
  <2>1. \A g \in GrantIds : Totals(g)' \subseteq Totals(g)
    BY <1>2, QuietSteps, QuietKeeps
  <2>2. \A g \in GrantIds : PaidAlone(g)' = PaidAlone(g)
    BY <1>2, QuietSettled, AloneKept DEF AloneInv
  <2> QED BY <1>1, <2>1, <2>2 DEF AloneInv
<1>3. ASSUME NEW e \in Execs, Pays(e) PROVE AloneInv'
  BY <1>1, <1>3, PaysAlone DEF AloneInv
<1> QED BY <1>2, <1>3, UnpaidOrPays

LEMMA AloneInit == RuntimeInit => AloneInv
<1> SUFFICES ASSUME RuntimeInit PROVE AloneInv
  OBVIOUS
<1>1. /\ \A p \in Procs : held[p] = Idle
      /\ \A g \in GrantIds : grants[g] = None
      /\ \A e \in Execs : paid[e] = None
  BY DEF RuntimeInit, Init
<1>2. ASSUME NEW g \in GrantIds PROVE PaidAlone(g) = 0 /\ Totals(g) = {0}
  <2>1. \A e \in Execs : AloneTo(g)[e] = 0
    BY <1>1 DEF AloneTo
  <2>2. PaidAlone(g) = 0
    BY <2>1, AloneIs, SumZero, RuntimeConstants
  <2> QED BY <1>1, <2>2 DEF Totals, Recorded
<1> QED BY <1>1, <1>2, ExecIsCaller DEF AloneInv, SharedNoted

\* execute and charge, broker/runtime.py:108-206 and grants/manager.py:98-106:
\* only an execution that shared its grant with another caller while it had it in
\* hand can lose its charge; all others stay in the grant's total, whatever races
\* for the grant before and after, and however old the copies are that are charged
\* or revoked from.
THEOREM ChargesAloneLast == RuntimeSpec => []NothingLostAlone
<1>1. AuditInv /\ IInv /\ BooksInv /\ AloneInv /\ [RuntimeNext]_runtimeVars => AloneInv'
  BY AloneStep
<1>2. AloneInv => NothingLostAlone
  BY DEF AloneInv, Totals, NothingLostAlone
<1> QED BY <1>1, <1>2, AloneInit, AuditHolds, ManagerInv, BooksHold, PTL DEF RuntimeSpec
-----------------------------------------------------------------------------
\* One caller at a time, nothing is lost either.
NothingLost == \A g \in GrantIds : Recorded(g) = Paid(g)

LEMMA QuietExact ==
  ASSUME IInv, OneCaller, Quiet
  PROVE  \A g \in GrantIds : Recorded(g)' = Recorded(g)
<1>1. /\ TypeOK /\ grants \in [GrantIds -> GrantDoc \cup {None}] /\ held \in [Procs -> Held]
  BY DEF IInv, TypeOK
<1>2. ASSUME NEW g \in GrantIds, NEW budget \in Budgets, NEW life \in Lifetimes,
             NEW terms \in Terms, CreateGrant(g, budget, life, terms)
      PROVE  \A h \in GrantIds : Recorded(h)' = Recorded(h)
  <2>1. /\ grants[g] = None
        /\ grants' = [grants EXCEPT ![g] = NewGrant(budget, now + life, terms)]
    BY <1>2 DEF CreateGrant, Persist
  <2>2. NewGrant(budget, now + life, terms).spent = 0
    BY DEF NewGrant
  <2> HIDE DEF NewGrant
  <2> QED BY <1>1, <2>1, <2>2 DEF Recorded
<1>3. ASSUME NEW p \in Procs, RevokePersist(p)
      PROVE  \A h \in GrantIds : Recorded(h)' = Recorded(h)
  <2>1. held[p] # Idle
    BY <1>3, IdleOp DEF RevokePersist
  <2>2. /\ held[p].id \in GrantIds /\ held[p].grant = grants[held[p].id]
        /\ held[p].grant \in GrantDoc
        /\ Revoked(held[p].grant).spent = held[p].grant.spent
        /\ Revoked(held[p].grant) \in GrantDoc
    BY <1>1, <2>1, HeldCopy, RevokedDoc DEF OneCaller
  <2>3. /\ grants' = [grants EXCEPT ![held[p].id] = Revoked(held[p].grant)]
        /\ Revoked(held[p].grant) # None /\ grants[held[p].id] # None
    BY <1>3, <2>2, GrantConstants DEF RevokePersist, Persist
  <2> QED BY <1>1, <2>2, <2>3 DEF Recorded
<1>4. UNCHANGED grants => \A h \in GrantIds : Recorded(h)' = Recorded(h)
  BY DEF Recorded
<1> QED
  BY <1>2, <1>3, <1>4 DEF Quiet, LoadGrant, AssertUsable, Abandon, Tick, vars

LEMMA PaysExact ==
  ASSUME AuditInv, IInv, BooksInv, OneCaller, NothingLost, NEW e \in Execs, Pays(e)
  PROVE  NothingLost'
<1> DEFINE amount == Amount(base[e].cost)
           id == base[e].id
<1>1. /\ RuntimeTypeOK /\ OnTheBooks(e) /\ Accounted(e) /\ amount \in Amounts /\ amount \in Nat
      /\ TypeOK /\ grants \in [GrantIds -> GrantDoc \cup {None}]
  BY AmountKnown, GrantConstants DEF AuditInv, RuntimeTypeOK, TypeOK, BooksInv
<1>2. /\ held[e].op = "admitted" /\ CanPay(held[e].grant, amount)
      /\ grants' = [grants EXCEPT ![held[e].id] = Charged(held[e].grant, amount)]
      /\ paid' = [paid EXCEPT ![e] = amount]
      /\ pc[e] = "answered" /\ base' = base
  BY DEF Pays, Charge, Persist
<1>3. held[e] # Idle
  BY <1>2, IdleOp
<1>4. /\ held[e].id = id /\ id \in GrantIds /\ held[e].grant \in GrantDoc
      /\ held[e].grant = grants[id] /\ grants[id] # None
  BY <1>1, <1>3, ExecIsCaller, HeldCopy, GrantConstants DEF Accounted, OneCaller
<1>5. paid[e] = None
  BY <1>1, <1>2 DEF OnTheBooks
<1>6. \A g \in GrantIds : Paid(g)' = IF id = g THEN Paid(g) + amount ELSE Paid(g)
  <2> HIDE DEF amount
  <2> QED BY <1>1, <1>2, <1>5, PaidAdds
<1>7. /\ Charged(held[e].grant, amount).spent = held[e].grant.spent + amount
      /\ Charged(held[e].grant, amount) # None
  BY <1>1, <1>2, <1>4, ChargedDoc, GrantConstants
<1>8. ASSUME NEW g \in GrantIds PROVE Recorded(g)' = Paid(g)'
  <2>1. grants'[g] = IF g = id THEN Charged(held[e].grant, amount) ELSE grants[g]
    BY <1>1, <1>2, <1>4
  <2>2. Recorded(g)' = IF g = id THEN Recorded(g) + amount ELSE Recorded(g)
    <3> HIDE DEF amount
    <3> QED BY <1>4, <1>7, <2>1 DEF Recorded
  <2> QED BY <1>6, <2>2 DEF NothingLost
<1> QED BY <1>8 DEF NothingLost

LEMMA ExactStep ==
  ASSUME AuditInv, IInv, BooksInv, OneCaller, NothingLost, [RuntimeNext]_runtimeVars
  PROVE  NothingLost'
<1>1. CASE (\E e \in Execs : Unpaid(e)) \/ Outside \/ UNCHANGED runtimeVars
  <2>1. /\ \A g \in GrantIds : Paid(g)' = Paid(g)
        /\ \A g \in GrantIds : Recorded(g)' = Recorded(g)
    BY <1>1, QuietAccounted, QuietSteps, QuietExact
  <2> QED BY <2>1 DEF NothingLost
<1> QED BY <1>1, PaysExact, UnpaidOrPays

LEMMA SerialBooks ==
  ASSUME Serial
  PROVE  RuntimeSpec => []NothingLost
<1>1. RuntimeInit => OneCaller /\ NothingLost
  <2> SUFFICES ASSUME RuntimeInit PROVE OneCaller /\ NothingLost
    OBVIOUS
  <2>1. RuntimeTypeOK
    BY RuntimeTypeInit
  <2>2. /\ \A p \in Procs : held[p] = Idle
        /\ \A g \in GrantIds : grants[g] = None
        /\ \A e \in Execs : paid[e] = None
    BY DEF RuntimeInit, Init
  <2>3. ASSUME NEW g \in GrantIds PROVE Recorded(g) = 0 /\ Paid(g) = 0
    <3>1. \A e \in Execs : PaidTo(g)[e] = 0
      BY <2>2 DEF PaidTo
    <3> QED BY <2>2, <3>1, PaidIs, SumZero, RuntimeConstants DEF Recorded
  <2> QED BY <2>2, <2>3 DEF OneCaller, NothingLost
<1>2. RuntimeTypeOK /\ IInv /\ OneCaller /\ [RuntimeNext]_runtimeVars => OneCaller'
  BY ManagerStep, OneCallerStep
<1>3. AuditInv /\ IInv /\ BooksInv /\ OneCaller /\ NothingLost /\ [RuntimeNext]_runtimeVars
        => NothingLost'
  BY ExactStep
<1> QED
  BY <1>1, <1>2, <1>3, RuntimeTypeCorrect, AuditHolds, ManagerInv, BooksHold, PTL DEF RuntimeSpec

\* What a receipt accounts for was charged, and to the same grant.
LEMMA AuditedTerm ==
  ASSUME AuditInv, BooksInv, NEW g, NEW e \in Execs
  PROVE  /\ AuditedTo(g)[e] \in Nat /\ PaidTo(g)[e] \in Nat
         /\ AuditedTo(g)[e] <= PaidTo(g)[e]
         /\ pc[e] = "done" \/ base[e].id # g => AuditedTo(g)[e] = PaidTo(g)[e]
<1>1. RuntimeTypeOK /\ Accounted(e) /\ PaidTo(g)[e] \in Nat
  BY PaidTerm DEF AuditInv, BooksInv
<1>2. Amount(base[e].cost) \in Nat /\ Amount(base[e].cost) # None
  BY <1>1, AmountKnown, GrantConstants, NoneIsNoDocument
<1>3. CASE /\ receipts[e] # None /\ base[e].id = g
           /\ receipts[e].status \in {"succeeded", "invalid_output"}
  <2>1. paid[e] = Amount(base[e].cost)
    BY <1>1, <1>3 DEF Accounted, Truthful, Audit!Denials
  <2>2. AuditedTo(g)[e] = Amount(base[e].cost) /\ PaidTo(g)[e] = paid[e]
    BY <1>1, <1>2, <1>3, <2>1 DEF AuditedTo, PaidTo, Accounted
  <2> QED BY <1>2, <2>1, <2>2
<1>4. CASE ~(/\ receipts[e] # None /\ base[e].id = g
             /\ receipts[e].status \in {"succeeded", "invalid_output"})
  <2>1. AuditedTo(g)[e] = 0
    BY <1>4 DEF AuditedTo
  <2>2. ASSUME pc[e] = "done" \/ base[e].id # g PROVE PaidTo(g)[e] = 0
    <3>1. CASE base[e].id # g
      BY <3>1 DEF PaidTo
    <3>2. CASE pc[e] = "done" /\ base[e].id = g
      <4>1. paid[e] = None
        BY <1>1, <1>4, <3>2 DEF Accounted, Truthful
      <4> QED BY <4>1 DEF PaidTo
    <3> QED BY <2>2, <3>1, <3>2
  <2> QED BY <1>1, <2>1, <2>2
<1> QED BY <1>3, <1>4

\* broker/runtime.py:188-212: executions one at a time, cut off anywhere, the
\* receipts never account for more than the grant has recorded.
THEOREM ReceiptsCovered ==
  ASSUME Serial
  PROVE  RuntimeSpec => []ReceiptsWithinSpending
<1>1. AuditInv /\ BooksInv /\ NothingLost => ReceiptsWithinSpending
  <2> SUFFICES ASSUME AuditInv, BooksInv, NothingLost, NEW g \in GrantIds
               PROVE  Audited(g) <= Recorded(g)
    BY DEF ReceiptsWithinSpending
  <2>1. SumFunctionOnSet(AuditedTo(g), Execs) <= SumFunctionOnSet(PaidTo(g), Execs)
    BY AuditedTerm, SumGrows, RuntimeConstants
  <2> QED BY <2>1, AuditedIs, PaidIs DEF NothingLost
<1> QED BY <1>1, AuditHolds, BooksHold, SerialBooks, PTL

\* broker/runtime.py:90-242: executions one at a time, once all that started have
\* come to their end, the receipts account for exactly what the grant recorded.
THEOREM BooksBalance ==
  ASSUME Serial
  PROVE  RuntimeSpec => []Reconciled
<1>1. AuditInv /\ BooksInv /\ NothingLost => Reconciled
  <2> SUFFICES ASSUME AuditInv, BooksInv, NothingLost, NEW g \in GrantIds,
                      \A e \in Execs : base[e] = NoBase \/ pc[e] = "done"
               PROVE  Audited(g) = Recorded(g)
    BY DEF Reconciled
  <2>1. \A e \in Execs : AuditedTo(g)[e] = PaidTo(g)[e]
    BY AuditedTerm, GrantConstants DEF NoBase
  <2>2. AuditedTo(g) = PaidTo(g)
    BY <2>1 DEF AuditedTo, PaidTo
  <2> QED BY <2>2, AuditedIs, PaidIs DEF NothingLost
<1> QED BY <1>1, AuditHolds, BooksHold, SerialBooks, PTL
=============================================================================
