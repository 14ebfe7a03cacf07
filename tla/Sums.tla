-------------------------------- MODULE Sums --------------------------------
(***************************************************************************)
(* Induction over numbers, sequences and finite sets, in a form that needs *)
(* no operator as a parameter (a set takes the place of the predicate),    *)
(* and what it shows: functions defined step by step exist and agree, and  *)
(* SumFunctionOnSet of the community modules, which the pool's totals and  *)
(* the accounts' balances are, adds up.                                    *)
(***************************************************************************)
EXTENDS Integers, Sequences, FiniteSets, Functions, FiniteSetTheorems, WellFoundedInduction, TLAPS

LEMMA LeastNumber ==
    ASSUME NEW T, T \subseteq Nat, T # {}
    PROVE  \E x \in T : \A y \in T : x <= y
  <1> DEFINE R == {ss \in Nat \X Nat : ss[1] < ss[2]}
  <1>1. IsWellFoundedOn(R, Nat)
    BY NatLessThanWellFounded DEF OpToRel
  <1>2. PICK x \in T : \A y \in T : <<y, x>> \notin R
    <2> HIDE DEF R
    <2> QED
      BY <1>1, WFMin
  <1>3. ASSUME NEW y \in T
        PROVE  x <= y
    <2>1. <<y, x>> \in Nat \X Nat /\ <<y, x>>[1] = y /\ <<y, x>>[2] = x
      OBVIOUS
    <2> QED
      BY <1>2, <2>1
  <1> QED
    BY <1>3

\* What holds of 0, and of n + 1 when it holds of n, holds of all numbers.
LEMMA SetInduction ==
    ASSUME NEW T, 0 \in T, \A n \in Nat : n \in T => n + 1 \in T
    PROVE  Nat \subseteq T
  <1>1. SUFFICES ASSUME Nat \ T # {}
                 PROVE  FALSE
    OBVIOUS
  <1>2. PICK x \in Nat \ T : \A y \in Nat \ T : x <= y
    BY <1>1, LeastNumber
  <1> QED
    BY <1>2

\* A family of finite sets that has a set when it has all smaller ones has all.
LEMMA SizeInduction ==
    ASSUME NEW F, NEW S, IsFiniteSet(S),
           \A s \in SUBSET S :
              (\A t \in SUBSET s : t # s => t \in F) => s \in F
    PROVE  S \in F
  <1> DEFINE T == {n \in Nat : \A s \in SUBSET S : Cardinality(s) <= n => s \in F}
  <1>1. \A s \in SUBSET S : IsFiniteSet(s) /\ Cardinality(s) \in Nat
    BY FS_Subset, FS_CardinalityType
  <1>2. 0 \in T
    <2>1. ASSUME NEW s \in SUBSET S, Cardinality(s) <= 0
          PROVE  s \in F
      <3>1. s = {}
        BY <1>1, <2>1, FS_EmptySet
      <3> QED
        BY <3>1
    <2> QED
      BY <2>1
  <1>3. ASSUME NEW n \in Nat, n \in T
        PROVE  n + 1 \in T
    <2>1. ASSUME NEW s \in SUBSET S, Cardinality(s) <= n + 1
          PROVE  s \in F
      <3>1. ASSUME NEW t \in SUBSET s, t # s
            PROVE  Cardinality(t) <= n
        BY <1>1, <2>1, <3>1, FS_Subset
      <3> QED
        BY <1>3, <3>1
    <2> QED
      BY <2>1
  <1>4. Nat \subseteq T
    <2> HIDE DEF T
    <2> QED
      BY <1>2, <1>3, SetInduction
  <1> QED
    BY <1>1, <1>4

\* A set that has the empty sequence, and a longer one when it has the sequence
\* without its last element, has all sequences.
LEMMA SequenceInduction ==
    ASSUME NEW S, NEW T, << >> \in T,
           \A s \in Seq(S) : \A x \in S : s \in T => Append(s, x) \in T
    PROVE  Seq(S) \subseteq T
  <1> DEFINE N == {n \in Nat : \A s \in Seq(S) : Len(s) = n => s \in T}
  <1>1. 0 \in N
    <2>1. ASSUME NEW s \in Seq(S), Len(s) = 0
          PROVE  s = << >>
      BY <2>1
    <2> QED
      BY <2>1
  <1>2. ASSUME NEW n \in Nat, n \in N
        PROVE  n + 1 \in N
    <2> SUFFICES ASSUME NEW s \in Seq(S), Len(s) = n + 1
                 PROVE  s \in T
      OBVIOUS
    <2>1. PICK t : t = [i \in 1..n |-> s[i]]
      OBVIOUS
    <2>2. t \in Seq(S) /\ Len(t) = n
      BY <2>1
    <2>3. s[n + 1] \in S
      OBVIOUS
    <2>4. s = Append(t, s[n + 1])
      BY <2>1, <2>2, <2>3
    <2> QED
      BY <1>2, <2>2, <2>3, <2>4
  <1>3. Nat \subseteq N
    <2> HIDE DEF N
    <2> QED
      BY <1>1, <1>2, SetInduction
  <1> QED
    BY <1>3

-----------------------------------------------------------------------------
(* Runs *)

\* f starts from zero and takes n steps.
RunsFrom(f, zero, step, n) == f[0] = zero /\ \A i \in 1..n : f[i] = step[i][f[i - 1]]

\* There is a run for every number of steps that do not leave D.
LEMMA RunExists ==
    ASSUME NEW D, NEW zero, zero \in D, NEW n, n \in Nat, NEW step,
           \A i \in 1..n : \A d \in D : step[i][d] \in D
    PROVE  \E f : f \in [0..n -> D] /\ RunsFrom(f, zero, step, n)
  <1> USE DEF RunsFrom
  <1> DEFINE Runs(f, k) == f \in [0..k -> D] /\ RunsFrom(f, zero, step, k)
  <1> DEFINE T == {k \in Nat : k <= n => \E f : Runs(f, k)}
  <1>1. 0 \in T
    <2>1. Runs([i \in 0..0 |-> zero], 0)
      OBVIOUS
    <2> QED
      BY <2>1
  <1>2. ASSUME NEW k \in Nat, k \in T
        PROVE  k + 1 \in T
    <2> SUFFICES ASSUME k + 1 <= n
                 PROVE  \E f : Runs(f, k + 1)
      OBVIOUS
    <2>1. PICK f : Runs(f, k)
      BY <1>2
    <2>2. PICK d : d = step[k + 1][f[k]]
      OBVIOUS
    <2>3. d \in D
      <3>1. k + 1 \in 1..n /\ k \in 0..k
        OBVIOUS
      <3>2. f[k] \in D
        BY <2>1, <3>1
      <3> QED
        BY <2>2, <3>1, <3>2
    <2>4. PICK g : g = [i \in 0..(k + 1) |-> IF i <= k THEN f[i] ELSE d]
      OBVIOUS
    <2>5. g \in [0..(k + 1) -> D]
      BY <2>1, <2>3, <2>4
    <2>6. g[0] = zero /\ g[k] = f[k] /\ g[k + 1] = d
      BY <2>1, <2>4
    <2>7. \A i \in 1..k : g[i] = f[i] /\ g[i - 1] = f[i - 1]
      BY <2>4
    <2>8. \A i \in 1..(k + 1) : g[i] = step[i][g[i - 1]]
      <3> SUFFICES ASSUME NEW i \in 1..(k + 1)
                   PROVE  g[i] = step[i][g[i - 1]]
        OBVIOUS
      <3>1. CASE i \in 1..k
        BY <2>1, <2>7, <3>1
      <3>2. CASE i = k + 1
        <4>1. i - 1 = k
          BY <3>2
        <4> QED
          BY <2>2, <2>6, <3>2, <4>1
      <3> QED
        BY <3>1, <3>2
    <2> QED
      BY <2>5, <2>6, <2>8
  <1>3. n \in T
    <2> HIDE DEF T
    <2> QED
      BY <1>1, <1>2, SetInduction
  <1> QED
    BY <1>3

\* Two runs that start alike and step alike end alike.
LEMMA RunsAgree ==
    ASSUME NEW f, NEW g, NEW n \in Nat, f[0] = g[0],
           \A i \in 1..n : f[i - 1] = g[i - 1] => f[i] = g[i]
    PROVE  f[n] = g[n]
  <1> DEFINE T == {k \in Nat : k <= n => f[k] = g[k]}
  <1>1. 0 \in T
    OBVIOUS
  <1>2. ASSUME NEW k \in Nat, k \in T
        PROVE  k + 1 \in T
    <2>1. k + 1 <= n => k + 1 \in 1..n /\ (k + 1) - 1 = k
      OBVIOUS
    <2> QED
      BY <1>2, <2>1
  <1>3. n \in T
    <2> HIDE DEF T
    <2> QED
      BY <1>1, <1>2, SetInduction
  <1> QED
    BY <1>3

\* A run that starts in D and whose steps do not leave it stays there.
LEMMA RunStays ==
    ASSUME NEW D, NEW f, NEW n \in Nat, f[0] \in D,
           \A i \in 1..n : f[i - 1] \in D => f[i] \in D
    PROVE  \A i \in 0..n : f[i] \in D
  <1> DEFINE T == {k \in Nat : k <= n => f[k] \in D}
  <1>1. 0 \in T
    OBVIOUS
  <1>2. ASSUME NEW k \in Nat, k \in T
        PROVE  k + 1 \in T
    <2>1. k + 1 <= n => k + 1 \in 1..n /\ (k + 1) - 1 = k
      OBVIOUS
    <2> QED
      BY <1>2, <2>1
  <1>3. Nat \subseteq T
    <2> HIDE DEF T
    <2> QED
      BY <1>1, <1>2, SetInduction
  <1> QED
    BY <1>3

-----------------------------------------------------------------------------
(* Sums *)

\* The order in which the library takes the elements.
Pick(S) == CHOOSE x \in S : TRUE
Rest(S) == S \ {Pick(S)}

IsSums(sums, f, S) ==
    sums = [s \in SUBSET S |-> IF s = {} THEN 0 ELSE f[Pick(s)] + sums[Rest(s)]]

LEMMA PickIsElement ==
    ASSUME NEW S, S # {}
    PROVE  Pick(S) \in S /\ Rest(S) \in SUBSET S /\ Rest(S) # S
  BY DEF Pick, Rest

LEMMA SumIsChosen ==
    ASSUME NEW f, NEW S
    PROVE  SumFunctionOnSet(f, S) = (CHOOSE sums : IsSums(sums, f, S))[S]
  BY DEF SumFunctionOnSet, FoldFunctionOnSet, MapThenFoldSet, IsSums, Pick, Rest

LEMMA SumsAgree ==
    ASSUME NEW f, NEW S, IsFiniteSet(S), NEW T, S \subseteq T,
           NEW g, IsSums(g, f, S), NEW h, IsSums(h, f, T)
    PROVE  g[S] = h[S]
  <1> DEFINE F == {s \in SUBSET S : g[s] = h[s]}
  <1>1. ASSUME NEW s \in SUBSET S, \A t \in SUBSET s : t # s => t \in F
        PROVE  s \in F
    <2>1. /\ g[s] = IF s = {} THEN 0 ELSE f[Pick(s)] + g[Rest(s)]
          /\ h[s] = IF s = {} THEN 0 ELSE f[Pick(s)] + h[Rest(s)]
      BY DEF IsSums
    <2>2. s # {} => Rest(s) \in F
      BY <1>1, PickIsElement
    <2> QED
      BY <2>1, <2>2
  <1>2. S \in F
    <2> HIDE DEF F
    <2> QED
      BY <1>1, SizeInduction
  <1> QED
    BY <1>2

LEMMA SumsExist ==
    ASSUME NEW f, NEW S, IsFiniteSet(S)
    PROVE  \E sums : IsSums(sums, f, S)
  <1> DEFINE F == {s \in SUBSET S : \E sums : IsSums(sums, f, s)}
  <1> DEFINE Of(s) == CHOOSE sums : IsSums(sums, f, s)
  <1>1. ASSUME NEW s \in SUBSET S, \A t \in SUBSET s : t # s => t \in F
        PROVE  s \in F
    <2>1. \A t \in SUBSET s : t # s => IsSums(Of(t), f, t)
      BY <1>1
    <2>2. \A t \in SUBSET s : IsFiniteSet(t)
      BY FS_Subset
    <2> DEFINE all == [t \in SUBSET s |-> IF t = {} THEN 0 ELSE f[Pick(t)] + Of(Rest(t))[Rest(t)]]
    <2>3. ASSUME NEW t \in SUBSET s, t # s
          PROVE  all[t] = Of(t)[t]
      <3>1. Of(t)[t] = IF t = {} THEN 0 ELSE f[Pick(t)] + Of(t)[Rest(t)]
        <4> HIDE DEF Of
        <4> QED
          BY <2>1, <2>3 DEF IsSums
      <3>2. t # {} => Of(Rest(t))[Rest(t)] = Of(t)[Rest(t)]
        <4>1. SUFFICES ASSUME t # {}
                       PROVE  Of(Rest(t))[Rest(t)] = Of(t)[Rest(t)]
          OBVIOUS
        <4>2. Rest(t) \in SUBSET t /\ Rest(t) \in SUBSET s /\ Rest(t) # s
          BY <4>1, PickIsElement
        <4>3. IsSums(Of(Rest(t)), f, Rest(t)) /\ IsSums(Of(t), f, t)
          BY <2>1, <2>3, <4>2
        <4> HIDE DEF Of
        <4> QED
          BY <2>2, <4>2, <4>3, SumsAgree
      <3> QED
        BY <3>1, <3>2
    <2>4. ASSUME NEW t \in SUBSET s
          PROVE  all[t] = IF t = {} THEN 0 ELSE f[Pick(t)] + all[Rest(t)]
      <3>1. t # {} => all[Rest(t)] = Of(Rest(t))[Rest(t)]
        <4> HIDE DEF all, Of
        <4>1. t # {} => Rest(t) \in SUBSET s /\ Rest(t) # s
          BY PickIsElement
        <4> QED
          BY <2>3, <4>1
      <3> QED
        BY <3>1
    <2>5. IsSums(all, f, s)
      <3>1. all = [t \in SUBSET s |-> all[t]]
        OBVIOUS
      <3> HIDE DEF all
      <3> QED
        BY <2>4, <3>1 DEF IsSums
    <2> QED
      BY <2>5
  <1>2. S \in F
    <2> HIDE DEF F
    <2> QED
      BY <1>1, SizeInduction
  <1> QED
    BY <1>2

Sum(f, S) == SumFunctionOnSet(f, S)

\* The recursive reading of the library's definition.
LEMMA SumStep ==
    ASSUME NEW f, NEW S, IsFiniteSet(S)
    PROVE  Sum(f, S) = IF S = {} THEN 0 ELSE f[Pick(S)] + Sum(f, Rest(S))
  <1> DEFINE Of(s) == CHOOSE sums : IsSums(sums, f, s)
  <1>1. \A s : Sum(f, s) = Of(s)[s]
    BY SumIsChosen DEF Sum
  <1>2. \A s \in SUBSET S : IsSums(Of(s), f, s)
    BY SumsExist, FS_Subset
  <1> HIDE DEF Of
  <1>3. Of(S)[S] = IF S = {} THEN 0 ELSE f[Pick(S)] + Of(S)[Rest(S)]
    BY <1>2 DEF IsSums
  <1>4. S # {} => Of(Rest(S))[Rest(S)] = Of(S)[Rest(S)]
    <2>1. S # {} => Rest(S) \in SUBSET S /\ IsFiniteSet(Rest(S))
      BY PickIsElement, FS_Subset
    <2> QED
      BY <1>2, <2>1, SumsAgree
  <1> QED
    BY <1>1, <1>3, <1>4

LEMMA SumEmpty == ASSUME NEW f PROVE Sum(f, {}) = 0
  BY SumStep, FS_EmptySet

LEMMA SumType ==
    ASSUME NEW f, NEW S, IsFiniteSet(S), \A x \in S : f[x] \in Nat
    PROVE  Sum(f, S) \in Nat
  <1> DEFINE F == {s \in SUBSET S : Sum(f, s) \in Nat}
  <1>1. ASSUME NEW s \in SUBSET S, \A t \in SUBSET s : t # s => t \in F
        PROVE  s \in F
    <2>1. Sum(f, s) = IF s = {} THEN 0 ELSE f[Pick(s)] + Sum(f, Rest(s))
      BY SumStep, FS_Subset
    <2>2. s # {} => f[Pick(s)] \in Nat /\ Sum(f, Rest(s)) \in Nat
      BY <1>1, PickIsElement
    <2> QED
      BY <2>1, <2>2
  <1>2. S \in F
    <2> HIDE DEF F
    <2> QED
      BY <1>1, SizeInduction
  <1> QED
    BY <1>2

\* Any element may be taken first.
LEMMA SumRemove ==
    ASSUME NEW f, NEW S, IsFiniteSet(S), \A x \in S : f[x] \in Nat
    PROVE  \A x \in S : Sum(f, S) = f[x] + Sum(f, S \ {x})
  <1> DEFINE F == {s \in SUBSET S : \A x \in s : Sum(f, s) = f[x] + Sum(f, s \ {x})}
  <1>1. ASSUME NEW s \in SUBSET S, \A t \in SUBSET s : t # s => t \in F
        PROVE  s \in F
    <2>1. SUFFICES ASSUME NEW x \in s
                   PROVE  Sum(f, s) = f[x] + Sum(f, s \ {x})
      OBVIOUS
    <2> DEFINE y == Pick(s)
    <2>2. y \in s /\ Rest(s) = s \ {y} /\ IsFiniteSet(s)
      BY PickIsElement, FS_Subset DEF Rest
    <2>3. Sum(f, s) = f[y] + Sum(f, s \ {y})
      BY <2>2, SumStep
    <2> HIDE DEF y
    <2>4. CASE x = y
      BY <2>3, <2>4
    <2>5. CASE x # y
      <3>1. Sum(f, s \ {y}) = f[x] + Sum(f, (s \ {y}) \ {x})
        BY <1>1, <2>2, <2>5
      <3>2. Sum(f, s \ {x}) = f[y] + Sum(f, (s \ {x}) \ {y})
        BY <1>1, <2>2, <2>5
      <3>3. (s \ {y}) \ {x} = (s \ {x}) \ {y}
        OBVIOUS
      <3>4. Sum(f, (s \ {x}) \ {y}) \in Nat /\ f[x] \in Nat /\ f[y] \in Nat
        <4>1. (s \ {x}) \ {y} \in SUBSET S
          OBVIOUS
        <4> QED
          BY <2>2, <4>1, SumType, FS_Subset
      <3> QED
        BY <2>3, <3>1, <3>2, <3>3, <3>4
    <2> QED
      BY <2>4, <2>5
  <1>2. S \in F
    <2> HIDE DEF F
    <2> QED
      BY <1>1, SizeInduction
  <1> QED
    BY <1>2

\* Only the values at the elements of S count.
LEMMA SumCongruence ==
    ASSUME NEW f, NEW g, NEW S, IsFiniteSet(S), \A x \in S : f[x] = g[x]
    PROVE  Sum(f, S) = Sum(g, S)
  <1> DEFINE F == {s \in SUBSET S : Sum(f, s) = Sum(g, s)}
  <1>1. ASSUME NEW s \in SUBSET S, \A t \in SUBSET s : t # s => t \in F
        PROVE  s \in F
    <2>1. /\ Sum(f, s) = IF s = {} THEN 0 ELSE f[Pick(s)] + Sum(f, Rest(s))
          /\ Sum(g, s) = IF s = {} THEN 0 ELSE g[Pick(s)] + Sum(g, Rest(s))
      BY SumStep, FS_Subset
    <2>2. s # {} => f[Pick(s)] = g[Pick(s)] /\ Sum(f, Rest(s)) = Sum(g, Rest(s))
      BY <1>1, PickIsElement
    <2> QED
      BY <2>1, <2>2
  <1>2. S \in F
    <2> HIDE DEF F
    <2> QED
      BY <1>1, SizeInduction
  <1> QED
    BY <1>2

\* A function that differs from another in one argument only.
LEMMA SumOneChanged ==
    ASSUME NEW f, NEW g, NEW S, IsFiniteSet(S), NEW x \in S,
           \A y \in S : f[y] \in Nat /\ g[y] \in Nat,
           \A y \in S \ {x} : f[y] = g[y]
    PROVE  /\ Sum(g, S) + f[x] = Sum(f, S) + g[x]
           /\ f[x] <= Sum(f, S)
  <1>1. Sum(f, S) = f[x] + Sum(f, S \ {x}) /\ Sum(g, S) = g[x] + Sum(g, S \ {x})
    BY SumRemove
  <1>2. Sum(f, S \ {x}) = Sum(g, S \ {x}) /\ Sum(f, S \ {x}) \in Nat
    BY SumCongruence, SumType, FS_Subset
  <1> QED
    BY <1>1, <1>2

LEMMA SumInsert ==
    ASSUME NEW f, NEW S, IsFiniteSet(S), NEW x, x \notin S,
           \A y \in S \cup {x} : f[y] \in Nat
    PROVE  Sum(f, S \cup {x}) = f[x] + Sum(f, S)
  <1>1. IsFiniteSet(S \cup {x}) /\ (S \cup {x}) \ {x} = S
    BY FS_AddElement
  <1> QED
    BY <1>1, SumRemove

\* The sum of pointwise sums, one of them over a part of the set only.
LEMMA SumAdd ==
    ASSUME NEW f, NEW g, NEW h, NEW S, IsFiniteSet(S), NEW T \in SUBSET S,
           \A x \in S : f[x] \in Nat,
           \A x \in T : g[x] \in Nat /\ h[x] = f[x] + g[x],
           \A x \in S \ T : h[x] = f[x]
    PROVE  Sum(h, S) = Sum(f, S) + Sum(g, T)
  <1> DEFINE F == {s \in SUBSET S : Sum(h, s) = Sum(f, s) + Sum(g, s \cap T)}
  <1>1. ASSUME NEW s \in SUBSET S, \A t \in SUBSET s : t # s => t \in F
        PROVE  s \in F
    <2>1. CASE s = {}
      <3>1. s \cap T = {}
        BY <2>1
      <3> QED
        BY <2>1, <3>1, SumEmpty
    <2>2. CASE s # {}
      <3>1. PICK x \in s : TRUE
        BY <2>2
      <3> DEFINE r == s \ {x}
      <3>2. IsFiniteSet(s) /\ IsFiniteSet(r) /\ IsFiniteSet(s \cap T) /\ IsFiniteSet(r \cap T)
        BY FS_Subset
      <3>3. /\ Sum(h, r) = Sum(f, r) + Sum(g, r \cap T)
            /\ Sum(f, r) \in Nat /\ Sum(g, r \cap T) \in Nat
        BY <1>1, <3>2, SumType
      <3>4. \A y \in s : f[y] \in Nat /\ h[y] \in Nat
        OBVIOUS
      <3>5. Sum(f, s) = f[x] + Sum(f, r) /\ Sum(h, s) = h[x] + Sum(h, r)
        BY <3>2, <3>4, SumRemove
      <3>6. CASE x \in T
        <4>1. (s \cap T) \ {x} = r \cap T
          OBVIOUS
        <4>2. Sum(g, s \cap T) = g[x] + Sum(g, (s \cap T) \ {x})
          BY <3>2, <3>6, SumRemove
        <4>3. f[x] \in Nat /\ g[x] \in Nat /\ h[x] = f[x] + g[x]
          BY <3>6
        <4>4. Sum(g, s \cap T) = g[x] + Sum(g, r \cap T)
          BY <4>1, <4>2
        <4>5. Sum(h, s) = Sum(f, s) + Sum(g, s \cap T)
          <5> HIDE DEF F, r
          <5> QED
            BY <3>3, <3>5, <4>3, <4>4
        <4> QED
          BY <4>5
      <3>7. CASE x \notin T
        <4>1. s \cap T = r \cap T
          BY <3>7
        <4>2. f[x] \in Nat /\ h[x] = f[x]
          BY <3>7
        <4>3. Sum(g, s \cap T) = Sum(g, r \cap T)
          BY <4>1
        <4>4. Sum(h, s) = Sum(f, s) + Sum(g, s \cap T)
          <5> HIDE DEF F, r
          <5> QED
            BY <3>3, <3>5, <4>2, <4>3
        <4> QED
          BY <4>4
      <3> QED
        BY <3>6, <3>7
    <2> QED
      BY <2>1, <2>2
  <1>2. S \in F
    <2> HIDE DEF F
    <2> QED
      BY <1>1, SizeInduction
  <1>3. S \cap T = T
    OBVIOUS
  <1> QED
    BY <1>2, <1>3

LEMMA SumZero ==
    ASSUME NEW f, NEW S, IsFiniteSet(S), \A x \in S : f[x] = 0
    PROVE  Sum(f, S) = 0
  <1> DEFINE F == {s \in SUBSET S : Sum(f, s) = 0}
  <1>1. ASSUME NEW s \in SUBSET S, \A t \in SUBSET s : t # s => t \in F
        PROVE  s \in F
    <2>1. Sum(f, s) = IF s = {} THEN 0 ELSE f[Pick(s)] + Sum(f, Rest(s))
      BY SumStep, FS_Subset
    <2>2. s # {} => f[Pick(s)] = 0 /\ Sum(f, Rest(s)) = 0
      BY <1>1, PickIsElement
    <2> QED
      BY <2>1, <2>2
  <1>2. S \in F
    <2> HIDE DEF F
    <2> QED
      BY <1>1, SizeInduction
  <1> QED
    BY <1>2
=============================================================================
