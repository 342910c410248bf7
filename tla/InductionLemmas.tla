-------------------------- MODULE InductionLemmas --------------------------
(***************************************************************************)
(* Induction over the naturals and over the subsets of a finite set, in    *)
(* the form the proofs of this project use it: a claim is the set of the   *)
(* numbers, or of the sets, it holds for.  With it, sums over a finite     *)
(* set, as FoldSet takes them, and loops that count.                       *)
(***************************************************************************)
EXTENDS Integers, FiniteSetTheorems, TLAPS

(* A set of naturals that is not empty has a least element. *)
LEMMA LeastNumber ==
  ASSUME NEW S \in SUBSET Nat, S # {}
  PROVE  \E m \in S : \A n \in S : m <= n
  <1> DEFINE R == {ss \in Nat \X Nat : ss[1] < ss[2]}
  <1>1. IsWellFoundedOn(R, Nat)
    BY NatLessThanWellFounded DEF OpToRel
  <1>2. PICK m \in S : \A n \in S : <<n, m>> \notin R
    BY <1>1, WFMin
  <1>3. ASSUME NEW n \in S PROVE m <= n
    <2>1. m \in Nat /\ n \in Nat /\ <<n, m>> \notin R
      BY <1>2
    <2>2. <<n, m>> \in Nat \X Nat /\ <<n, m>>[1] = n /\ <<n, m>>[2] = m
      BY <2>1
    <2>3. ~ (n < m)
      BY <2>1, <2>2
    <2>4. QED BY <2>1, <2>3
  <1>4. QED BY <1>3

(* A set that holds 0 and with every natural the next one holds them all.  *)
LEMMA EveryNumber ==
  ASSUME NEW S, 0 \in S, \A n \in Nat : n \in S => n + 1 \in S
  PROVE  Nat \subseteq S
  <1> SUFFICES ASSUME Nat \ S # {} PROVE FALSE
    OBVIOUS
  <1>1. PICK m \in Nat \ S : \A n \in Nat \ S : m <= n
    BY LeastNumber
  <1>2. m # 0 /\ m - 1 \in Nat /\ m - 1 + 1 = m
    BY <1>1
  <1>3. m - 1 \notin S
    BY <1>1, <1>2
  <1>4. QED BY <1>1, <1>2, <1>3

(* A finite set has no endless descent of subsets. *)
LEMMA SubsetsAreWellFounded ==
  ASSUME NEW S, IsFiniteSet(S)
  PROVE  IsWellFoundedOn(StrictSubsetOrdering(S), SUBSET S)
  BY FS_FiniteSubsetsOfFinite, FS_StrictSubsetOrderingWellFounded

(* A family of sets that holds every subset of a finite set S all of whose *)
(* proper subsets it holds: it holds them all.                             *)
LEMMA EverySubset ==
  ASSUME NEW S, IsFiniteSet(S), NEW F,
         \A T \in SUBSET S : (\A V \in SUBSET T : V # T => V \in F) => T \in F
  PROVE  SUBSET S \subseteq F
  <1> SUFFICES ASSUME NEW U \in SUBSET S, U \notin F PROVE FALSE
    OBVIOUS
  <1> DEFINE Missing == {T \in SUBSET S : T \notin F}
             R == StrictSubsetOrdering(S)
  <1>1. IsWellFoundedOn(R, SUBSET S)
    BY SubsetsAreWellFounded
  <1>2. Missing \subseteq SUBSET S /\ Missing # {}
    OBVIOUS
  <1> HIDE DEF R, Missing
  <1>3. PICK T \in Missing : \A V \in Missing : <<V, T>> \notin R
    BY <1>1, <1>2, WFMin
  <1>4. T \in SUBSET S /\ T \notin F
    BY <1>3 DEF Missing
  <1>5. ASSUME NEW V \in SUBSET T, V # T
        PROVE  V \in F
    <2>1. V \in SUBSET S /\ <<V, T>> \in R
      BY <1>4, <1>5 DEF R, StrictSubsetOrdering
    <2> QED BY <2>1, <1>3 DEF Missing
  <1>6. QED BY <1>4, <1>5

-----------------------------------------------------------------------------
(* The sum of the values c of the elements of a finite set, taken in the   *)
(* order of choice: total is the function that FoldSet builds.             *)
Chosen(T) == CHOOSE x \in T : TRUE

AddsUp(total, c, S) ==
  total = [T \in SUBSET S |->
             IF T = {} THEN 0 ELSE c[Chosen(T)] + total[T \ {Chosen(T)}]]

(* There is such a function. *)
LEMMA SomeSum ==
  ASSUME NEW S, IsFiniteSet(S), NEW c \in [S -> Nat]
  PROVE  \E total : AddsUp(total, c, S)
  <1> DEFINE UpTo(n) == {T \in SUBSET S : Cardinality(T) <= n}
             Next(f, T) == IF T = {} THEN 0 ELSE c[Chosen(T)] + f[T \ {Chosen(T)}]
             Built == {n \in Nat : \E f \in [UpTo(n) -> Nat] :
                                     \A T \in UpTo(n) : f[T] = Next(f, T)}
  <1>1. \A T \in SUBSET S : IsFiniteSet(T) /\ Cardinality(T) \in Nat /\ Cardinality(T) <= Cardinality(S)
    BY FS_Subset, FS_CardinalityType
  <1>2. \A T \in SUBSET S : T # {} =>
          /\ Chosen(T) \in S /\ T \ {Chosen(T)} \in SUBSET S
          /\ Cardinality(T \ {Chosen(T)}) = Cardinality(T) - 1
    <2> SUFFICES ASSUME NEW T \in SUBSET S, T # {}
                 PROVE  /\ Chosen(T) \in S /\ T \ {Chosen(T)} \in SUBSET S
                        /\ Cardinality(T \ {Chosen(T)}) = Cardinality(T) - 1
      OBVIOUS
    <2>1. Chosen(T) \in T
      BY DEF Chosen
    <2>2. IsFiniteSet(T)
      BY <1>1
    <2> QED BY <2>1, <2>2, FS_RemoveElement
  <1>3. 0 \in Built
    <2>1. UpTo(0) \subseteq {{}}
      <3> SUFFICES ASSUME NEW T \in UpTo(0) PROVE T = {}
        OBVIOUS
      <3>1. IsFiniteSet(T) /\ Cardinality(T) = 0
        BY <1>1
      <3> QED BY <3>1, FS_EmptySet
    <2> DEFINE f == [T \in UpTo(0) |-> 0]
    <2>2. f \in [UpTo(0) -> Nat] /\ \A T \in UpTo(0) : f[T] = Next(f, T)
      BY <2>1
    <2> QED BY <2>2
  <1>4. ASSUME NEW n \in Nat, n \in Built
        PROVE  n + 1 \in Built
    <2> PICK f \in [UpTo(n) -> Nat] : \A T \in UpTo(n) : f[T] = Next(f, T)
      BY <1>4
    <2> DEFINE g == [T \in UpTo(n + 1) |-> IF Cardinality(T) <= n THEN f[T] ELSE Next(f, T)]
    <2>1. \A T \in UpTo(n + 1) : T # {} => /\ c[Chosen(T)] \in Nat
                                           /\ T \ {Chosen(T)} \in UpTo(n)
                                           /\ T \ {Chosen(T)} \in UpTo(n + 1)
                                           /\ f[T \ {Chosen(T)}] \in Nat
      BY <1>1, <1>2
    <2>2. \A T \in UpTo(n) : T \in UpTo(n + 1) /\ g[T] = f[T]
      BY <1>1
    <2>3. ASSUME NEW T \in UpTo(n + 1)
          PROVE  g[T] \in Nat /\ g[T] = Next(g, T)
      <3>1. CASE T = {}
        <4>1. Cardinality(T) = 0 /\ T \in UpTo(n)
          BY <3>1, FS_EmptySet
        <4>2. g[T] = f[T] /\ f[T] = 0
          BY <4>1, <3>1, <2>2
        <4> HIDE DEF g
        <4> QED BY <4>2, <3>1
      <3>2. CASE T # {}
        <4>1. g[T] = Next(f, T)
          BY <2>2
        <4>2. g[T \ {Chosen(T)}] = f[T \ {Chosen(T)}]
          BY <3>2, <2>1, <2>2
        <4> HIDE DEF g
        <4> QED BY <3>2, <4>1, <4>2, <2>1
      <3> QED BY <3>1, <3>2
    <2>4. g \in [UpTo(n + 1) -> Nat]
      BY <2>3
    <2> HIDE DEF g
    <2> HIDE DEF UpTo, Next
    <2> QED BY <2>3, <2>4
  <1> HIDE DEF Built
  <1>5. Cardinality(S) \in Built
    BY <1>3, <1>4, EveryNumber, FS_CardinalityType
  <1>6. UpTo(Cardinality(S)) = SUBSET S
    BY <1>1
  <1> PICK f \in [SUBSET S -> Nat] : \A T \in SUBSET S : f[T] = Next(f, T)
    BY <1>5, <1>6 DEF Built
  <1>7. f = [T \in SUBSET S |-> f[T]]
    OBVIOUS
  <1>8. f = [T \in SUBSET S |-> IF T = {} THEN 0 ELSE c[Chosen(T)] + f[T \ {Chosen(T)}]]
    BY <1>7
  <1> QED BY <1>8 DEF AddsUp

(* Its values are numbers. *)
LEMMA SumsAreNumbers ==
  ASSUME NEW S, IsFiniteSet(S), NEW c \in [S -> Nat], NEW total, AddsUp(total, c, S)
  PROVE  \A T \in SUBSET S : total[T] \in Nat
  <1> DEFINE F == {T \in SUBSET S : total[T] \in Nat}
  <1>1. ASSUME NEW T \in SUBSET S, \A V \in SUBSET T : V # T => V \in F
        PROVE  T \in F
    <2>1. CASE T = {}
      BY <2>1 DEF AddsUp
    <2>2. CASE T # {}
      <3>1. Chosen(T) \in T
        BY <2>2 DEF Chosen
      <3>2. total[T \ {Chosen(T)}] \in Nat /\ c[Chosen(T)] \in Nat
        BY <1>1, <3>1
      <3>3. total[T] = c[Chosen(T)] + total[T \ {Chosen(T)}]
        BY <2>2 DEF AddsUp
      <3> QED BY <3>2, <3>3
    <2> QED BY <2>1, <2>2
  <1> HIDE DEF F
  <1>2. SUBSET S \subseteq F
    BY <1>1, EverySubset
  <1> QED BY <1>2 DEF F

(* If one value grows by a at most and no other grows, so does the sum.    *)
LEMMA SumGrowsWithOne ==
  ASSUME NEW S, IsFiniteSet(S), NEW c \in [S -> Nat], NEW d \in [S -> Nat],
         NEW q, NEW a \in Nat, \A x \in S : d[x] <= c[x] + (IF x = q THEN a ELSE 0),
         NEW before, AddsUp(before, c, S), NEW after, AddsUp(after, d, S)
  PROVE  after[S] <= before[S] + a
  <1> DEFINE F == {T \in SUBSET S : after[T] <= before[T] + (IF q \in T THEN a ELSE 0)}
  <1>1. \A T \in SUBSET S : before[T] \in Nat /\ after[T] \in Nat
    BY SumsAreNumbers
  <1>2. ASSUME NEW T \in SUBSET S, \A V \in SUBSET T : V # T => V \in F
        PROVE  T \in F
    <2>1. CASE T = {}
      BY <2>1 DEF AddsUp
    <2>2. CASE T # {}
      <3> DEFINE x == Chosen(T)
                 V == T \ {x}
      <3>1. x \in T
        BY <2>2 DEF Chosen
      <3>2. V \in F /\ c[x] \in Nat /\ d[x] \in Nat /\ before[V] \in Nat /\ after[V] \in Nat
        BY <1>1, <1>2, <3>1
      <3>3. after[T] = d[x] + after[V] /\ before[T] = c[x] + before[V]
        BY <2>2 DEF AddsUp
      <3>4. /\ d[x] <= c[x] + (IF x = q THEN a ELSE 0)
            /\ after[V] <= before[V] + (IF q \in V THEN a ELSE 0)
        BY <3>1, <3>2
      <3>5. CASE x = q
        <4>1. q \notin V /\ q \in T
          BY <3>1, <3>5
        <4>2. d[x] <= c[x] + a /\ after[V] <= before[V]
          BY <3>2, <3>4, <3>5, <4>1
        <4> HIDE DEF x, V
        <4> QED BY <3>2, <3>3, <4>1, <4>2
      <3>6. CASE x # q
        <4>1. q \in V <=> q \in T
          BY <3>6
        <4>2. d[x] <= c[x]
          BY <3>2, <3>4, <3>6
        <4> HIDE DEF x, V
        <4> QED BY <3>2, <3>3, <3>4, <4>1, <4>2
      <3> QED BY <3>5, <3>6
    <2> QED BY <2>1, <2>2
  <1>3. SUBSET S \subseteq F
    <2> HIDE DEF F
    <2> QED BY <1>2, EverySubset
  <1>4. S \in F /\ before[S] \in Nat /\ after[S] \in Nat
    BY <1>1, <1>3
  <1> QED BY <1>4

(* A sum of zeros is zero. *)
LEMMA SumOfZeros ==
  ASSUME NEW S, IsFiniteSet(S), NEW c, \A x \in S : c[x] = 0, NEW total, AddsUp(total, c, S)
  PROVE  total[S] = 0
  <1> DEFINE F == {T \in SUBSET S : total[T] = 0}
  <1>1. ASSUME NEW T \in SUBSET S, \A V \in SUBSET T : V # T => V \in F
        PROVE  T \in F
    <2>1. CASE T = {}
      BY <2>1 DEF AddsUp
    <2>2. CASE T # {}
      <3>1. Chosen(T) \in T
        BY <2>2 DEF Chosen
      <3>2. total[T \ {Chosen(T)}] = 0 /\ c[Chosen(T)] = 0
        BY <1>1, <3>1
      <3>3. total[T] = c[Chosen(T)] + total[T \ {Chosen(T)}]
        BY <2>2 DEF AddsUp
      <3> QED BY <3>2, <3>3
    <2> QED BY <2>1, <2>2
  <1> HIDE DEF F
  <1>2. SUBSET S \subseteq F
    BY <1>1, EverySubset
  <1> QED BY <1>2 DEF F

-----------------------------------------------------------------------------
(* A loop of n steps, each of which makes a value of V from the one before.*)
Loops(f, n, first, step) ==
  /\ f[0] = first
  /\ \A i \in 1 .. n : f[i] = step[<<i, f[i - 1]>>]

(* Every such loop has a result. *)
LEMMA SomeLoop ==
  ASSUME NEW n \in Nat, NEW V, NEW first \in V, NEW step \in [(1 .. n) \X V -> V]
  PROVE  \E f \in [0 .. n -> V] : Loops(f, n, first, step)
  <1> DEFINE Run == {k \in Nat : k <= n => \E f \in [0 .. k -> V] : Loops(f, k, first, step)}
  <1>1. 0 \in Run
    <2> DEFINE f == [i \in 0 .. 0 |-> first]
    <2>1. f \in [0 .. 0 -> V] /\ Loops(f, 0, first, step)
      BY DEF Loops
    <2> QED BY <2>1
  <1>2. ASSUME NEW k \in Nat, k \in Run
        PROVE  k + 1 \in Run
    <2> SUFFICES ASSUME k + 1 <= n
                 PROVE  \E f \in [0 .. (k + 1) -> V] : Loops(f, k + 1, first, step)
      OBVIOUS
    <2> PICK f \in [0 .. k -> V] : Loops(f, k, first, step)
      BY <1>2
    <2> DEFINE g == [i \in 0 .. (k + 1) |-> IF i <= k THEN f[i] ELSE step[<<k + 1, f[k]>>]]
    <2>1. f[k] \in V /\ <<k + 1, f[k]>> \in (1 .. n) \X V
      OBVIOUS
    <2>2. g \in [0 .. (k + 1) -> V]
      BY <2>1
    <2>3. (\A i \in 0 .. k : g[i] = f[i]) /\ g[k + 1] = step[<<k + 1, f[k]>>]
      OBVIOUS
    <2> HIDE DEF g
    <2>4. Loops(g, k + 1, first, step)
      <3>1. g[0] = first
        BY <2>3 DEF Loops
      <3>2. ASSUME NEW i \in 1 .. (k + 1)
            PROVE  g[i] = step[<<i, g[i - 1]>>]
        <4>1. CASE i <= k
          <5>1. i \in 1 .. k /\ i - 1 \in 0 .. k /\ i \in 0 .. k
            BY <4>1
          <5> QED BY <5>1, <2>3 DEF Loops
        <4>2. CASE i = k + 1
          <5>1. i - 1 = k /\ k \in 0 .. k
            BY <4>2
          <5> QED BY <5>1, <4>2, <2>3
        <4> QED BY <4>1, <4>2
      <3> QED BY <3>1, <3>2 DEF Loops
    <2> QED BY <2>2, <2>4
  <1> HIDE DEF Run
  <1>3. n \in Run
    BY <1>1, <1>2, EveryNumber
  <1> QED BY <1>3 DEF Run
=============================================================================
