---------------------------- MODULE FoldTheorems ----------------------------
(***************************************************************************)
(* Folds of the community modules as functions a proof can reason about.   *)
(* A fold is the value at T of a function on the subsets of T that is      *)
(* chosen to satisfy its own defining equation; the lemmas say that such a *)
(* function exists, and what follows of it by induction on the subsets.    *)
(* They take the step as a function, not as an operator, so that they can  *)
(* be cited for any operator restricted to a set it does not leave.        *)
(***************************************************************************)
EXTENDS Integers, Sequences, FiniteSetsExt, Functions, Ranks, FiniteSetTheorems, TLAPS

\* Every non-empty set of naturals has a least element.
LEMMA NatLeast ==
    ASSUME NEW T, T \subseteq Nat, T # {}
    PROVE  \E x \in T : \A y \in T : x <= y
<1> DEFINE R == OpToRel(<, Nat)
<1>1. IsWellFoundedOn(R, Nat)
    BY NatLessThanWellFounded
<1>2. \A a, b \in Nat : a < b => <<a, b>> \in R
    BY DEF OpToRel
<1> HIDE DEF R
<1>3. PICK x \in T : \A y \in T : ~(<<y, x>> \in R)
    BY <1>1, WFMin
<1>4. \A y \in T : ~(y < x)
    BY <1>2, <1>3
<1> QED BY <1>4

\* A non-empty set of indices has a last one.
LEMMA MaxIn ==
    ASSUME NEW size \in Nat, NEW s \in SUBSET (1..size), s # {}
    PROVE  Max(s) \in s
<1> DEFINE T == {size - x : x \in s}
<1>1. T \subseteq Nat /\ T # {}
    <2>1. \A x \in s : size - x \in Nat
        OBVIOUS
    <2>2. PICK x : x \in s
        OBVIOUS
    <2>3. size - x \in T
        BY <2>2
    <2> QED BY <2>1, <2>3
<1>2. PICK y \in T : \A z \in T : y <= z
    <2> HIDE DEF T
    <2> QED BY <1>1, NatLeast
<1>3. PICK m \in s : y = size - m
    OBVIOUS
<1>4. ASSUME NEW x \in s PROVE m >= x
    <2>1. size - m <= size - x
        BY <1>2, <1>3
    <2>2. x \in Int /\ m \in Int
        OBVIOUS
    <2> QED BY <2>1, <2>2
<1> QED BY <1>4 DEF Max

\* Induction on the subsets of a finite set: what every proper subset passes
\* on to the whole, every subset has.
LEMMA SubsetInduction ==
    ASSUME NEW T, IsFiniteSet(T), NEW good,
           ASSUME NEW s \in SUBSET T, \A x \in s : s \ {x} \in good
           PROVE  s \in good
    PROVE  \A s \in SUBSET T : s \in good
<1> DEFINE Sizes == {Cardinality(s) : s \in {r \in SUBSET T : r \notin good}}
<1>1. \A s \in SUBSET T : IsFiniteSet(s) /\ Cardinality(s) \in Nat
    BY FS_Subset, FS_CardinalityType
<1> SUFFICES ASSUME NEW q \in SUBSET T, q \notin good PROVE FALSE
    OBVIOUS
<1>2. PICK n \in Sizes : \A m \in Sizes : n <= m
    <2>1. Sizes \subseteq Nat /\ Sizes # {}
        BY <1>1
    <2> HIDE DEF Sizes
    <2> QED BY <2>1, NatLeast
<1>3. PICK s \in SUBSET T : s \notin good /\ n = Cardinality(s)
    BY <1>2
<1>4. PICK x \in s : s \ {x} \notin good
    BY <1>3
<1>5. Cardinality(s \ {x}) = Cardinality(s) - 1
    BY <1>1, <1>3, FS_RemoveElement
<1>6. Cardinality(s \ {x}) \in Sizes
    BY <1>4
<1>7. n <= Cardinality(s) - 1
    <2> HIDE DEF Sizes
    <2>1. n <= Cardinality(s \ {x})
        BY <1>2, <1>6
    <2> QED BY <1>5, <2>1
<1>8. Cardinality(s) \in Nat
    BY <1>1
<1> HIDE DEF Sizes
<1> QED BY <1>3, <1>7, <1>8

\* One round of a fold over the subsets of T that takes choose[s] out of s.
Round(base, choose, step, T, g) ==
    [s \in SUBSET T |-> IF s = {} THEN base ELSE step[<<choose[s], g[s \ {choose[s]}]>>]]

Chooses(choose, T) == \A s \in SUBSET T : s # {} => choose[s] \in s

\* g is the fold over T whose values stay in V.
IsFold(g, base, choose, step, T, V) ==
    g \in [SUBSET T -> V] /\ g = Round(base, choose, step, T, g)

\* A fold whose steps stay in V is well defined.
LEMMA FoldExists ==
    ASSUME NEW T, IsFiniteSet(T), NEW V, NEW base \in V,
           NEW choose, Chooses(choose, T),
           NEW step \in [T \X V -> V]
    PROVE  \E g : IsFold(g, base, choose, step, T, V)
<1> DEFINE P(n) == \E g \in [SUBSET T -> V] : \A s \in SUBSET T :
                      Cardinality(s) < n => g[s] = Round(base, choose, step, T, g)[s]
           Bad == {n \in Nat : ~P(n)}
<1>0. \A s \in SUBSET T : /\ IsFiniteSet(s) /\ Cardinality(s) \in Nat
                          /\ s # {} => choose[s] \in s
    BY FS_Subset, FS_CardinalityType DEF Chooses
<1>1. P(0)
    <2>1. [s \in SUBSET T |-> base] \in [SUBSET T -> V]
        OBVIOUS
    <2>2. \A s \in SUBSET T : ~(Cardinality(s) < 0)
        BY <1>0
    <2> QED BY <2>1, <2>2
<1>2. ASSUME NEW n \in Nat, P(n) PROVE P(n + 1)
    <2>1. PICK g \in [SUBSET T -> V] : \A s \in SUBSET T :
              Cardinality(s) < n => g[s] = Round(base, choose, step, T, g)[s]
        BY <1>2
    <2> DEFINE h == Round(base, choose, step, T, g)
    <2>2. h \in [SUBSET T -> V]
        <3>1. ASSUME NEW s \in SUBSET T, s # {}
              PROVE  step[<<choose[s], g[s \ {choose[s]}]>>] \in V
            <4>1. choose[s] \in T /\ g[s \ {choose[s]}] \in V
                BY <1>0, <3>1
            <4> QED BY <4>1
        <3> QED BY <3>1 DEF Round
    <2>3. ASSUME NEW s \in SUBSET T, Cardinality(s) < n + 1
          PROVE  h[s] = Round(base, choose, step, T, h)[s]
        <3>1. CASE s = {}
            BY <3>1 DEF Round
        <3>2. CASE s # {}
            <4> DEFINE r == s \ {choose[s]}
            <4>1. choose[s] \in s /\ r \in SUBSET T
                BY <1>0, <3>2
            <4>2. Cardinality(r) < n
                <5>1. Cardinality(r) = Cardinality(s) - 1
                    BY <4>1, <1>0, FS_RemoveElement
                <5> QED BY <5>1, <2>3, <1>0
            <4>3. g[r] = h[r]
                BY <4>1, <4>2, <2>1
            <4>4. h[s] = step[<<choose[s], g[r]>>]
                BY <3>2 DEF Round
            <4>5. Round(base, choose, step, T, h)[s] = step[<<choose[s], h[r]>>]
                <5> HIDE DEF h
                <5> QED BY <3>2 DEF Round
            <4> QED BY <4>3, <4>4, <4>5
        <3> QED BY <3>1, <3>2
    <2> QED BY <2>2, <2>3
<1>3. \A n \in Nat : P(n)
    <2> HIDE DEF P
    <2> SUFFICES ASSUME Bad # {} PROVE FALSE
        OBVIOUS
    <2>1. PICK n \in Bad : \A m \in Bad : n <= m
        BY NatLeast
    <2>2. n # 0
        BY <1>1, <2>1
    <2>3. n - 1 \in Nat /\ n - 1 \notin Bad
        BY <2>1, <2>2
    <2>4. P((n - 1) + 1)
        BY <2>3, <1>2
    <2> QED BY <2>1, <2>4
<1>4. P(Cardinality(T) + 1)
    <2>1. Cardinality(T) + 1 \in Nat
        BY FS_CardinalityType
    <2> HIDE DEF P
    <2> QED BY <1>3, <2>1
<1>5. \A s \in SUBSET T : Cardinality(s) < Cardinality(T) + 1
    BY <1>0, FS_Subset
<1>6. PICK g \in [SUBSET T -> V] : \A s \in SUBSET T : g[s] = Round(base, choose, step, T, g)[s]
    BY <1>4, <1>5
<1>7. g = Round(base, choose, step, T, g)
    <2>1. DOMAIN Round(base, choose, step, T, g) = SUBSET T
        BY DEF Round
    <2>2. Round(base, choose, step, T, g) = [s \in SUBSET T |-> Round(base, choose, step, T, g)[s]]
        BY DEF Round
    <2> QED BY <1>6, <2>1, <2>2
<1> QED BY <1>7 DEF IsFold

-----------------------------------------------------------------------------
(* What a fold passes on *)

\* The values in P[s], for the part s of T that has been folded, lead to values
\* in P of a larger part.
Carries(P, base, choose, step, T, V) ==
    /\ P \in [SUBSET T -> SUBSET V] /\ base \in P[{}] /\ Chooses(choose, T)
    /\ \A s \in SUBSET T : s # {} =>
         \A v \in P[s \ {choose[s]}] : step[<<choose[s], v>>] \in P[s]

\* g starts from base, and goes on with the step as long as it stays in P.
Obeys(g, P, base, choose, step, T) ==
    /\ g[{}] = base
    /\ \A s \in SUBSET T :
         LET r == s \ {choose[s]} IN
         s # {} /\ g[r] \in P[r] => g[s] = step[<<choose[s], g[r]>>]

\* Then it stays in P.
LEMMA FoldStays ==
    ASSUME NEW T, IsFiniteSet(T), NEW V, NEW P, NEW base, NEW choose, NEW step,
           Carries(P, base, choose, step, T, V), NEW g, Obeys(g, P, base, choose, step, T)
    PROVE  \A s \in SUBSET T : g[s] \in P[s]
<1> DEFINE good == {s \in SUBSET T : g[s] \in P[s]}
<1>1. ASSUME NEW s \in SUBSET T, \A x \in s : s \ {x} \in good
      PROVE  s \in good
    <2>1. CASE s = {}
        BY <2>1 DEF Carries, Obeys
    <2>2. CASE s # {}
        <3> DEFINE r == s \ {choose[s]}
        <3>1. choose[s] \in s
            BY <2>2 DEF Carries, Chooses
        <3>2. g[r] \in P[r]
            BY <1>1, <3>1
        <3>3. g[s] = step[<<choose[s], g[r]>>]
            BY <2>2, <3>2 DEF Obeys
        <3> QED BY <2>2, <3>2, <3>3 DEF Carries
    <2> QED BY <2>1, <2>2
<1>2. \A s \in SUBSET T : s \in good
    <2> HIDE DEF good
    <2> QED BY <1>1, SubsetInduction
<1> QED BY <1>2

\* Nowhere does it leave P.
Folds(g, P, base, choose, step, T) ==
    /\ g = [s \in SUBSET T |-> g[s]] /\ \A s \in SUBSET T : g[s] \in P[s]
    /\ g[{}] = base
    /\ \A s \in SUBSET T : s # {} => g[s] = step[<<choose[s], g[s \ {choose[s]}]>>]

\* And such a function exists.
LEMMA FoldKeeps ==
    ASSUME NEW T, IsFiniteSet(T), NEW V, NEW P, NEW base, NEW choose, NEW step,
           Carries(P, base, choose, step, T, V)
    PROVE  \E g : Folds(g, P, base, choose, step, T)
<1> DEFINE f == [xv \in T \X V |-> IF step[xv] \in V THEN step[xv] ELSE base]
<1>1. base \in V /\ Chooses(choose, T)
    <2>1. {} \in SUBSET T
        OBVIOUS
    <2> QED BY <2>1 DEF Carries
<1>2. f \in [T \X V -> V]
    BY <1>1
<1>3. ASSUME NEW s \in SUBSET T, s # {}, NEW v \in P[s \ {choose[s]}]
      PROVE  f[<<choose[s], v>>] = step[<<choose[s], v>>]
    <2>1. choose[s] \in T /\ s \ {choose[s]} \in SUBSET T
        BY <1>1, <1>3 DEF Chooses
    <2>2. v \in V
        BY <1>3, <2>1 DEF Carries
    <2>3. step[<<choose[s], v>>] \in V
        BY <1>3 DEF Carries
    <2> QED BY <2>1, <2>2, <2>3
<1> HIDE DEF f
<1>4. PICK g : IsFold(g, base, choose, f, T, V)
    BY <1>1, <1>2, FoldExists
<1>5. /\ g \in [SUBSET T -> V] /\ g[{}] = base
      /\ \A s \in SUBSET T : s # {} => g[s] = f[<<choose[s], g[s \ {choose[s]}]>>]
    <2>1. g \in [SUBSET T -> V] /\ g = Round(base, choose, f, T, g)
        BY <1>4 DEF IsFold
    <2>2. \A s \in SUBSET T :
             g[s] = IF s = {} THEN base ELSE f[<<choose[s], g[s \ {choose[s]}]>>]
        BY <2>1 DEF Round
    <2> QED BY <2>1, <2>2
<1>6. Obeys(g, P, base, choose, step, T)
    BY <1>3, <1>5 DEF Obeys
<1>7. \A s \in SUBSET T : g[s] \in P[s]
    BY <1>6, FoldStays
<1>8. ASSUME NEW s \in SUBSET T, s # {}
      PROVE  g[s] = step[<<choose[s], g[s \ {choose[s]}]>>]
    <2>1. s \ {choose[s]} \in SUBSET T
        OBVIOUS
    <2>2. g[s \ {choose[s]}] \in P[s \ {choose[s]}]
        BY <1>7, <2>1
    <2> QED BY <1>6, <1>8, <2>2 DEF Obeys
<1> QED BY <1>5, <1>7, <1>8 DEF Folds

-----------------------------------------------------------------------------
(* Folds of a sequence: the elements come in the order of their indices *)

\* g folds n steps on values of V, starting from base.
FoldsList(g, base, step, n, V) ==
    /\ g[{}] = base
    /\ \A s \in SUBSET (1..n) :
         s # {} /\ g[s \ {Max(s)}] \in V => g[s] = step[<<Max(s), g[s \ {Max(s)}]>>]

\* Q[k] holds the values that k steps may lead to.
Leads(Q, base, step, n, V) ==
    /\ Q \in [0..n -> SUBSET V] /\ base \in Q[0]
    /\ \A k \in 1..n : \A v \in Q[k - 1] : step[<<k, v>>] \in Q[k]

\* A fold whose step does not leave V.
IsListFold(g, base, step, n, V) ==
    /\ g = [s \in SUBSET (1..n) |-> g[s]] /\ \A s \in SUBSET (1..n) : g[s] \in V
    /\ g[{}] = base
    /\ \A s \in SUBSET (1..n) : s # {} => g[s] = step[<<Max(s), g[s \ {Max(s)}]>>]

LEMMA ListFold ==
    ASSUME NEW n \in Nat, NEW V, NEW base \in V, NEW step \in [(1..n) \X V -> V]
    PROVE  \E g : IsListFold(g, base, step, n, V)
<1> DEFINE T == 1..n
           choose == [s \in SUBSET T |-> Max(s)]
<1>1. IsFiniteSet(T) /\ \A s \in SUBSET T : s # {} => choose[s] \in s /\ choose[s] = Max(s)
    <2>1. IsFiniteSet(T)
        BY FS_Interval
    <2>2. \A s \in SUBSET T : s # {} => Max(s) \in s
        BY MaxIn
    <2>3. \A s \in SUBSET T : choose[s] = Max(s)
        OBVIOUS
    <2> HIDE DEF choose
    <2> QED BY <2>1, <2>2, <2>3
<1> HIDE DEF choose, T
<1>2. PICK g : IsFold(g, base, choose, step, T, V)
    BY <1>1, FoldExists DEF T, Chooses
<1>3. g \in [SUBSET T -> V] /\ g = Round(base, choose, step, T, g)
    BY <1>2 DEF IsFold
<1>4. \A s \in SUBSET T : g[s] = IF s = {} THEN base ELSE step[<<choose[s], g[s \ {choose[s]}]>>]
    BY <1>3 DEF Round
<1>5. g[{}] = base
    BY <1>4
<1>6. \A s \in SUBSET T : s # {} => g[s] = step[<<Max(s), g[s \ {Max(s)}]>>]
    BY <1>1, <1>4
<1>7. g = [s \in SUBSET T |-> g[s]] /\ \A s \in SUBSET T : g[s] \in V
    BY <1>3
<1> QED BY <1>5, <1>6, <1>7 DEF T, IsListFold

LEMMA ListFoldLeads ==
    ASSUME NEW n \in Nat, NEW V, NEW base, NEW step, NEW Q, Leads(Q, base, step, n, V),
           NEW g, FoldsList(g, base, step, n, V)
    PROVE  g[1..n] \in Q[n]
<1> DEFINE good == {s \in SUBSET (1..n) : \A k \in 0..n : s = 1..k => g[s] \in Q[k]}
           T == 1..n
<1>1. ASSUME NEW s \in SUBSET T, \A x \in s : s \ {x} \in good
      PROVE  s \in good
    <2> SUFFICES ASSUME NEW k \in 0..n, s = 1..k PROVE g[s] \in Q[k]
        OBVIOUS
    <2>1. CASE k = 0
        <3>1. s = {}
            BY <2>1
        <3> QED BY <2>1, <3>1 DEF FoldsList, Leads
    <2>2. CASE k # 0
        <3>1. k \in 1..n /\ k \in s /\ s # {} /\ k - 1 \in 0..n
            BY <2>2
        <3>2. Max(s) = k
            <4>1. Max(s) \in s
                BY <3>1, MaxIn
            <4>2. \E x \in s : \A y \in s : x >= y
                BY <3>1
            <4>3. \A y \in s : Max(s) >= y
                BY <4>2 DEF Max
            <4> QED BY <3>1, <4>1, <4>3
        <3>3. s \ {k} = 1..(k - 1) /\ s \ {k} \in good
            <4>1. s \ {k} \in good
                BY <1>1, <3>1
            <4>2. (1..k) \ {k} = 1..(k - 1)
                BY <3>1
            <4> QED BY <4>1, <4>2
        <3> DEFINE r == s \ {k}
        <3>4. r = 1..(k - 1) /\ r \in good /\ k - 1 \in 0..n
            BY <3>1, <3>3
        <3> HIDE DEF r
        <3>5. g[r] \in Q[k - 1]
            BY <3>4
        <3>6. g[r] \in V
            BY <3>4, <3>5 DEF Leads
        <3>7. g[s] = step[<<k, g[r]>>]
            BY <3>1, <3>2, <3>6 DEF FoldsList, r
        <3> QED BY <3>1, <3>5, <3>7 DEF Leads
    <2> QED BY <2>1, <2>2
<1>2. IsFiniteSet(T)
    BY FS_Interval
<1> HIDE DEF good, T
<1>3. \A s \in SUBSET T : s \in good
    BY <1>1, <1>2, SubsetInduction
<1> QED BY <1>3 DEF good, T

-----------------------------------------------------------------------------
(* Sums *)

\* h[s] is the sum of w[x] over the elements x of s, for every subset s of U.
IsSum(h, w, U) ==
    /\ h \in [SUBSET U -> Int] /\ h[{}] = 0
    /\ \A s \in SUBSET U : \A x \in s : h[s] = w[x] + h[s \ {x}]

\* h adds up w in one order of the elements.
AddsUp(h, w, U) ==
    /\ h \in [SUBSET U -> Int] /\ h[{}] = 0
    /\ \A s \in SUBSET U : s # {} => \E x \in s : h[s] = w[x] + h[s \ {x}]

\* The order does not matter.
LEMMA SumTakesAny ==
    ASSUME NEW T, IsFiniteSet(T), NEW f \in [T -> Int],
           NEW h, AddsUp(h, f, T)
    PROVE  IsSum(h, f, T)
<1>0. /\ h \in [SUBSET T -> Int] /\ h[{}] = 0
      /\ \A s \in SUBSET T : s # {} => \E x \in s : h[s] = f[x] + h[s \ {x}]
    BY DEF AddsUp
<1> DEFINE good == {s \in SUBSET T : \A x \in s : h[s] = f[x] + h[s \ {x}]}
<1>1. ASSUME NEW s \in SUBSET T, \A x \in s : s \ {x} \in good
      PROVE  s \in good
    <2> SUFFICES ASSUME NEW x \in s PROVE h[s] = f[x] + h[s \ {x}]
        OBVIOUS
    <2>1. PICK y \in s : h[s] = f[y] + h[s \ {y}]
        BY <1>0
    <2>2. CASE x = y
        BY <2>1, <2>2
    <2>3. CASE x # y
        <3>1. h[s \ {y}] = f[x] + h[(s \ {y}) \ {x}]
            BY <1>1, <2>3
        <3>2. h[s \ {x}] = f[y] + h[(s \ {x}) \ {y}]
            BY <1>1, <2>3
        <3>3. (s \ {y}) \ {x} = (s \ {x}) \ {y} /\ (s \ {x}) \ {y} \in SUBSET T
            OBVIOUS
        <3>4. f[x] \in Int /\ f[y] \in Int /\ h[(s \ {x}) \ {y}] \in Int
            BY <1>0, <3>3
        <3>5. h[s] = f[y] + (f[x] + h[(s \ {x}) \ {y}])
            BY <2>1, <3>1, <3>3
        <3>6. \A a, b, c \in Int : b + (a + c) = a + (b + c)
            OBVIOUS
        <3>7. h[s] = f[x] + (f[y] + h[(s \ {x}) \ {y}])
            BY <3>4, <3>5, <3>6, Zenon
        <3> QED BY <3>2, <3>7
    <2> QED BY <2>2, <2>3
<1>2. \A s \in SUBSET T : s \in good
    <2> HIDE DEF good
    <2> QED BY <1>1, SubsetInduction
<1> QED BY <1>0, <1>2 DEF IsSum

LEMMA SumExists ==
    ASSUME NEW U, IsFiniteSet(U), NEW w \in [U -> Int]
    PROVE  \E h : IsSum(h, w, U)
<1> DEFINE choose == [s \in SUBSET U |-> CHOOSE y \in s : TRUE]
           step == [p \in U \X Int |-> w[p[1]] + p[2]]
<1>1. Chooses(choose, U)
    BY DEF Chooses
<1>2. step \in [U \X Int -> Int]
    <2>1. \A p \in U \X Int : w[p[1]] + p[2] \in Int
        OBVIOUS
    <2> QED BY <2>1
<1>3. \A x \in U, n \in Int : step[<<x, n>>] = w[x] + n
    OBVIOUS
<1> HIDE DEF choose, step
<1>4. PICK h \in [SUBSET U -> Int] : h = Round(0, choose, step, U, h)
    <2> DEFINE V == Int
               base == 0
    <2>1. base \in V /\ step \in [U \X V -> V]
        BY <1>2
    <2> HIDE DEF V, base
    <2>2. \E h : IsFold(h, base, choose, step, U, V)
        BY <1>1, <2>1, FoldExists
    <2> QED BY <2>2 DEF V, base, IsFold
<1>5. h[{}] = 0
    BY <1>4 DEF Round
<1>6. \A s \in SUBSET U : s # {} => \E x \in s : h[s] = w[x] + h[s \ {x}]
    <2> TAKE s \in SUBSET U
    <2> HAVE s # {}
    <2>1. h[s] = step[<<choose[s], h[s \ {choose[s]}]>>]
        BY <1>4 DEF Round
    <2>2. choose[s] \in s /\ h[s \ {choose[s]}] \in Int
        BY <1>1 DEF Chooses
    <2> QED BY <1>3, <2>1, <2>2
<1>7. AddsUp(h, w, U)
    BY <1>5, <1>6 DEF AddsUp
<1> QED BY <1>7, SumTakesAny

\* Two sums agree where their summands do, and a zero adds nothing.
LEMMA SumsAgree ==
    ASSUME NEW U, IsFiniteSet(U), NEW w \in [U -> Int], NEW v \in [U -> Int],
           NEW h, IsSum(h, w, U), NEW k, IsSum(k, v, U),
           NEW T \in SUBSET U, NEW S \in SUBSET T,
           \A x \in S : w[x] = v[x], \A x \in T \ S : v[x] = 0
    PROVE  h[S] = k[T]
<1> DEFINE good == {s \in SUBSET T : h[s \cap S] = k[s]}
<1>1. ASSUME NEW s \in SUBSET T, \A x \in s : s \ {x} \in good
      PROVE  s \in good
    <2>1. CASE s = {}
        BY <2>1 DEF IsSum
    <2>2. CASE s # {}
        <3>1. PICK x \in s : TRUE
            BY <2>2
        <3>2. h[(s \ {x}) \cap S] = k[s \ {x}] /\ k[s] = v[x] + k[s \ {x}] /\ k[s \ {x}] \in Int
            BY <1>1 DEF IsSum
        <3>3. CASE x \in S
            <4>1. h[s \cap S] = w[x] + h[(s \cap S) \ {x}]
                BY <3>3 DEF IsSum
            <4>2. (s \cap S) \ {x} = (s \ {x}) \cap S /\ w[x] = v[x]
                BY <3>3
            <4> QED BY <3>2, <4>1, <4>2
        <3>4. CASE x \notin S
            <4>1. (s \ {x}) \cap S = s \cap S /\ v[x] = 0
                BY <3>4
            <4> QED BY <3>2, <4>1
        <3> QED BY <3>3, <3>4
    <2> QED BY <2>1, <2>2
<1>2. IsFiniteSet(T)
    BY FS_Subset
<1>3. T \in good
    <2> HIDE DEF good
    <2> QED BY <1>1, <1>2, SubsetInduction
<1> QED BY <1>3

\* A sum grows as its only growing summand does.
LEMMA SumMoves ==
    ASSUME NEW U, IsFiniteSet(U), NEW w \in [U -> Int], NEW v \in [U -> Int],
           NEW h, IsSum(h, w, U), NEW k, IsSum(k, v, U),
           NEW T \in SUBSET U, NEW a \in T, \A x \in T \ {a} : w[x] = v[x]
    PROVE  k[T] = h[T] + (v[a] - w[a])
<1>1. h[T] = w[a] + h[T \ {a}] /\ k[T] = v[a] + k[T \ {a}]
    BY DEF IsSum
<1>2. h[T \ {a}] = k[T \ {a}]
    BY SumsAgree
<1>3. h[T \ {a}] \in Int
    BY DEF IsSum
<1> QED BY <1>1, <1>2, <1>3

\* The community modules' sum of a function over a set is that sum.
LEMMA SumFunctionIsSum ==
    ASSUME NEW U, IsFiniteSet(U), NEW w \in [U -> Int], NEW h, IsSum(h, w, U),
           NEW T \in SUBSET U
    PROVE  SumFunctionOnSet(w, T) = h[T]
<1> DEFINE F(g) == [s \in SUBSET T |-> IF s = {} THEN 0
                                       ELSE LET x == CHOOSE y \in s : TRUE
                                            IN w[x] + g[s \ {x}]]
           it == CHOOSE g : g = F(g)
<1>1. SumFunctionOnSet(w, T) = it[T]
    BY DEF SumFunctionOnSet, FoldFunctionOnSet, MapThenFoldSet
<1>2. \E g : g = F(g)
    <2> DEFINE g == [s \in SUBSET T |-> h[s]]
    <2>1. \A s \in SUBSET T : g[s] = F(g)[s]
        <3> TAKE s \in SUBSET T
        <3>1. CASE s = {}
            BY <3>1 DEF IsSum
        <3>2. CASE s # {}
            <4> DEFINE x == CHOOSE y \in s : TRUE
            <4>1. x \in s
                BY <3>2
            <4>2. h[s] = w[x] + h[s \ {x}]
                BY <4>1 DEF IsSum
            <4>3. g[s] = h[s] /\ g[s \ {x}] = h[s \ {x}]
                BY <4>1
            <4> QED BY <3>2, <4>2, <4>3
        <3> QED BY <3>1, <3>2
    <2>2. F(g) = [s \in SUBSET T |-> F(g)[s]] /\ g = [s \in SUBSET T |-> g[s]]
        OBVIOUS
    <2> HIDE DEF g, F
    <2>3. g = F(g)
        BY <2>1, <2>2
    <2> QED BY <2>3
<1>3. it = F(it)
    BY <1>2
<1> HIDE DEF it
<1> DEFINE good == {s \in SUBSET T : it[s] = h[s]}
<1>4. ASSUME NEW s \in SUBSET T, \A x \in s : s \ {x} \in good
      PROVE  s \in good
    <2>1. CASE s = {}
        BY <1>3, <2>1 DEF IsSum
    <2>2. CASE s # {}
        <3> DEFINE x == CHOOSE y \in s : TRUE
        <3>1. x \in s
            BY <2>2
        <3>2. it[s] = w[x] + it[s \ {x}]
            BY <1>3, <2>2
        <3>3. it[s \ {x}] = h[s \ {x}]
            BY <1>4, <3>1
        <3>4. h[s] = w[x] + h[s \ {x}]
            BY <3>1 DEF IsSum
        <3> QED BY <3>2, <3>3, <3>4
    <2> QED BY <2>1, <2>2
<1>5. IsFiniteSet(T)
    BY FS_Subset
<1>6. T \in good
    <2> HIDE DEF good
    <2> QED BY <1>4, <1>5, SubsetInduction
<1> QED BY <1>1, <1>6

-----------------------------------------------------------------------------
(* Ranks *)

\* below[x] is what comes before x in S; any two elements compare.
Orders(below, S) ==
    /\ \A x \in S : below[x] \subseteq S /\ x \notin below[x]
    /\ \A x, y \in S : x # y => x \in below[y] \/ y \in below[x]
    /\ \A x, y \in S : x \in below[y] => below[x] \subseteq below[y]

LEMMA RanksOrder ==
    ASSUME NEW S, IsFiniteSet(S), NEW below, Orders(below, S)
    PROVE  /\ \A x \in S : Cardinality(below[x]) \in 0..(Cardinality(S) - 1)
           /\ \A x, y \in S : x \in below[y] => Cardinality(below[x]) < Cardinality(below[y])
<1>1. \A T \in SUBSET S : IsFiniteSet(T) /\ Cardinality(T) \in Nat
    BY FS_Subset, FS_CardinalityType
<1>2. ASSUME NEW T \in SUBSET S, NEW U \in SUBSET T, NEW z \in T, z \notin U
      PROVE  Cardinality(U) < Cardinality(T)
    <2>1. IsFiniteSet(T) /\ Cardinality(T) \in Nat /\ Cardinality(U) \in Nat
        BY <1>1
    <2>2. Cardinality(U) <= Cardinality(T) /\ (Cardinality(T) = Cardinality(U) => T = U)
        BY <2>1, FS_Subset
    <2> QED BY <1>2, <2>1, <2>2
<1>3. ASSUME NEW x \in S PROVE Cardinality(below[x]) \in 0..(Cardinality(S) - 1)
    <2>1. below[x] \in SUBSET S /\ x \notin below[x]
        BY DEF Orders
    <2>2. Cardinality(below[x]) < Cardinality(S)
        BY <1>2, <2>1
    <2> QED BY <1>1, <2>1, <2>2
<1>4. ASSUME NEW x \in S, NEW y \in S, x \in below[y]
      PROVE  Cardinality(below[x]) < Cardinality(below[y])
    <2>1. below[y] \in SUBSET S /\ below[x] \in SUBSET below[y] /\ x \notin below[x]
        BY <1>4 DEF Orders
    <2> QED BY <1>2, <1>4, <2>1
<1> QED BY <1>3, <1>4

\* The ranks are different, so that each is taken.
LEMMA RankTaken ==
    ASSUME NEW S, IsFiniteSet(S), NEW below, Orders(below, S),
           NEW i \in 1..Cardinality(S)
    PROVE  \E x \in S : Cardinality(below[x]) = i - 1
<1> DEFINE rank == [x \in S |-> Cardinality(below[x])]
           T == 0..(Cardinality(S) - 1)
<1>1. Cardinality(S) \in Nat
    BY FS_CardinalityType
<1>2. rank \in Injection(S, T)
    <2>1. rank \in [S -> T]
        BY RanksOrder
    <2>2. ASSUME NEW x \in S, NEW y \in S, rank[x] = rank[y] PROVE x = y
        <3>1. x \in below[y] => Cardinality(below[x]) < Cardinality(below[y])
            BY RanksOrder
        <3>2. y \in below[x] => Cardinality(below[y]) < Cardinality(below[x])
            BY RanksOrder
        <3>3. Cardinality(below[x]) \in Nat /\ Cardinality(below[y]) \in Nat
            BY <1>1, RanksOrder
        <3> QED BY <2>2, <3>1, <3>2, <3>3 DEF Orders
    <2> QED BY <2>1, <2>2 DEF Injection, IsInjective
<1>3. IsFiniteSet(T) /\ Cardinality(T) = Cardinality(S)
    <2> DEFINE n == Cardinality(S)
               m == n - 1
    <2>1. n \in Nat /\ m \in Int /\ 0 \in Int /\ m = n - 1
        BY <1>1
    <2> HIDE DEF n, m
    <2>2. IsFiniteSet(0..m) /\ Cardinality(0..m) = IF 0 > m THEN 0 ELSE m - 0 + 1
        BY <2>1, FS_Interval
    <2>3. Cardinality(0..m) = n
        BY <2>1, <2>2
    <2> QED BY <2>2, <2>3 DEF m, n
<1>4. rank \in Surjection(S, T)
    BY <1>2, <1>3, FS_Injection
<1>5. i - 1 \in T
    BY <1>1
<1> QED BY <1>4, <1>5 DEF Surjection

\* r lists S in its order.
Lists(r, S, below) ==
    /\ DOMAIN r = 1..Cardinality(S) /\ Cardinality(S) \in Nat
    /\ \A i \in DOMAIN r : r[i] \in S
    /\ \A x \in S : \E i \in DOMAIN r : r[i] = x
    /\ \A i, j \in DOMAIN r : i # j => r[i] # r[j]
    /\ \A i, j \in DOMAIN r : r[i] \in below[r[j]] <=> i < j

LEMMA RankedLists ==
    ASSUME NEW S, IsFiniteSet(S), NEW below, Orders(below, S),
           NEW r, DOMAIN r = 1..Cardinality(S),
           \A i \in DOMAIN r : r[i] = CHOOSE x \in S : Cardinality(below[x]) = i - 1
    PROVE  Lists(r, S, below)
<1>1. Cardinality(S) \in Nat
    BY FS_CardinalityType
<1>2. ASSUME NEW i \in DOMAIN r
      PROVE  r[i] \in S /\ Cardinality(below[r[i]]) = i - 1 /\ i \in Int
    BY RankTaken
<1>3. ASSUME NEW i \in DOMAIN r, NEW j \in DOMAIN r
      PROVE  /\ i # j => r[i] # r[j]
             /\ r[i] \in below[r[j]] <=> i < j
    <2>1. i # j => r[i] # r[j]
        BY <1>2
    <2>2. r[i] \in below[r[j]] => i < j
        <3>1. r[i] \in below[r[j]] => Cardinality(below[r[i]]) < Cardinality(below[r[j]])
            BY <1>2, RanksOrder
        <3> QED BY <1>2, <3>1
    <2>3. r[j] \in below[r[i]] => j < i
        <3>1. r[j] \in below[r[i]] => Cardinality(below[r[j]]) < Cardinality(below[r[i]])
            BY <1>2, RanksOrder
        <3> QED BY <1>2, <3>1
    <2>4. i < j => r[i] # r[j] /\ ~(j < i)
        BY <1>2, <2>1
    <2> QED BY <1>2, <2>1, <2>2, <2>3, <2>4 DEF Orders
<1>4. ASSUME NEW x \in S PROVE \E i \in DOMAIN r : r[i] = x
    <2> DEFINE i == Cardinality(below[x]) + 1
    <2>1. Cardinality(below[x]) \in 0..(Cardinality(S) - 1)
        BY RanksOrder
    <2>2. i \in DOMAIN r /\ i - 1 = Cardinality(below[x])
        BY <1>1, <2>1
    <2> HIDE DEF i
    <2>3. r[i] \in S /\ Cardinality(below[r[i]]) = Cardinality(below[x])
        BY <1>2, <2>2
    <2>4. Cardinality(below[x]) \in Nat
        BY <1>1, <2>1
    <2>5. r[i] = x
        <3>1. r[i] \in below[x] => Cardinality(below[r[i]]) < Cardinality(below[x])
            BY <2>3, RanksOrder
        <3>2. x \in below[r[i]] => Cardinality(below[x]) < Cardinality(below[r[i]])
            BY <2>3, RanksOrder
        <3> QED BY <2>3, <2>4, <3>1, <3>2 DEF Orders
    <2> QED BY <2>2, <2>5
<1> QED BY <1>1, <1>2, <1>3, <1>4 DEF Lists

\* What the order of numbers says.
LEMMA NumbersOrder ==
    ASSUME NEW S \in SUBSET Int
    PROVE  Orders([x \in S |-> {y \in S : y < x}], S)
<1> DEFINE below == [x \in S |-> {y \in S : y < x}]
<1>1. \A x, y \in S : y \in below[x] <=> y < x
    OBVIOUS
<1>2. \A x \in S : below[x] \subseteq S /\ x \in Int
    OBVIOUS
<1> HIDE DEF below
<1>3. \A x \in S : x \notin below[x]
    BY <1>1, <1>2
<1>4. ASSUME NEW x \in S, NEW y \in S PROVE x # y => x \in below[y] \/ y \in below[x]
    <2>1. x \in Int /\ y \in Int /\ (x \in below[y] <=> x < y) /\ (y \in below[x] <=> y < x)
        BY <1>1, <1>2
    <2> QED BY <2>1
<1>5. ASSUME NEW x \in S, NEW y \in S, x \in below[y], NEW z \in below[x] PROVE z \in below[y]
    <2>1. z \in S /\ x \in Int /\ y \in Int
        BY <1>2
    <2>2. z \in Int /\ z < x /\ x < y
        BY <1>1, <1>2, <1>5, <2>1
    <2> QED BY <1>1, <2>1, <2>2
<1>6. Orders(below, S)
    BY <1>2, <1>3, <1>4, <1>5 DEF Orders
<1> QED BY <1>6 DEF below

\* k holds the elements of s that are in S, in their order: at says where.
KeptAt(k, s, S, at) ==
    /\ Len(k) \in Nat /\ DOMAIN k = 1..Len(k) /\ at \in [DOMAIN k -> DOMAIN s]
    /\ \A i \in DOMAIN k : k[i] = s[at[i]] /\ k[i] \in S
    /\ \A i, j \in DOMAIN k : i # j => at[i] # at[j]
    /\ \A i \in DOMAIN s : s[i] \in S => \E j \in DOMAIN k : at[j] = i

LEMMA KeepKeeps ==
    ASSUME NEW V, NEW s \in Seq(V), NEW S
    PROVE  Keep(s, S) \in Seq(V) /\ \E at : KeptAt(Keep(s, S), s, S, at)
<1> DEFINE U == {i \in DOMAIN s : s[i] \in S}
           below == [x \in U |-> {y \in U : y < x}]
           at == Ranked(U, <)
           k == Keep(s, S)
<1>1. U \in SUBSET Int /\ IsFiniteSet(U) /\ U \subseteq DOMAIN s
    <2>1. DOMAIN s = 1..Len(s) /\ Len(s) \in Nat
        OBVIOUS
    <2>2. IsFiniteSet(1..Len(s))
        BY <2>1, FS_Interval
    <2> QED BY <2>1, <2>2, FS_Subset
<1>2. Orders(below, U)
    BY <1>1, NumbersOrder
<1>3. DOMAIN at = 1..Cardinality(U)
    BY DEF Ranked
<1>4. \A i \in DOMAIN at : at[i] = CHOOSE x \in U : Cardinality(below[x]) = i - 1
    BY DEF Ranked
<1>5. k = [i \in DOMAIN at |-> s[at[i]]]
    BY DEF Keep
<1> HIDE DEF below, at, k
<1>6. Lists(at, U, below)
    BY <1>1, <1>2, <1>3, <1>4, RankedLists
<1> DEFINE n == Cardinality(U)
<1>7. DOMAIN at = 1..n /\ n \in Nat
    BY <1>6 DEF Lists
<1>8. ASSUME NEW i \in 1..n PROVE at[i] \in U /\ k[i] = s[at[i]] /\ k[i] \in S /\ k[i] \in V
    <2>1. at[i] \in U
        BY <1>6, <1>7 DEF Lists
    <2> QED BY <1>5, <1>7, <2>1
<1>9. k \in Seq(V) /\ Len(k) = n /\ DOMAIN k = 1..n
    <2> HIDE DEF n, U
    <2>1. k = [i \in 1..n |-> s[at[i]]] /\ \A i \in 1..n : s[at[i]] \in V
        BY <1>5, <1>7, <1>8
    <2> QED BY <1>7, <2>1
<1>10. k = [i \in 1..n |-> s[at[i]]]
    BY <1>5, <1>7
<1> DEFINE to == [i \in 1..n |-> at[i]]
<1>11. KeptAt(k, s, S, to)
    <2>1. \A i \in 1..n : to[i] = at[i]
        OBVIOUS
    <2>2. to \in [1..n -> DOMAIN s]
        BY <1>1, <1>8
    <2>3. \A i, j \in 1..n : i # j => to[i] # to[j]
        BY <1>6, <1>7, <2>1 DEF Lists
    <2>4. ASSUME NEW i \in DOMAIN s, s[i] \in S PROVE \E j \in 1..n : to[j] = i
        <3>1. i \in U
            BY <2>4
        <3>2. PICK j \in 1..n : at[j] = i
            BY <1>6, <1>7, <3>1 DEF Lists
        <3> QED BY <2>1, <3>2
    <2> HIDE DEF to
    <2> QED BY <1>7, <1>8, <1>9, <2>1, <2>2, <2>3, <2>4 DEF KeptAt
<1> QED BY <1>9, <1>11 DEF k

-----------------------------------------------------------------------------
(* Recursion down a level *)

\* What all lower levels pass on to the next, every element has.
LEMMA LevelInduction ==
    ASSUME NEW S, NEW level \in [S -> Nat], NEW good,
           ASSUME NEW x \in S, \A y \in S : level[y] < level[x] => y \in good
           PROVE  x \in good
    PROVE  \A x \in S : x \in good
<1> SUFFICES ASSUME NEW z \in S, z \notin good PROVE FALSE
    OBVIOUS
<1> DEFINE bad == {level[x] : x \in {y \in S : y \notin good}}
<1>1. bad \subseteq Nat /\ bad # {}
    OBVIOUS
<1>2. PICK k \in bad : \A y \in bad : k <= y
    BY <1>1, NatLeast
<1>3. PICK x \in S : x \notin good /\ level[x] = k
    BY <1>2
<1>4. ASSUME NEW y \in S, level[y] < level[x] PROVE y \in good
    <2>1. y \notin good => level[x] <= level[y]
        BY <1>2, <1>3
    <2> QED BY <1>4, <2>1
<1> QED BY <1>3, <1>4

\* What the value at x is made of is below x.
Descends(step, level, S, V) ==
    \A x \in S : \A f, g \in [S -> V] :
        (\A y \in S : level[y] < level[x] => f[y] = g[y]) => step[<<x, f>>] = step[<<x, g>>]

Recurs(f, step, S, V) == f \in [S -> V] /\ \A x \in S : f[x] = step[<<x, f>>]

\* A function on S that is defined from its values at lower levels exists.
LEMMA LevelRecursion ==
    ASSUME NEW S, NEW V, NEW N \in Nat, NEW level \in [S -> 0..N],
           NEW step \in [S \X [S -> V] -> V], Descends(step, level, S, V), V # {}
    PROVE  \E f : Recurs(f, step, S, V)
<1> DEFINE Below(k, f) == \A x \in S : level[x] < k => f[x] = step[<<x, f>>]
           good == {k \in Nat : \E f \in [S -> V] : Below(k, f)}
<1>1. ASSUME NEW k \in Nat, \A j \in Nat : j < k => j \in good PROVE k \in good
    <2>1. CASE k = 0
        <3>1. PICK v \in V : TRUE
            OBVIOUS
        <3>2. [x \in S |-> v] \in [S -> V] /\ \A x \in S : ~(level[x] < 0)
            OBVIOUS
        <3> QED BY <2>1, <3>2
    <2>2. CASE k # 0
        <3>1. k - 1 \in Nat /\ k - 1 < k
            BY <2>2
        <3>2. PICK f \in [S -> V] : Below(k - 1, f)
            BY <1>1, <3>1
        <3> DEFINE g == [x \in S |-> step[<<x, f>>]]
        <3>3. g \in [S -> V]
            OBVIOUS
        <3>4. ASSUME NEW x \in S, level[x] < k - 1 PROVE g[x] = f[x]
            BY <3>2, <3>4
        <3>5. ASSUME NEW x \in S, level[x] < k PROVE g[x] = step[<<x, g>>]
            <4>1. g[x] = step[<<x, f>>]
                OBVIOUS
            <4> HIDE DEF g
            <4>2. \A y \in S : level[y] < level[x] => f[y] = g[y]
                BY <3>1, <3>4, <3>5
            <4>3. step[<<x, f>>] = step[<<x, g>>]
                BY <3>3, <4>2 DEF Descends
            <4> QED BY <4>1, <4>3
        <3> HIDE DEF g
        <3>6. Below(k, g)
            BY <3>5
        <3> QED BY <3>3, <3>6
    <2> QED BY <2>1, <2>2
<1>2. \A k \in Nat : k \in good
    <2> HIDE DEF good
    <2> DEFINE bad == {k \in Nat : k \notin good}
    <2>1. ASSUME NEW k \in bad, \A j \in bad : k <= j PROVE FALSE
        <3>1. k \in Nat /\ k \notin good
            OBVIOUS
        <3>2. ASSUME NEW j \in Nat, j < k PROVE j \in good
            <4>1. j \notin good => k <= j
                BY <2>1
            <4> QED BY <3>1, <3>2, <4>1
        <3> QED BY <1>1, <3>1, <3>2
    <2>2. bad = {}
        <3>1. bad \subseteq Nat
            OBVIOUS
        <3> HIDE DEF bad
        <3>2. ASSUME bad # {} PROVE FALSE
            <4>1. PICK k \in bad : \A j \in bad : k <= j
                BY <3>1, <3>2, NatLeast
            <4> QED BY <2>1, <4>1
        <3> QED BY <3>2
    <2> QED BY <2>2
<1>3. PICK f \in [S -> V] : Below(N + 1, f)
    <2>1. N + 1 \in Nat
        OBVIOUS
    <2>2. N + 1 \in good
        BY <1>2, <2>1
    <2> QED BY <2>2
<1>4. \A x \in S : level[x] < N + 1
    OBVIOUS
<1> QED BY <1>3, <1>4 DEF Recurs

\* What is not negative adds up to no less than each summand.
LEMMA SumBounds ==
    ASSUME NEW U, IsFiniteSet(U), NEW w \in [U -> Int], \A x \in U : w[x] >= 0,
           NEW h, IsSum(h, w, U)
    PROVE  /\ \A s \in SUBSET U : h[s] >= 0
           /\ \A x \in U : w[x] <= h[U]
<1> DEFINE good == {s \in SUBSET U : h[s] >= 0}
<1>1. h \in [SUBSET U -> Int] /\ h[{}] = 0
    BY DEF IsSum
<1>2. ASSUME NEW s \in SUBSET U, \A x \in s : s \ {x} \in good PROVE s \in good
    <2>1. CASE s = {}
        BY <1>1, <2>1
    <2>2. CASE s # {}
        <3>1. PICK x \in s : TRUE
            BY <2>2
        <3>2. h[s] = w[x] + h[s \ {x}] /\ w[x] >= 0 /\ w[x] \in Int
            BY <3>1 DEF IsSum
        <3>3. s \ {x} \in SUBSET U /\ h[s \ {x}] >= 0 /\ h[s \ {x}] \in Int
            BY <1>1, <1>2, <3>1
        <3>4. h[s] >= 0
            BY <3>2, <3>3
        <3> QED BY <3>4
    <2> QED BY <2>1, <2>2
<1>3. \A s \in SUBSET U : s \in good
    <2> HIDE DEF good
    <2> QED BY <1>2, SubsetInduction
<1>4. ASSUME NEW x \in U PROVE w[x] <= h[U]
    <2>1. h[U] = w[x] + h[U \ {x}] /\ U \ {x} \in SUBSET U
        BY DEF IsSum
    <2>2. h[U \ {x}] >= 0 /\ h[U \ {x}] \in Int /\ w[x] \in Int
        BY <1>1, <1>3, <2>1
    <2> QED BY <2>1, <2>2
<1> QED BY <1>3, <1>4

=============================================================================
