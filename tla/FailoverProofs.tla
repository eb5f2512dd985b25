--------------------------- MODULE FailoverProofs ---------------------------
(***************************************************************************)
(* What the route plans of internal/failover promise, for all numbers of   *)
(* users and accounts: the folds of Planner are taken apart by induction   *)
(* over the users in their order, and FailoverControl follows from what    *)
(* the plans are and from how old the quota behind them is.                *)
(***************************************************************************)
EXTENDS FailoverControl, PlannerCases, InductionLemmas, FiniteSetTheorems

-----------------------------------------------------------------------------
(* First members of finite sets *)

\* A finite set without one of its members.
LEMMA OneLess ==
  ASSUME NEW S, IsFiniteSet(S), NEW x \in S
  PROVE  /\ IsFiniteSet(S \ {x}) /\ Cardinality(S \ {x}) = Cardinality(S) - 1
         /\ Cardinality(S) \in Nat /\ Cardinality(S) > 0
<1>1. IsFiniteSet(S \ {x}) /\ Cardinality(S \ {x}) = Cardinality(S) - 1
  BY FS_RemoveElement
<1>2. Cardinality(S) \in Nat /\ Cardinality(S \ {x}) \in Nat
  BY <1>1, FS_CardinalityType
<1> QED
  BY <1>1, <1>2

Total(S, R) == \A a, b \in S : a # b => <<a, b>> \in R \/ <<b, a>> \in R
Transitive(S, R) ==
    \A a, b, c \in S : a # c /\ <<a, b>> \in R /\ <<b, c>> \in R => <<a, c>> \in R
IsFirst(S, R, a) == a \in S /\ \A b \in S \ {a} : <<a, b>> \in R

\* A finite set that an order puts in a row has a first member.
LEMMA FirstOf ==
  ASSUME NEW S, IsFiniteSet(S), S # {}, NEW R, Total(S, R), Transitive(S, R)
  PROVE  \E a : IsFirst(S, R, a)
<1> DEFINE First(s) == \E a \in s : \A b \in s \ {a} : <<a, b>> \in R
<1> DEFINE P == {n \in Nat : \A s \in SUBSET S : s # {} /\ Cardinality(s) = n => First(s)}
<1>0. \A s \in SUBSET S : IsFiniteSet(s) /\ Cardinality(s) \in Nat
  BY FS_Subset, FS_CardinalityType
<1>1. 0 \in P
  BY <1>0, FS_EmptySet
<1>2. \A n \in Nat : n \in P => n + 1 \in P
  <2> SUFFICES ASSUME NEW n \in Nat, n \in P,
                      NEW s \in SUBSET S, s # {}, Cardinality(s) = n + 1
               PROVE  First(s)
    <3> HIDE DEF First
    <3> QED
      OBVIOUS
  <2>1. PICK x \in s : TRUE
    OBVIOUS
  <2> DEFINE r == s \ {x}
  <2>2. r \in SUBSET S /\ Cardinality(r) = n
    BY <1>0, OneLess
  <2>3. CASE r = {}
    BY <2>3
  <2>4. CASE r # {}
    <3>1. PICK m \in r : \A b \in r \ {m} : <<m, b>> \in R
      BY <2>2, <2>4
    <3>2. CASE <<m, x>> \in R
      BY <3>1, <3>2
    <3>3. CASE <<x, m>> \in R
      <4>1. \A b \in s \ {x} : <<x, b>> \in R
        BY <3>1, <3>3 DEF Transitive
      <4> QED
        BY <4>1
    <3> QED
      BY <3>2, <3>3 DEF Total
  <2> QED
    BY <2>3, <2>4
<1>3. Cardinality(S) \in P
  <2> HIDE DEF P
  <2>1. Nat \subseteq P
    BY <1>1, <1>2, InductionOverNat
  <2> QED
    BY <1>0, <2>1
<1> QED
  BY <1>3 DEF IsFirst

\* The greatest name of a finite set is in it, and no name is greater.
LEMMA GreatestIn ==
  ASSUME NEW S, IsFiniteSet(S), S # {}, S \subseteq Nat
  PROVE  Greatest(S) \in S /\ \A y \in S : y <= Greatest(S)
<1> DEFINE R == {p \in S \X S : p[2] <= p[1]}
<1>1. \A a, b \in S : <<a, b>> \in R <=> b <= a
  OBVIOUS
<1> HIDE DEF R
<1>2. Total(S, R)
  BY <1>1 DEF Total
<1>3. Transitive(S, R)
  BY <1>1 DEF Transitive
<1>4. PICK a : IsFirst(S, R, a)
  BY <1>2, <1>3, FirstOf
<1>5. a \in S /\ \A b \in S \ {a} : <<a, b>> \in R
  BY <1>4 DEF IsFirst
<1>6. ASSUME NEW b \in S PROVE b <= a
  <2>1. CASE b = a
    BY <1>5, <2>1
  <2>2. CASE b # a
    BY <1>1, <1>5, <2>2
  <2> QED
    BY <2>1, <2>2
<1>7. \E x \in S : \A y \in S : y <= x
  BY <1>5, <1>6
<1> QED
  BY <1>7, Zenon DEF Greatest

\* The least name of a set is in it.
LEMMA LeastIn ==
  ASSUME NEW S, S # {}, S \subseteq Nat
  PROVE  Least(S) \in S
<1>1. \E a \in S : \A b \in S : a <= b
  BY LeastOf
<1> QED
  BY <1>1, Zenon DEF Least

-----------------------------------------------------------------------------
(* Folds over a finite set of names *)

\* One round of the recursion of InOrder, with the step as a function.
Round(S, start, step, f) ==
    [s \in SUBSET S |-> IF s = {} THEN start
                        ELSE step[<<f[s \ {Greatest(s)}], Greatest(s)>>]]

\* Without its greatest member a set of names is smaller by one.
LEMMA WithoutGreatest ==
  ASSUME NEW S, IsFiniteSet(S), S \subseteq Nat, NEW s \in SUBSET S, s # {}
  PROVE  /\ Greatest(s) \in s /\ s \ {Greatest(s)} \in SUBSET S
         /\ Cardinality(s \ {Greatest(s)}) = Cardinality(s) - 1
<1>1. IsFiniteSet(s) /\ s \subseteq Nat
  BY FS_Subset
<1>2. Greatest(s) \in s
  BY <1>1, GreatestIn
<1> QED
  BY <1>1, <1>2, OneLess

Foldable(S, D, start, step) ==
    /\ IsFiniteSet(S) /\ S \subseteq Nat
    /\ start \in D /\ step \in [D \X S -> D]
IsFold(f, S, D, start, step) == f \in [SUBSET S -> D] /\ f = Round(S, start, step, f)

\* A step that stays among the values D can be folded over any finite set.
LEMMA FoldExists ==
  ASSUME NEW S, NEW D, NEW start, NEW step, Foldable(S, D, start, step)
  PROVE  \E f : IsFold(f, S, D, start, step)
<1> USE DEF Foldable
<1> DEFINE Card(s) == Cardinality(s)
<1> DEFINE Good(f, n) == \A s \in SUBSET S : Card(s) <= n => f[s] = Round(S, start, step, f)[s]
<1> DEFINE P == {n \in Nat : \E f \in [SUBSET S -> D] : Good(f, n)}
<1>0. \A s \in SUBSET S : IsFiniteSet(s) /\ Card(s) \in Nat /\ Card(s) <= Card(S)
  BY FS_Subset, FS_CardinalityType
<1>1. 0 \in P
  <2> DEFINE f == [s \in SUBSET S |-> start]
  <2>1. f \in [SUBSET S -> D]
    OBVIOUS
  <2>2. Good(f, 0)
    <3> SUFFICES ASSUME NEW s \in SUBSET S, Card(s) <= 0
                 PROVE  f[s] = Round(S, start, step, f)[s]
      OBVIOUS
    <3>1. s = {}
      BY <1>0, FS_EmptySet
    <3> QED
      BY <3>1 DEF Round
  <2> HIDE DEF f, Good
  <2> QED
    BY <2>1, <2>2
<1>2. \A n \in Nat : n \in P => n + 1 \in P
  <2> SUFFICES ASSUME NEW n \in P PROVE n + 1 \in P
    OBVIOUS
  <2>1. PICK f \in [SUBSET S -> D] : Good(f, n)
    OBVIOUS
  <2> DEFINE g == Round(S, start, step, f)
  <2>2. g \in [SUBSET S -> D]
    <3>1. ASSUME NEW s \in SUBSET S, s # {}
          PROVE  step[<<f[s \ {Greatest(s)}], Greatest(s)>>] \in D
      <4>1. Greatest(s) \in S /\ s \ {Greatest(s)} \in SUBSET S
        BY <3>1, WithoutGreatest
      <4>2. <<f[s \ {Greatest(s)}], Greatest(s)>> \in D \X S
        BY <4>1
      <4> QED
        BY <4>2
    <3> QED
      BY <3>1 DEF Round
  <2>3. Good(g, n + 1)
    <3> SUFFICES ASSUME NEW s \in SUBSET S, Card(s) <= n + 1
                 PROVE  g[s] = Round(S, start, step, g)[s]
      OBVIOUS
    <3>2. CASE s = {}
      BY <3>2 DEF Round
    <3>3. CASE s # {}
      <4> DEFINE r == s \ {Greatest(s)}
      <4>1. r \in SUBSET S /\ Card(r) = Card(s) - 1
        BY <3>3, WithoutGreatest
      <4>2. Card(r) <= n
        BY <1>0, <4>1
      <4>3. g[r] = f[r]
        BY <2>1, <4>1, <4>2
      <4>4. /\ Round(S, start, step, f)[s] = step[<<f[r], Greatest(s)>>]
            /\ Round(S, start, step, g)[s] = step[<<g[r], Greatest(s)>>]
        <5> HIDE DEF g
        <5> QED
          BY <3>3 DEF Round
      <4> QED
        BY <4>3, <4>4
    <3> QED
      BY <3>2, <3>3
  <2>4. n + 1 \in Nat
    OBVIOUS
  <2> HIDE DEF g, Good
  <2> QED
    BY <2>2, <2>3, <2>4
<1>3. Card(S) \in P
  <2> HIDE DEF P
  <2>1. Nat \subseteq P
    BY <1>1, <1>2, InductionOverNat
  <2> QED
    BY <1>0, <2>1
<1>4. PICK f \in [SUBSET S -> D] : Good(f, Card(S))
  BY <1>3
<1>5. \A s \in SUBSET S : f[s] = Round(S, start, step, f)[s]
  BY <1>0, <1>4
<1>6. f = Round(S, start, step, f)
  BY <1>5 DEF Round
<1> QED
  BY <1>6 DEF IsFold

\* What holds of no names, and of a set of names when it holds of the set
\* without the greatest, holds of them all.
LEMMA InductionInOrder ==
  ASSUME NEW S, IsFiniteSet(S), S \subseteq Nat, NEW Good, {} \in Good,
         \A s \in SUBSET S : s # {} /\ s \ {Greatest(s)} \in Good => s \in Good
  PROVE  SUBSET S \subseteq Good
<1> DEFINE P == {n \in Nat : \A s \in SUBSET S : Cardinality(s) = n => s \in Good}
<1>0. \A s \in SUBSET S : IsFiniteSet(s) /\ Cardinality(s) \in Nat
  BY FS_Subset, FS_CardinalityType
<1>1. 0 \in P
  BY <1>0, FS_EmptySet
<1>2. \A n \in Nat : n \in P => n + 1 \in P
  <2> SUFFICES ASSUME NEW n \in Nat, n \in P, NEW s \in SUBSET S, Cardinality(s) = n + 1
               PROVE  s \in Good
    OBVIOUS
  <2>1. s # {}
    <3> HIDE DEF P
    <3>1. n + 1 # 0
      OBVIOUS
    <3> QED
      BY <3>1, FS_EmptySet, Zenon
  <2>2. s \ {Greatest(s)} \in SUBSET S /\ Cardinality(s \ {Greatest(s)}) = Cardinality(s) - 1
    <3> HIDE DEF P
    <3> QED
      BY <2>1, WithoutGreatest, Zenon
  <2>3. Cardinality(s \ {Greatest(s)}) = n
    <3> HIDE DEF P
    <3> QED
      BY <2>2
  <2> QED
    BY <2>1, <2>2, <2>3
<1>3. Nat \subseteq P
  <2> HIDE DEF P
  <2> QED
    BY <1>1, <1>2, InductionOverNat
<1> QED
  BY <1>0, <1>3

-----------------------------------------------------------------------------
(* The least weighted account *)

\* Multiplying by a positive number keeps the order.
LEMMA MulLe ==
  ASSUME NEW i \in Nat, NEW j \in Nat, NEW k \in Nat, k > 0
  PROVE  i <= j <=> i * k <= j * k
OBVIOUS

\* The order of the factors does not matter.
LEMMA MulSwap ==
  ASSUME NEW i \in Nat, NEW j \in Nat, NEW k \in Nat
  PROVE  i * j * k = i * k * j /\ i * j \in Nat /\ i * j * k \in Nat
OBVIOUS

\* Fractions compared by cross-multiplication are in order.
LEMMA CrossLe ==
  ASSUME NEW x1 \in Nat, NEW x2 \in Nat, NEW x3 \in Nat,
         NEW h1 \in Nat, NEW h2 \in Nat, NEW h3 \in Nat, h1 > 0, h2 > 0, h3 > 0,
         x1 * h2 <= x2 * h1, x2 * h3 <= x3 * h2
  PROVE  x1 * h3 <= x3 * h1
<1>0. /\ x1 * h2 \in Nat /\ x2 * h1 \in Nat /\ x2 * h3 \in Nat
      /\ x3 * h2 \in Nat /\ x1 * h3 \in Nat /\ x3 * h1 \in Nat
  BY MulSwap
<1>1. x1 * h2 * h3 <= x2 * h1 * h3
  BY <1>0, MulLe
<1>2. x2 * h3 * h1 <= x3 * h2 * h1
  BY <1>0, MulLe
<1>3. /\ x1 * h3 * h2 = x1 * h2 * h3 /\ x2 * h1 * h3 = x2 * h3 * h1
      /\ x3 * h2 * h1 = x3 * h1 * h2
  BY MulSwap
<1>4. x1 * h3 * h2 <= x3 * h1 * h2
  <2>1. x1 * h2 * h3 \in Nat /\ x2 * h1 * h3 \in Nat /\ x3 * h2 * h1 \in Nat
    BY MulSwap
  <2> QED
    BY <1>1, <1>2, <1>3, <2>1
<1> QED
  BY <1>0, <1>4, MulLe

\* Accounts that may be compared: weights are fractions with headroom below.
Comparable(C, counts, states) ==
    /\ IsFiniteSet(C) /\ C \subseteq Nat
    /\ counts \in [C -> Nat]
    /\ \A a \in C : /\ states[a].headroom \in Nat /\ states[a].headroom > 0
                     /\ states[a].used \in Int

\* The weight of the next user of a, as the numerator against b's headroom.
Weigh(a, b, counts, states) == (counts[a] + 1) * states[b].headroom

\* Weights are numbers, and being at most as heavy is transitive.
LEMMA WeighOrder ==
  ASSUME NEW C, NEW counts, NEW states, Comparable(C, counts, states),
         NEW a \in C, NEW b \in C, NEW c \in C
  PROVE  /\ Weigh(a, b, counts, states) \in Nat
         /\ Weigh(a, b, counts, states) <= Weigh(b, a, counts, states)
                /\ Weigh(b, c, counts, states) <= Weigh(c, b, counts, states)
            => Weigh(a, c, counts, states) <= Weigh(c, a, counts, states)
<1> DEFINE x(i) == counts[i] + 1
<1> DEFINE h(i) == states[i].headroom
<1>1. \A i \in C : x(i) \in Nat /\ h(i) \in Nat /\ h(i) > 0
  BY DEF Comparable
<1>2. \A i, j \in C : Weigh(i, j, counts, states) = x(i) * h(j)
  BY DEF Weigh
<1> HIDE DEF x, h
<1>3. Weigh(a, b, counts, states) \in Nat
  BY <1>1, <1>2, MulSwap
<1>4. ASSUME Weigh(a, b, counts, states) <= Weigh(b, a, counts, states),
             Weigh(b, c, counts, states) <= Weigh(c, b, counts, states)
      PROVE  Weigh(a, c, counts, states) <= Weigh(c, a, counts, states)
  <2>1. x(a) * h(b) <= x(b) * h(a) /\ x(b) * h(c) <= x(c) * h(b)
    BY <1>2, <1>4
  <2>2. x(a) * h(c) <= x(c) * h(a)
    BY <1>1, <2>1, CrossLe
  <2> QED
    BY <1>2, <2>2
<1> QED
  BY <1>3, <1>4

\* LeastWeightedAccount finds one: a candidate that weighs less than every
\* other, by its load, then the percentage used, then the name.
LEMMA LeastWeightedIn ==
  ASSUME NEW C, NEW counts, NEW states, Comparable(C, counts, states), C # {}
  PROVE  /\ LeastWeightedAccount(C, counts, states) \in C
         /\ \A b \in C \ {LeastWeightedAccount(C, counts, states)} :
               WeightedLess(LeastWeightedAccount(C, counts, states), b, counts, states)
<1> DEFINE w(a, b) == Weigh(a, b, counts, states)
<1> DEFINE less(a, b) == WeightedLess(a, b, counts, states)
<1> DEFINE R == {p \in C \X C : less(p[1], p[2])}
<1>0. \A a, b \in C : <<a, b>> \in R <=> less(a, b)
  <2> HIDE DEF less
  <2> QED
    OBVIOUS
<1>1. ASSUME NEW a \in C, NEW b \in C, NEW c \in C
      PROVE  /\ w(a, b) \in Nat
             /\ w(a, b) <= w(b, a) /\ w(b, c) <= w(c, b) => w(a, c) <= w(c, a)
  BY WeighOrder
<1>2. \A a, b \in C : less(a, b) <=>
        \/ w(a, b) < w(b, a)
        \/ w(a, b) = w(b, a) /\ states[a].used < states[b].used
        \/ w(a, b) = w(b, a) /\ states[a].used = states[b].used /\ a < b
  BY DEF WeightedLess, Weigh
<1>3. \A a \in C : a \in Nat /\ states[a].used \in Int
  BY DEF Comparable
<1> HIDE DEF less, R
<1>4. Total(C, R)
  <2> SUFFICES ASSUME NEW a \in C, NEW b \in C, a # b PROVE less(a, b) \/ less(b, a)
    BY <1>0 DEF Total
  <2> QED
    BY <1>1, <1>2, <1>3
<1>5. Transitive(C, R)
  <2> SUFFICES ASSUME NEW a \in C, NEW b \in C, NEW c \in C, less(a, b), less(b, c)
               PROVE  less(a, c)
    BY <1>0 DEF Transitive
  <2>1. /\ w(a, b) \in Nat /\ w(b, a) \in Nat /\ w(b, c) \in Nat
        /\ w(c, b) \in Nat /\ w(a, c) \in Nat /\ w(c, a) \in Nat
    BY <1>1
  <2>2. w(a, b) <= w(b, a) /\ w(b, c) <= w(c, b) => w(a, c) <= w(c, a)
    BY <1>1
  <2>3. w(b, c) <= w(c, b) /\ w(c, a) <= w(a, c) => w(b, a) <= w(a, b)
    BY <1>1
  <2>4. w(c, a) <= w(a, c) /\ w(a, b) <= w(b, a) => w(c, b) <= w(b, c)
    BY <1>1
  <2>5. w(a, b) <= w(b, a) /\ w(b, c) <= w(c, b)
    BY <1>2, <2>1
  <2>6. CASE w(a, b) < w(b, a) \/ w(b, c) < w(c, b)
    <3>1. w(a, c) < w(c, a)
      BY <2>1, <2>2, <2>3, <2>4, <2>5, <2>6
    <3> QED
      BY <1>2, <3>1
  <2>7. CASE w(a, b) = w(b, a) /\ w(b, c) = w(c, b)
    <3>1. w(c, b) <= w(b, c) /\ w(b, a) <= w(a, b)
      BY <2>1, <2>7
    <3>2. w(c, a) <= w(a, c)
      BY <1>1, <3>1
    <3>3. w(a, c) = w(c, a)
      BY <2>1, <2>2, <2>5, <3>2
    <3>4. \/ states[a].used < states[b].used
          \/ states[a].used = states[b].used /\ a < b
      BY <1>2, <2>1, <2>7
    <3>5. \/ states[b].used < states[c].used
          \/ states[b].used = states[c].used /\ b < c
      BY <1>2, <2>1, <2>7
    <3>6. \/ states[a].used < states[c].used
          \/ states[a].used = states[c].used /\ a < c
      BY <1>3, <3>4, <3>5
    <3> QED
      BY <1>2, <3>3, <3>6
  <2> QED
    BY <2>1, <2>5, <2>6, <2>7
<1>6. IsFiniteSet(C)
  BY DEF Comparable
<1>7. PICK a : IsFirst(C, R, a)
  BY <1>4, <1>5, <1>6, FirstOf
<1>8. a \in C /\ \A b \in C \ {a} : less(a, b)
  BY <1>0, <1>7 DEF IsFirst
<1>9. \E m \in C : \A b \in C \ {m} : WeightedLess(m, b, counts, states)
  BY <1>8 DEF less
<1> QED
  BY <1>9, Zenon DEF LeastWeightedAccount

-----------------------------------------------------------------------------
(* Placing users *)

\* Users with names, and candidates that can be weighed.
Weighed(C, states) == Comparable(C, Zero(C), states)
PlanTyped(routed, active, S, C, states) ==
    /\ IsFiniteSet(DOMAIN routed) /\ DOMAIN routed \subseteq Nat
    /\ active \subseteq DOMAIN routed /\ S \subseteq DOMAIN routed
    /\ Weighed(C, states) /\ C # {}

PlacedSoFar(routed, C) ==
    [assign : [DOMAIN routed -> C \cup {Nowhere}], counts : [C -> Nat]]

\* Numbers of users are numbers.
LEMMA CountsNat ==
  ASSUME NEW routed, NEW S, IsFiniteSet(S), NEW C
  PROVE  Counts(routed, S, C) \in [C -> Nat]
<1>1. \A a \in C : Cardinality(RoutedTo(routed, S, a)) \in Nat
  <2> SUFFICES ASSUME NEW a \in C PROVE Cardinality(RoutedTo(routed, S, a)) \in Nat
    OBVIOUS
  <2>1. RoutedTo(routed, S, a) \subseteq S
    BY DEF RoutedTo
  <2> QED
    BY <2>1, FS_Subset, FS_CardinalityType
<1> QED
  BY <1>1 DEF Counts

\* Candidates can be compared whatever their users.
LEMMA WeighedComparable ==
  ASSUME NEW C, NEW states, Weighed(C, states), NEW counts \in [C -> Nat]
  PROVE  Comparable(C, counts, states)
BY DEF Weighed, Comparable

Chosen(plan, C, states) == LeastWeightedAccount(C, plan.counts, states)

\* Placing one user keeps the types.
LEMMA PlaceTyped ==
  ASSUME NEW routed, NEW active, NEW S, NEW C, NEW states,
         PlanTyped(routed, active, S, C, states),
         NEW plan \in PlacedSoFar(routed, C), NEW u \in S
  PROVE  /\ Chosen(plan, C, states) \in C
         /\ Place(plan, u, C, states) \in PlacedSoFar(routed, C)
         /\ \A v \in DOMAIN routed : Place(plan, u, C, states).assign[v] =
               IF v = u THEN Chosen(plan, C, states) ELSE plan.assign[v]
         /\ \A a \in C : Place(plan, u, C, states).counts[a] =
               IF a = Chosen(plan, C, states) THEN plan.counts[a] + 1 ELSE plan.counts[a]
<1> DEFINE a == LeastWeightedAccount(C, plan.counts, states)
<1>1. plan.counts \in [C -> Nat] /\ plan.assign \in [DOMAIN routed -> C \cup {Nowhere}]
  BY DEF PlacedSoFar
<1>2. a \in C
  BY <1>1, WeighedComparable, LeastWeightedIn DEF PlanTyped
<1>3. u \in DOMAIN routed
  BY DEF PlanTyped
<1> HIDE DEF a
<1>4. /\ [plan.assign EXCEPT ![u] = a] \in [DOMAIN routed -> C \cup {Nowhere}]
      /\ [plan.counts EXCEPT ![a] = @ + 1] \in [C -> Nat]
  BY <1>1, <1>2, <1>3
<1>5. Place(plan, u, C, states) = [assign |-> [plan.assign EXCEPT ![u] = a],
                                   counts |-> [plan.counts EXCEPT ![a] = @ + 1]]
  BY DEF Place, Give, a
<1> QED
  <2>1. Place(plan, u, C, states) \in PlacedSoFar(routed, C)
    BY <1>4, <1>5 DEF PlacedSoFar
  <2>2. \A v \in DOMAIN routed : Place(plan, u, C, states).assign[v] =
           IF v = u THEN a ELSE plan.assign[v]
    BY <1>1, <1>5
  <2>3. \A b \in C : Place(plan, u, C, states).counts[b] =
           IF b = a THEN plan.counts[b] + 1 ELSE plan.counts[b]
    BY <1>1, <1>2, <1>5
  <2>4. a = Chosen(plan, C, states)
    BY DEF Chosen, a
  <2> QED
    BY <1>2, <2>1, <2>2, <2>3, <2>4

IsPlacing(f, routed, active, S, C, states) ==
    /\ f \in [SUBSET S -> PlacedSoFar(routed, C)]
    /\ f[{}] = Unplaced(routed, active, C)
    /\ \A s \in SUBSET S : s # {} =>
          f[s] = Place(f[s \ {Greatest(s)}], Greatest(s), C, states)
    /\ Placed(routed, active, S, C, states) = f[S]

\* Placed is the value of a fold over the users in their order.
LEMMA PlacedFold ==
  ASSUME NEW routed, NEW active, NEW S, NEW C, NEW states,
         PlanTyped(routed, active, S, C, states)
  PROVE  \E f : IsPlacing(f, routed, active, S, C, states)
<1> DEFINE D == PlacedSoFar(routed, C)
<1> DEFINE start == Unplaced(routed, active, C)
<1> DEFINE step == [p \in D \X S |-> Place(p[1], p[2], C, states)]
<1> DEFINE F(f) == [s \in SUBSET S |-> IF s = {} THEN start
                      ELSE Place(f[s \ {Greatest(s)}], Greatest(s), C, states)]
<1>1. IsFiniteSet(S) /\ S \subseteq Nat /\ IsFiniteSet(active)
  BY FS_Subset DEF PlanTyped
<1>2. start \in D
  <2>1. Counts(routed, active, C) \in [C -> Nat]
    BY <1>1, CountsNat
  <2>2. EmptyPlan(DOMAIN routed) \in [DOMAIN routed -> C \cup {Nowhere}]
    BY DEF EmptyPlan
  <2> QED
    BY <2>1, <2>2 DEF Unplaced, PlacedSoFar
<1>3. step \in [D \X S -> D]
  <2> SUFFICES ASSUME NEW p \in D \X S PROVE Place(p[1], p[2], C, states) \in D
    OBVIOUS
  <2>1. p[1] \in D /\ p[2] \in S
    OBVIOUS
  <2> QED
    BY <2>1, PlaceTyped
<1>4. \A v \in D, u \in S : step[<<v, u>>] = Place(v, u, C, states)
  <2> HIDE DEF D
  <2> QED
    OBVIOUS
<1> HIDE DEF D, start, step
<1>5. Foldable(S, D, start, step)
  BY <1>1, <1>2, <1>3 DEF Foldable
<1>6. PICK f : IsFold(f, S, D, start, step)
  BY <1>5, FoldExists
<1>7. f = F(f)
  <2>1. ASSUME NEW s \in SUBSET S, s # {}
        PROVE  step[<<f[s \ {Greatest(s)}], Greatest(s)>>]
                  = Place(f[s \ {Greatest(s)}], Greatest(s), C, states)
    <3>1. Greatest(s) \in S /\ s \ {Greatest(s)} \in SUBSET S
      BY <1>1, <2>1, WithoutGreatest
    <3>2. f[s \ {Greatest(s)}] \in D
      BY <1>6, <3>1 DEF IsFold
    <3> QED
      BY <1>4, <3>1, <3>2
  <2> QED
    BY <1>6, <2>1 DEF Round, IsFold
<1> DEFINE g == CHOOSE g : g = F(g)
<1>8. g = F(g)
  BY <1>7, Zenon
<1>9. Placed(routed, active, S, C, states) = g[S]
  BY DEF Placed, InOrder, MapThenFoldSet, start
<1> HIDE DEF g
<1>10. /\ g = [s \in SUBSET S |-> g[s]] /\ g[{}] = start
       /\ \A s \in SUBSET S : s # {} =>
             g[s] = Place(g[s \ {Greatest(s)}], Greatest(s), C, states)
  BY <1>8
<1>11. SUBSET S \subseteq {s \in SUBSET S : g[s] \in D}
  <2> DEFINE Good == {s \in SUBSET S : g[s] \in D}
  <2>1. {} \in Good
    BY <1>2, <1>10
  <2>2. ASSUME NEW s \in SUBSET S, s # {}, s \ {Greatest(s)} \in Good PROVE s \in Good
    <3>1. g[s \ {Greatest(s)}] \in D
      BY <2>2
    <3> HIDE DEF Good
    <3>2. Greatest(s) \in s
      BY <1>1, <2>2, WithoutGreatest, Zenon
    <3>3. Greatest(s) \in S
      BY <3>2
    <3>4. Place(g[s \ {Greatest(s)}], Greatest(s), C, states) \in D
      BY <3>1, <3>3, PlaceTyped DEF D
    <3>5. g[s] \in D
      BY <1>10, <2>2, <3>4
    <3> QED
      BY <3>5 DEF Good
  <2> HIDE DEF Good
  <2>3. SUBSET S \subseteq Good
    BY <1>1, <2>1, <2>2, InductionInOrder
  <2> QED
    BY <2>3 DEF Good
<1>12. g \in [SUBSET S -> D]
  BY <1>10, <1>11
<1> QED
  BY <1>9, <1>10, <1>12 DEF D, start, IsPlacing

\* Everybody who is to be placed gets a candidate, and nobody else does.
LEMMA PlacedAssigns ==
  ASSUME NEW routed, NEW active, NEW S, NEW C, NEW states,
         PlanTyped(routed, active, S, C, states)
  PROVE  /\ Placed(routed, active, S, C, states).assign \in [DOMAIN routed -> C \cup {Nowhere}]
         /\ \A u \in S : Placed(routed, active, S, C, states).assign[u] \in C
         /\ \A u \in DOMAIN routed \ S :
               Placed(routed, active, S, C, states).assign[u] = Nowhere
<1> DEFINE U == DOMAIN routed
<1>0. PICK f : IsPlacing(f, routed, active, S, C, states)
  BY PlacedFold
<1>1. /\ f \in [SUBSET S -> PlacedSoFar(routed, C)]
      /\ f[{}] = Unplaced(routed, active, C)
      /\ \A s \in SUBSET S : s # {} =>
            f[s] = Place(f[s \ {Greatest(s)}], Greatest(s), C, states)
      /\ Placed(routed, active, S, C, states) = f[S]
  BY <1>0 DEF IsPlacing
<1>2. IsFiniteSet(S) /\ S \subseteq Nat /\ S \subseteq U
  BY FS_Subset DEF PlanTyped
<1>3. \A s \in SUBSET S : f[s] \in PlacedSoFar(routed, C)
  BY <1>1
<1>4. \A s \in SUBSET S : f[s].assign \in [U -> C \cup {Nowhere}] /\ f[s].counts \in [C -> Nat]
  BY <1>3 DEF PlacedSoFar
<1> DEFINE Assigned(s) == \A u \in U : IF u \in s THEN f[s].assign[u] \in C
                                      ELSE f[s].assign[u] = Nowhere
<1> DEFINE Good == {s \in SUBSET S : Assigned(s)}
<1>5. {} \in Good
  <2>1. f[{}].assign = [u \in U |-> Nowhere]
    BY <1>1 DEF Unplaced, EmptyPlan
  <2> QED
    BY <2>1
<1>6. ASSUME NEW s \in SUBSET S, s # {}, s \ {Greatest(s)} \in Good PROVE s \in Good
  <2> DEFINE g == Greatest(s)
  <2> DEFINE r == s \ {g}
  <2>1. g \in s
    BY <1>2, <1>6, WithoutGreatest, Zenon
  <2>2. f[s] = Place(f[r], g, C, states) /\ f[r] \in PlacedSoFar(routed, C) /\ g \in S
    BY <1>1, <1>3, <1>6, <2>1
  <2> DEFINE a == Chosen(f[r], C, states)
  <2>3. a \in C /\ \A u \in U : f[s].assign[u] = IF u = g THEN a ELSE f[r].assign[u]
    <3> HIDE DEF g, r
    <3> QED
      BY <2>2, PlaceTyped
  <2>4. Assigned(r)
    BY <1>6
  <2> HIDE DEF g, a
  <2>5. Assigned(s)
    <3> SUFFICES ASSUME NEW u \in U
                 PROVE  IF u \in s THEN f[s].assign[u] \in C ELSE f[s].assign[u] = Nowhere
      OBVIOUS
    <3>1. f[s].assign[u] = IF u = g THEN a ELSE f[r].assign[u]
      BY <2>3
    <3>2. CASE u = g
      BY <2>1, <2>3, <3>1, <3>2
    <3>3. CASE u # g
      <4>1. u \in s <=> u \in r
        BY <3>3
      <4>2. IF u \in r THEN f[r].assign[u] \in C ELSE f[r].assign[u] = Nowhere
        BY <2>4
      <4> HIDE DEF r
      <4> QED
        BY <3>1, <3>3, <4>1, <4>2
    <3> QED
      BY <3>2, <3>3
  <2> QED
    BY <2>5
<1> HIDE DEF Good
<1>7. S \in Good
  BY <1>2, <1>5, <1>6, InductionInOrder
<1>8. Assigned(S)
  BY <1>7 DEF Good
<1> QED
  BY <1>1, <1>2, <1>4, <1>8

-----------------------------------------------------------------------------
(* Filling the accounts of a rebalance *)

IsTargeting(f, total, C, states) ==
    /\ f \in [SUBSET (1 .. total) -> [C -> Nat]]
    /\ f[{}] = Zero(C)
    /\ \A s \in SUBSET (1 .. total) : s # {} =>
          f[s] = Give(f[s \ {Greatest(s)}],
                      LeastWeightedAccount(C, f[s \ {Greatest(s)}], states))
    /\ WeightedTargetCounts(total, C, states) = f[1 .. total]

\* The target counts are the value of a fold over as many turns as users.
LEMMA TargetFold ==
  ASSUME NEW total \in Nat, NEW C, NEW states, Weighed(C, states), C # {}
  PROVE  \E f : IsTargeting(f, total, C, states)
<1> DEFINE S == 1 .. total
<1> DEFINE D == [C -> Nat]
<1> DEFINE start == Zero(C)
<1> DEFINE Turn(counts) == Give(counts, LeastWeightedAccount(C, counts, states))
<1> DEFINE step == [p \in D \X S |-> Turn(p[1])]
<1> DEFINE F(f) == [s \in SUBSET S |-> IF s = {} THEN start ELSE Turn(f[s \ {Greatest(s)}])]
<1>1. IsFiniteSet(S) /\ S \subseteq Nat
  BY FS_Interval
<1>2. start \in D
  BY DEF Zero
<1>3. \A counts \in D : Turn(counts) \in D
  <2> SUFFICES ASSUME NEW counts \in D PROVE Turn(counts) \in D
    OBVIOUS
  <2>1. LeastWeightedAccount(C, counts, states) \in C
    BY WeighedComparable, LeastWeightedIn
  <2> QED
    BY <2>1 DEF Give
<1> HIDE DEF S, D, start, Turn
<1>4. step \in [D \X S -> D]
  <2> SUFFICES ASSUME NEW p \in D \X S PROVE Turn(p[1]) \in D
    OBVIOUS
  <2> QED
    BY <1>3
<1>5. \A v \in D, u \in S : step[<<v, u>>] = Turn(v)
  OBVIOUS
<1> HIDE DEF step
<1>6. Foldable(S, D, start, step)
  BY <1>1, <1>2, <1>4 DEF Foldable
<1>7. PICK f : IsFold(f, S, D, start, step)
  BY <1>6, FoldExists
<1>8. f = F(f)
  <2>1. ASSUME NEW s \in SUBSET S, s # {}
        PROVE  step[<<f[s \ {Greatest(s)}], Greatest(s)>>] = Turn(f[s \ {Greatest(s)}])
    <3>1. Greatest(s) \in S /\ s \ {Greatest(s)} \in SUBSET S
      BY <1>1, <2>1, WithoutGreatest
    <3>2. f[s \ {Greatest(s)}] \in D
      BY <1>7, <3>1 DEF IsFold
    <3> QED
      BY <1>5, <3>1, <3>2
  <2> QED
    BY <1>7, <2>1 DEF Round, IsFold
<1> DEFINE g == CHOOSE g : g = F(g)
<1>9. g = F(g)
  BY <1>8, Zenon
<1>10. WeightedTargetCounts(total, C, states) = g[S]
  BY DEF WeightedTargetCounts, InOrder, MapThenFoldSet, start, Turn, S
<1> HIDE DEF g
<1>11. /\ g = [s \in SUBSET S |-> g[s]] /\ g[{}] = start
       /\ \A s \in SUBSET S : s # {} => g[s] = Turn(g[s \ {Greatest(s)}])
  BY <1>9
<1>12. SUBSET S \subseteq {s \in SUBSET S : g[s] \in D}
  <2> DEFINE Good == {s \in SUBSET S : g[s] \in D}
  <2>1. {} \in Good
    BY <1>2, <1>11
  <2>2. ASSUME NEW s \in SUBSET S, s # {}, s \ {Greatest(s)} \in Good PROVE s \in Good
    BY <1>3, <1>11, <2>2
  <2> HIDE DEF Good
  <2>3. SUBSET S \subseteq Good
    BY <1>1, <2>1, <2>2, InductionInOrder
  <2> QED
    BY <2>3 DEF Good
<1>13. g \in [SUBSET S -> D]
  BY <1>11, <1>12
<1>14. IsTargeting(g, total, C, states)
  BY <1>10, <1>11, <1>13 DEF IsTargeting, S, D, Turn, start
<1> QED
  BY <1>14

\* Target counts are numbers.
LEMMA TargetNat ==
  ASSUME NEW total \in Nat, NEW C, NEW states, Weighed(C, states), C # {}
  PROVE  WeightedTargetCounts(total, C, states) \in [C -> Nat]
<1>1. PICK f : IsTargeting(f, total, C, states)
  BY TargetFold
<1> QED
  BY <1>1 DEF IsTargeting

FilledSoFar(routed, C) ==
    [assign : [DOMAIN routed -> C \cup {Nowhere}], deficits : [C -> Int]]
FillTyped(routed, S, C, deficits) ==
    /\ IsFiniteSet(DOMAIN routed) /\ DOMAIN routed \subseteq Nat
    /\ S \subseteq DOMAIN routed /\ C \subseteq Nat /\ deficits \in [C -> Int]
IsFilling(f, routed, S, C, deficits) ==
    /\ f \in [SUBSET S -> FilledSoFar(routed, C)]
    /\ f[{}] = [assign |-> EmptyPlan(DOMAIN routed), deficits |-> deficits]
    /\ \A s \in SUBSET S : s # {} =>
          f[s] = Fill(f[s \ {Greatest(s)}], Greatest(s), routed)
    /\ FillDeficits(routed, S, deficits) = f[S].assign

\* One user fills one deficit, of a candidate.
LEMMA FillStep ==
  ASSUME NEW routed, NEW S, NEW C, NEW deficits, FillTyped(routed, S, C, deficits),
         NEW plan \in FilledSoFar(routed, C), NEW u \in S
  PROVE  Fill(plan, u, routed) \in FilledSoFar(routed, C)
<1> DEFINE a == Least(Short(plan.deficits))
<1>1. /\ plan.deficits \in [C -> Int] /\ plan.assign \in [DOMAIN routed -> C \cup {Nowhere}]
      /\ u \in DOMAIN routed /\ C \subseteq Nat
  BY DEF FilledSoFar, FillTyped
<1>2. Short(plan.deficits) \subseteq C
  BY <1>1 DEF Short
<1>3. CASE Short(plan.deficits) = {}
  BY <1>3 DEF Fill
<1>4. CASE Short(plan.deficits) # {}
  <2>1. a \in C
    BY <1>1, <1>2, <1>4, LeastIn
  <2>2. Fill(plan, u, routed) =
          [assign |-> IF routed[u] = a THEN plan.assign ELSE [plan.assign EXCEPT ![u] = a],
           deficits |-> [plan.deficits EXCEPT ![a] = @ - 1]]
    BY <1>4 DEF Fill
  <2> HIDE DEF a
  <2>3. /\ (IF routed[u] = a THEN plan.assign ELSE [plan.assign EXCEPT ![u] = a])
              \in [DOMAIN routed -> C \cup {Nowhere}]
        /\ [plan.deficits EXCEPT ![a] = @ - 1] \in [C -> Int]
    <3>1. [plan.deficits EXCEPT ![a] = @ - 1] \in [C -> Int]
      BY <1>1, <2>1
    <3>2. [plan.assign EXCEPT ![u] = a] \in [DOMAIN routed -> C \cup {Nowhere}]
      BY <1>1, <2>1
    <3> QED
      BY <1>1, <3>1, <3>2
  <2> QED
    BY <2>2, <2>3 DEF FilledSoFar
<1> QED
  BY <1>3, <1>4

\* Filling the deficits is the value of a fold over the users in their order.
LEMMA FillFold ==
  ASSUME NEW routed, NEW S, NEW C, NEW deficits, FillTyped(routed, S, C, deficits)
  PROVE  \E f : IsFilling(f, routed, S, C, deficits)
<1> DEFINE D == FilledSoFar(routed, C)
<1> DEFINE start == [assign |-> EmptyPlan(DOMAIN routed), deficits |-> deficits]
<1> DEFINE step == [p \in D \X S |-> Fill(p[1], p[2], routed)]
<1> DEFINE F(f) == [s \in SUBSET S |-> IF s = {} THEN start
                      ELSE Fill(f[s \ {Greatest(s)}], Greatest(s), routed)]
<1>1. IsFiniteSet(S) /\ S \subseteq Nat
  BY FS_Subset DEF FillTyped
<1>2. start \in D
  BY DEF EmptyPlan, FilledSoFar, FillTyped
<1>3. \A plan \in D, u \in S : Fill(plan, u, routed) \in D
  BY FillStep
<1> HIDE DEF D, start
<1>4. step \in [D \X S -> D]
  <2> SUFFICES ASSUME NEW p \in D \X S PROVE Fill(p[1], p[2], routed) \in D
    OBVIOUS
  <2> QED
    BY <1>3
<1>5. \A v \in D, u \in S : step[<<v, u>>] = Fill(v, u, routed)
  OBVIOUS
<1> HIDE DEF step
<1>6. Foldable(S, D, start, step)
  BY <1>1, <1>2, <1>4 DEF Foldable
<1>7. PICK f : IsFold(f, S, D, start, step)
  BY <1>6, FoldExists
<1>8. f = F(f)
  <2>1. ASSUME NEW s \in SUBSET S, s # {}
        PROVE  step[<<f[s \ {Greatest(s)}], Greatest(s)>>]
                  = Fill(f[s \ {Greatest(s)}], Greatest(s), routed)
    <3>1. Greatest(s) \in S /\ s \ {Greatest(s)} \in SUBSET S
      BY <1>1, <2>1, WithoutGreatest
    <3>2. f[s \ {Greatest(s)}] \in D
      BY <1>7, <3>1 DEF IsFold
    <3> QED
      BY <1>5, <3>1, <3>2
  <2> QED
    BY <1>7, <2>1 DEF Round, IsFold
<1> DEFINE g == CHOOSE g : g = F(g)
<1>9. g = F(g)
  BY <1>8, Zenon
<1>10. FillDeficits(routed, S, deficits) = g[S].assign
  BY DEF FillDeficits, InOrder, MapThenFoldSet, start
<1> HIDE DEF g
<1>11. /\ g = [s \in SUBSET S |-> g[s]] /\ g[{}] = start
       /\ \A s \in SUBSET S : s # {} =>
             g[s] = Fill(g[s \ {Greatest(s)}], Greatest(s), routed)
  BY <1>9
<1>12. SUBSET S \subseteq {s \in SUBSET S : g[s] \in D}
  <2> DEFINE Good == {s \in SUBSET S : g[s] \in D}
  <2>1. {} \in Good
    BY <1>2, <1>11
  <2>2. ASSUME NEW s \in SUBSET S, s # {}, s \ {Greatest(s)} \in Good PROVE s \in Good
    <3>1. g[s \ {Greatest(s)}] \in D
      BY <2>2
    <3> HIDE DEF Good
    <3>2. Greatest(s) \in s
      BY <1>1, <2>2, WithoutGreatest, Zenon
    <3>3. g[s] \in D
      BY <1>3, <1>11, <2>2, <3>1, <3>2
    <3> QED
      BY <3>3 DEF Good
  <2> HIDE DEF Good
  <2>3. SUBSET S \subseteq Good
    BY <1>1, <2>1, <2>2, InductionInOrder
  <2> QED
    BY <2>3 DEF Good
<1>13. g \in [SUBSET S -> D]
  BY <1>11, <1>12
<1>14. IsFilling(g, routed, S, C, deficits)
  BY <1>10, <1>11, <1>13 DEF IsFilling, D, start
<1> QED
  BY <1>14

\* Nobody is moved but to a candidate.
LEMMA FillAssigns ==
  ASSUME NEW routed, NEW S, NEW C, NEW deficits, FillTyped(routed, S, C, deficits)
  PROVE  FillDeficits(routed, S, deficits) \in [DOMAIN routed -> C \cup {Nowhere}]
<1>1. PICK f : IsFilling(f, routed, S, C, deficits)
  BY FillFold
<1>2. f[S] \in FilledSoFar(routed, C) /\ FillDeficits(routed, S, deficits) = f[S].assign
  BY <1>1 DEF IsFilling
<1> QED
  BY <1>2 DEF FilledSoFar

-----------------------------------------------------------------------------
(* What the plans are *)

\* The states of the accounts as the planner reads them.
StatesTyped(states) ==
    /\ IsFiniteSet(DOMAIN states) /\ DOMAIN states \subseteq Nat \ {Nowhere}
    /\ \A a \in DOMAIN states : states[a].headroom \in Nat /\ states[a].used \in Int
RoutesTyped(routed, active) ==
    /\ IsFiniteSet(DOMAIN routed) /\ DOMAIN routed \subseteq Nat
    /\ active \subseteq DOMAIN routed

\* Candidates can be weighed.
LEMMA CandidatesWeighed ==
  ASSUME NEW states, StatesTyped(states), NEW excluded
  PROVE  /\ Weighed(Candidates(states, excluded), states)
         /\ Candidates(states, excluded) \subseteq DOMAIN states \ excluded
         /\ Candidates(states, excluded) \subseteq Nat /\ Nowhere \notin Candidates(states, excluded)
<1> DEFINE C == Candidates(states, excluded)
<1>1. C \subseteq DOMAIN states \ excluded
  BY DEF Candidates
<1>2. IsFiniteSet(C) /\ C \subseteq Nat /\ Nowhere \notin C
  BY <1>1, FS_Subset DEF StatesTyped
<1>3. \A a \in C : /\ states[a].headroom \in Nat /\ states[a].headroom > 0
                   /\ states[a].used \in Int
  BY DEF Candidates, StatesTyped
<1> QED
  BY <1>1, <1>2, <1>3 DEF Weighed, Comparable, Zero

\* An evacuation has candidates as its targets; when it can be applied it has
\* one for each user of the sources and for nobody else.
LEMMA EvacuationPlan ==
  ASSUME NEW routed, NEW active, NEW routable, NEW states, NEW sources,
         RoutesTyped(routed, active), StatesTyped(states)
  PROVE  LET plan == PlanEvacuation(routed, active, routable, states, sources)
             C == Candidates(states, sources)
         IN  /\ plan.assign \in [DOMAIN routed -> C \cup {Nowhere}]
             /\ Movable(plan) => \A u \in DOMAIN routed :
                   IF u \in active /\ routed[u] \in sources THEN plan.assign[u] \in C
                   ELSE plan.assign[u] = Nowhere
<1> DEFINE plan == PlanEvacuation(routed, active, routable, states, sources)
<1> DEFINE C == Candidates(states, sources)
<1> DEFINE A == Affected(routed, active, sources)
<1> DEFINE S == A \cap routable
<1> DEFINE found == Placed(routed, active, S, C, states).assign
<1>1. /\ plan.candidates = C /\ plan.skipped = A \ routable
      /\ plan.assign = IF C = {} THEN EmptyPlan(DOMAIN routed) ELSE found
  BY DEF PlanEvacuation
<1>2. A = {u \in active : routed[u] \in sources} /\ A \subseteq DOMAIN routed
  BY DEF Affected, RoutesTyped
<1>3. C # {} => PlanTyped(routed, active, S, C, states)
  BY <1>2, CandidatesWeighed DEF PlanTyped, RoutesTyped
<1>4. C # {} => /\ found \in [DOMAIN routed -> C \cup {Nowhere}]
                /\ \A u \in S : found[u] \in C
                /\ \A u \in DOMAIN routed \ S : found[u] = Nowhere
  <2> SUFFICES ASSUME C # {}
               PROVE  /\ found \in [DOMAIN routed -> C \cup {Nowhere}]
                      /\ \A u \in S : found[u] \in C
                      /\ \A u \in DOMAIN routed \ S : found[u] = Nowhere
    OBVIOUS
  <2>1. PlanTyped(routed, active, S, C, states)
    BY <1>3
  <2> HIDE DEF S, C
  <2> QED
    BY <2>1, PlacedAssigns
<1> HIDE DEF found, C
<1>5. plan.assign \in [DOMAIN routed -> C \cup {Nowhere}]
  BY <1>1, <1>4 DEF EmptyPlan
<1>6. ASSUME Movable(plan), NEW u \in DOMAIN routed
      PROVE  IF u \in active /\ routed[u] \in sources THEN plan.assign[u] \in C
             ELSE plan.assign[u] = Nowhere
  <2>1. C # {} /\ A \ routable = {}
    BY <1>1, <1>6 DEF Movable
  <2>2. S = A /\ plan.assign = found
    BY <1>1, <2>1
  <2>3. u \in S <=> u \in active /\ routed[u] \in sources
    BY <1>2, <2>2
  <2> QED
    BY <1>4, <2>1, <2>2, <2>3
<1> QED
  BY <1>5, <1>6 DEF C

\* A rebalance has candidates as its targets.
LEMMA RebalancePlan ==
  ASSUME NEW routed, NEW active, NEW routable, NEW states,
         RoutesTyped(routed, active), StatesTyped(states)
  PROVE  PlanGlobalRebalance(routed, active, routable, states).assign
            \in [DOMAIN routed -> Candidates(states, {}) \cup {Nowhere}]
<1> DEFINE C == Candidates(states, {})
<1> DEFINE target == WeightedTargetCounts(Cardinality(active), C, states)
<1> DEFINE deficits == [a \in C |->
              target[a] - Min2(Cardinality(RoutedTo(routed, active, a)), target[a])]
<1> DEFINE S == active \ Retained(routed, active, C, target)
<1>1. PlanGlobalRebalance(routed, active, routable, states).assign
         = IF C = {} \/ ~ active \subseteq routable THEN EmptyPlan(DOMAIN routed)
           ELSE FillDeficits(routed, S, deficits)
  BY DEF PlanGlobalRebalance
<1>2. ASSUME C # {} PROVE FillDeficits(routed, S, deficits) \in [DOMAIN routed -> C \cup {Nowhere}]
  <2>1. Weighed(C, states) /\ C \subseteq Nat
    BY CandidatesWeighed
  <2>2. IsFiniteSet(active) /\ Cardinality(active) \in Nat
    BY FS_Subset, FS_CardinalityType DEF RoutesTyped
  <2>3. target \in [C -> Nat]
    BY <1>2, <2>1, <2>2, TargetNat
  <2>4. \A a \in C : Cardinality(RoutedTo(routed, active, a)) \in Nat
    <3>1. Counts(routed, active, C) \in [C -> Nat]
      BY <2>2, CountsNat
    <3> QED
      BY <3>1 DEF Counts
  <2> HIDE DEF C, target
  <2>5. deficits \in [C -> Int]
    BY <2>3, <2>4 DEF Min2
  <2>6. S \subseteq DOMAIN routed
    BY DEF RoutesTyped
  <2> HIDE DEF deficits, S
  <2>7. FillTyped(routed, S, C, deficits)
    BY <2>1, <2>5, <2>6 DEF FillTyped, RoutesTyped
  <2> QED
    BY <2>7, FillAssigns
<1>3. EmptyPlan(DOMAIN routed) \in [DOMAIN routed -> C \cup {Nowhere}]
  BY DEF EmptyPlan
<1> HIDE DEF S, deficits, target
<1> QED
  BY <1>1, <1>2, <1>3

\* The account of an automatic assignment is one of the usable ones.
LEMMA LeastUsedIn ==
  ASSUME NEW candidates, NEW states, StatesTyped(states),
         LeastUsedEligibleAccount(candidates, states) # Nowhere
  PROVE  LeastUsedEligibleAccount(candidates, states)
            \in Candidates(states, {}) \cap candidates
<1> DEFINE usable == {a \in candidates \cap DOMAIN states :
                        states[a].eligible /\ ~states[a].exhausted
                            /\ states[a].reason = "available"
                            /\ states[a].headroom > 0 /\ states[a].used # Unknown}
<1> DEFINE less(a, b) == \/ states[a].used < states[b].used
                         \/ states[a].used = states[b].used /\ a < b
<1> DEFINE R == {p \in usable \X usable : less(p[1], p[2])}
<1>1. LeastUsedEligibleAccount(candidates, states)
         = IF usable = {} THEN Nowhere
           ELSE CHOOSE a \in usable : \A b \in usable \ {a} : less(a, b)
  BY DEF LeastUsedEligibleAccount
<1>2. usable \subseteq Candidates(states, {}) \cap candidates
  BY DEF Candidates
<1>3. usable # {}
  BY <1>1
<1>4. IsFiniteSet(usable) /\ usable \subseteq Nat
  BY FS_Subset DEF StatesTyped
<1>5. \A a \in usable : states[a].used \in Int /\ a \in Nat
  BY DEF StatesTyped
<1> HIDE DEF usable
<1>6. \A a, b \in usable : <<a, b>> \in R <=> less(a, b)
  OBVIOUS
<1> HIDE DEF R
<1>7. Total(usable, R)
  BY <1>5, <1>6 DEF Total
<1>8. Transitive(usable, R)
  BY <1>5, <1>6 DEF Transitive
<1>9. PICK a : IsFirst(usable, R, a)
  BY <1>3, <1>4, <1>7, <1>8, FirstOf
<1>10. a \in usable /\ \A b \in usable \ {a} : less(a, b)
  BY <1>6, <1>9 DEF IsFirst
<1> HIDE DEF less
<1>11. (CHOOSE x \in usable : \A b \in usable \ {x} : less(x, b)) \in usable
  BY <1>10, Zenon
<1> QED
  BY <1>1, <1>2, <1>3, <1>11

-----------------------------------------------------------------------------
(* The failover worker, the quota row and Admin *)

Age == 0 .. Old

\* Records have their fields, and the numbers in them are numbers.
StateRecord(state) ==
    /\ DOMAIN state = {"eligible", "exhausted", "headroom", "used", "reason"}
    /\ state.headroom \in Nat /\ state.used \in Int
StateRecords(states) == DOMAIN states = Account /\ \A a \in Account : StateRecord(states[a])
QuotaRecord(q) == q.used \in 0 .. 100
Plan == [User -> Target]

FailoverTypes ==
    /\ enabled \subseteq Account
    /\ DOMAIN quota = {"found", "age", "failed", "accounts"}
    /\ quota.age \in Age
    /\ DOMAIN quota.accounts = Account /\ \A a \in Account : QuotaRecord(quota.accounts[a])
    /\ routes \in Plan
    /\ DOMAIN rstate = {"mode", "states", "observed", "check", "error"}
    /\ StateRecords(rstate.states) /\ rstate.observed \in Age
    /\ DOMAIN ctl = {"at", "states", "observed", "assign", "expected", "error", "forced"}
    /\ StateRecords(ctl.states) /\ ctl.observed \in Age
    /\ ctl.assign \in Plan /\ ctl.expected \in Plan
    /\ adm.assign \in Plan
    /\ seenFree \in [Account -> Age]

\* What a refresh calls free, and what a plan may use.
FreeIn(q) == q.status = "ok" /\ q.weekly /\ Headroom(q) > 0 /\ q.allowed
Usable(state) == state.eligible /\ state.headroom > 0

\* Capacity is not older than what says so: the quota row, the row the worker
\* leaves behind, and the states of its round.
FreeSince(accounts, seen, age) == \A a \in Account : FreeIn(accounts[a]) => seen[a] <= age
UsableSince(states, seen, age) == \A a \in Account : Usable(states[a]) => seen[a] <= age

InRound == {"checked", "planned", "finishing"}

\* The plan of the round: a candidate for every active user of an exhausted
\* account, nothing for the others.
RoundPlanned ==
    LET sources == ExhaustedAccounts(ctl.states)
    IN  \A u \in User :
          IF u \in ActiveUsers /\ ctl.expected[u] \in sources
          THEN ctl.assign[u] \in Candidates(ctl.states, sources)
          ELSE ctl.assign[u] = Nowhere

\* The inductive invariant.
FailoverInv ==
    /\ FailoverTypes
    /\ FreeSince(quota.accounts, seenFree, quota.age)
    /\ UsableSince(rstate.states, seenFree, rstate.observed)
    /\ ctl.at \in InRound => UsableSince(ctl.states, seenFree, ctl.observed)
    /\ ctl.at \in {"checked", "planned"} => ctl.observed <= StaleAfter
    /\ ctl.at = "checked" => ctl.assign = EmptyPlan(User)
    /\ ctl.at = "planned" => RoundPlanned

\* Ages are numbers that stop at Old, which is beyond both limits.
LEMMA AgeFacts ==
  /\ Old \in Nat /\ Old > StaleAfter /\ Old > Poll /\ StaleAfter \in Nat /\ Poll \in Nat
  /\ \A x \in Age : Older(x) \in Age
  /\ \A x, y \in Age : x <= y => Older(x) <= Older(y)
  /\ 0 \in Age /\ Old \in Age
BY FailoverAssumption DEF Old, Older, Age

\* Headroom is what is left above the reserve.
LEMMA HeadroomNat ==
  ASSUME NEW q, QuotaRecord(q)
  PROVE  Headroom(q) \in Nat
BY FailoverAssumption DEF Headroom, QuotaRecord

\* What a refresh records of an account.
LEMMA FetchedTyped ==
  ASSUME NEW p \in Payload
  PROVE  QuotaRecord(Fetched(p))
<1>1. p.answer \in {"ok", "expired", "error", "no_oauth"} /\ p.used \in 0 .. 100
  BY DEF Payload
<1>2. \A status : UnavailableAccount(status).used = 0
  BY DEF UnavailableAccount
<1>3. Normalize(p).used \in 0 .. 100
  BY <1>1 DEF Normalize
<1>4. CASE p.answer = "ok"
  BY <1>3, <1>4 DEF Fetched, QuotaRecord
<1>5. CASE p.answer = "no_oauth"
  BY <1>2, <1>5 DEF Fetched, QuotaRecord
<1>6. CASE p.answer = "expired"
  BY <1>2, <1>6 DEF Fetched, QuotaRecord
<1>7. CASE p.answer = "error"
  BY <1>2, <1>7 DEF Fetched, QuotaRecord
<1> QED
  BY <1>1, <1>4, <1>5, <1>6, <1>7

\* An account is available only when the row says that it is free.
LEMMA AvailableFree ==
  ASSUME NEW a, NEW q, QuotaRecord(q), NEW fresh, Reason(a, q, fresh) = "available"
  PROVE  FreeIn(q)
<1>1. Headroom(q) \in Nat
  BY HeadroomNat
<1>2. q.status = "ok" /\ q.weekly
  BY DEF Reason
<1>3. q.allowed
  BY DEF Reason
<1>4. Headroom(q) # 0
  BY DEF Reason
<1> QED
  BY <1>1, <1>2, <1>3, <1>4 DEF FreeIn

\* The states built from the quota row.
LEMMA BuiltTyped ==
  ASSUME FailoverTypes
  PROVE  /\ StateRecords(BuildAccountStates)
         /\ \A a \in Account : Usable(BuildAccountStates[a]) => FreeIn(quota.accounts[a])
<1>1. ASSUME NEW a \in Account
      PROVE  /\ StateRecord(BuildState(a))
             /\ Usable(BuildState(a)) => FreeIn(quota.accounts[a])
  <2> DEFINE q == quota.accounts[a]
  <2>1. QuotaRecord(q)
    BY DEF FailoverTypes
  <2>2. Headroom(q) \in Nat /\ (IF q.weekly THEN q.used ELSE Unknown) \in Int
    BY <2>1, HeadroomNat DEF QuotaRecord, Unknown
  <2>3. StateRecord(BuildState(a))
    BY <2>2 DEF BuildState, StateRecord
  <2>4. Usable(BuildState(a)) => Reason(a, q, Fresh) = "available"
    BY DEF BuildState, Usable
  <2> QED
    BY <2>1, <2>3, <2>4, AvailableFree
<1> QED
  BY <1>1 DEF BuildAccountStates, StateRecords

\* A blocked state is a state and cannot be used.
LEMMA BlockedTyped ==
  ASSUME NEW state, StateRecord(state), NEW reason, NEW spent
  PROVE  /\ StateRecord(Blocked(state, reason)) /\ ~Usable(Blocked(state, reason))
         /\ StateRecord([Blocked(state, reason) EXCEPT !.exhausted = spent])
         /\ ~Usable([Blocked(state, reason) EXCEPT !.exhausted = spent])
<1>1. StateRecord(Blocked(state, reason)) /\ Blocked(state, reason).headroom = 0
  BY DEF StateRecord, Blocked
<1>2. /\ StateRecord([Blocked(state, reason) EXCEPT !.exhausted = spent])
      /\ [Blocked(state, reason) EXCEPT !.exhausted = spent].headroom = 0
  BY <1>1 DEF StateRecord
<1> QED
  BY <1>1, <1>2 DEF Usable

\* No state is known of an account: it cannot be used.
LEMMA NoStateTyped == StateRecord(NoState) /\ ~Usable(NoState) /\ StateRecords(NoStates)
<1>1. StateRecord(NoState) /\ NoState.headroom = 0
  BY DEF StateRecord, NoState, Unknown
<1> QED
  BY <1>1 DEF Usable, StateRecords, NoStates

\* The row the worker leaves behind, as Admin reads it: what can be used is in
\* the row, the row is of a round that did not fail, and it is not stale.
LEMMA PersistedTyped ==
  ASSUME FailoverTypes, NEW a \in Account
  PROVE  /\ StateRecord(Persisted(a))
         /\ Usable(Persisted(a)) => Usable(rstate.states[a]) /\ rstate.observed <= StaleAfter
<1>1. StateRecord(rstate.states[a])
  BY DEF FailoverTypes, StateRecords
<1>2. rstate.observed \in Nat /\ StaleAfter \in Nat
  BY AgeFacts DEF FailoverTypes, Age
<1>3. CASE rstate.error
  BY <1>3, NoStateTyped DEF Persisted
<1>4. CASE ~rstate.error /\ a \notin enabled
  BY <1>1, <1>4, BlockedTyped DEF Persisted
<1>5. CASE ~rstate.error /\ a \in enabled /\ rstate.observed > StaleAfter
  BY <1>1, <1>5, BlockedTyped DEF Persisted
<1>6. CASE ~rstate.error /\ a \in enabled /\ rstate.observed <= StaleAfter
  BY <1>1, <1>2, <1>6 DEF Persisted
<1> QED
  BY <1>2, <1>3, <1>4, <1>5, <1>6

\* What the CPAs say can only take capacity away.
LEMMA LiveTyped ==
  ASSUME FailoverTypes, NEW a \in Account
  PROVE  StateRecord(LiveAccountState(a)) /\ (Usable(LiveAccountState(a)) => Usable(Persisted(a)))
<1> DEFINE state == Persisted(a)
<1> DEFINE hard(reason, spent) == [Blocked(state, reason) EXCEPT !.exhausted = spent]
<1>1. StateRecord(state)
  BY PersistedTyped
<1>2. \A reason, spent : StateRecord(hard(reason, spent)) /\ ~Usable(hard(reason, spent))
  BY <1>1, BlockedTyped
<1>3. /\ StateRecord([state EXCEPT !.reason = "runtime_unknown"])
      /\ Usable([state EXCEPT !.reason = "runtime_unknown"]) => Usable(state)
  BY <1>1 DEF StateRecord, Usable
<1>4. LiveAccountState(a) =
        IF a \notin enabled THEN hard("account_disabled", FALSE)
        ELSE IF a \notin reachable THEN hard("container_not_running", FALSE)
        ELSE IF native[a] = "no_oauth" THEN hard("oauth_missing", FALSE)
        ELSE IF state.exhausted \/ state.reason = "upstream_disallowed"
                  \/ native[a] = "exhausted" THEN hard("quota_exhausted", TRUE)
        ELSE IF native[a] = "unavailable" THEN hard("credential_unavailable", FALSE)
        ELSE IF native[a] = "unknown" THEN [state EXCEPT !.reason = "runtime_unknown"]
        ELSE state
  BY Zenon DEF LiveAccountState
<1> HIDE DEF hard, state
<1>5. \/ \E reason, spent : LiveAccountState(a) = hard(reason, spent)
      \/ LiveAccountState(a) = [state EXCEPT !.reason = "runtime_unknown"]
      \/ LiveAccountState(a) = state
  BY <1>4, Zenon
<1>6. StateRecord(LiveAccountState(a)) /\ (Usable(LiveAccountState(a)) => Usable(state))
  BY <1>1, <1>2, <1>3, <1>5
<1> QED
  BY <1>6 DEF state

\* The states Admin plans with: what can be used was seen free.
LEMMA AccountStatesTyped ==
  ASSUME FailoverTypes, UsableSince(rstate.states, seenFree, rstate.observed)
  PROVE  /\ StateRecords(AccountStates)
         /\ \A a \in Account : Usable(AccountStates[a]) => seenFree[a] <= StaleAfter
<1>1. StateRecords(AccountStates)
  BY LiveTyped DEF AccountStates, StateRecords
<1>2. ASSUME NEW a \in Account, Usable(AccountStates[a]) PROVE seenFree[a] <= StaleAfter
  <2>1. Usable(LiveAccountState(a))
    BY <1>2 DEF AccountStates
  <2>2. Usable(rstate.states[a]) /\ rstate.observed <= StaleAfter
    BY <2>1, LiveTyped, PersistedTyped
  <2>3. seenFree[a] <= rstate.observed
    BY <2>2 DEF UsableSince
  <2>4. seenFree[a] \in Nat /\ rstate.observed \in Nat /\ StaleAfter \in Nat
    BY AgeFacts DEF FailoverTypes, Age
  <2> QED
    BY <2>2, <2>3, <2>4
<1> QED
  BY <1>1, <1>2

\* States of records are states the planner can read.
LEMMA RecordsTyped ==
  ASSUME NEW states, StateRecords(states)
  PROVE  StatesTyped(states)
BY FailoverAssumption DEF StateRecords, StateRecord, StatesTyped

\* The routes and the active users are what the planner expects.
LEMMA RoutesAreTyped ==
  ASSUME FailoverTypes
  PROVE  RoutesTyped(routes, ActiveUsers) /\ DOMAIN routes = User
BY FailoverAssumption DEF FailoverTypes, RoutesTyped, ActiveUsers, Plan

\* Candidates are accounts that can be used.
LEMMA CandidatesUsable ==
  ASSUME NEW states, StateRecords(states), NEW excluded
  PROVE  /\ Candidates(states, excluded) \subseteq Account
         /\ \A a \in Candidates(states, excluded) : Usable(states[a]) /\ a # Nowhere
BY FailoverAssumption DEF StateRecords, Candidates, Usable

\* An empty plan is a plan.
LEMMA EmptyTyped == EmptyPlan(User) \in Plan
BY DEF EmptyPlan, Plan, Target

\* Capacity that was free at one age is free at a greater one, and when it has
\* been seen free again.
LEMMA SinceKept ==
  ASSUME NEW states, NEW old \in [Account -> Age], NEW new \in [Account -> Age],
         \A a \in Account : new[a] <= old[a], NEW age \in Age,
         UsableSince(states, old, age)
  PROVE  UsableSince(states, new, age)
BY AgeFacts DEF UsableSince, Age

\* A step of the worker or of Admin that leaves the quota row and what was
\* seen alone keeps the invariant when the round does.
RoundInv(c) ==
    /\ DOMAIN c = {"at", "states", "observed", "assign", "expected", "error", "forced"}
    /\ StateRecords(c.states) /\ c.observed \in Age
    /\ c.assign \in Plan /\ c.expected \in Plan
    /\ c.at \in InRound => UsableSince(c.states, seenFree, c.observed)
    /\ c.at \in {"checked", "planned"} => c.observed <= StaleAfter
    /\ c.at = "checked" => c.assign = EmptyPlan(User)
    /\ c.at = "planned" =>
          LET sources == ExhaustedAccounts(c.states)
          IN  \A u \in User :
                IF u \in ActiveUsers /\ c.expected[u] \in sources
                THEN c.assign[u] \in Candidates(c.states, sources)
                ELSE c.assign[u] = Nowhere
RowInv(r) ==
    /\ DOMAIN r = {"mode", "states", "observed", "check", "error"}
    /\ StateRecords(r.states) /\ r.observed \in Age
    /\ UsableSince(r.states, seenFree, r.observed)
WorldInv ==
    /\ enabled \subseteq Account
    /\ DOMAIN quota = {"found", "age", "failed", "accounts"}
    /\ quota.age \in Age
    /\ DOMAIN quota.accounts = Account /\ \A a \in Account : QuotaRecord(quota.accounts[a])
    /\ seenFree \in [Account -> Age]
    /\ FreeSince(quota.accounts, seenFree, quota.age)

\* The invariant, by who writes what.
LEMMA FailoverInvParts ==
  FailoverInv <=> /\ WorldInv /\ routes \in Plan /\ adm.assign \in Plan
                  /\ RowInv(rstate) /\ RoundInv(ctl)
BY DEF FailoverInv, WorldInv, RowInv, RoundInv, FailoverTypes, RoundPlanned

\* A round that has not started.
LEMMA IdleInv == RoundInv(Idle) /\ RoundInv(Started) /\ RoundInv([Idle EXCEPT !.forced = TRUE])
<1>1. /\ Idle.at = "idle" /\ Idle.states = NoStates /\ Idle.observed = Old
      /\ Idle.assign = EmptyPlan(User) /\ Idle.expected = EmptyPlan(User)
      /\ DOMAIN Idle = {"at", "states", "observed", "assign", "expected", "error", "forced"}
  BY DEF Idle
<1>2. /\ Started.at = "idle" /\ Started.states = NoStates /\ Started.observed = Old
      /\ Started.assign = EmptyPlan(User) /\ Started.expected = EmptyPlan(User)
      /\ DOMAIN Started = {"at", "states", "observed", "assign", "expected", "error", "forced"}
  BY <1>1 DEF Started
<1>3. RoundInv(Idle)
  BY <1>1, NoStateTyped, EmptyTyped, AgeFacts DEF RoundInv, InRound
<1>4. RoundInv(Started)
  BY <1>2, NoStateTyped, EmptyTyped, AgeFacts DEF RoundInv, InRound
<1> QED
  BY <1>3, <1>4 DEF Started

\* The plan of a round is complete, and everybody in it goes where there is
\* capacity.
LEMMA EvacuateInv ==
  ASSUME FailoverInv, Evacuate
  PROVE  /\ RoundInv(ctl')
         /\ \A u \in Moved(ctl'.assign) : seenFree[ctl'.assign[u]] <= StaleAfter
<1> DEFINE sources == ExhaustedAccounts(ctl.states)
<1> DEFINE plan == PlanEvacuation(routes, ActiveUsers, RoutableUsers, ctl.states, sources)
<1> DEFINE C == Candidates(ctl.states, sources)
<1>0. RoundInv(ctl) /\ FailoverTypes /\ ctl.at = "checked"
  BY FailoverInvParts DEF FailoverInv, Evacuate
<1>1. /\ StateRecords(ctl.states) /\ ctl.observed \in Age /\ ctl.expected \in Plan
      /\ UsableSince(ctl.states, seenFree, ctl.observed)
      /\ ctl.observed <= StaleAfter /\ ctl.assign = EmptyPlan(User)
      /\ DOMAIN ctl = {"at", "states", "observed", "assign", "expected", "error", "forced"}
  BY <1>0 DEF RoundInv, InRound
<1>2. ctl' = IF plan.affected = {} \/ ~Movable(plan) THEN [ctl EXCEPT !.at = "finishing"]
             ELSE [ctl EXCEPT !.at = "planned", !.assign = plan.assign, !.expected = routes]
  BY DEF Evacuate
<1>3. /\ plan.assign \in [User -> C \cup {Nowhere}]
      /\ Movable(plan) => \A u \in User :
            IF u \in ActiveUsers /\ routes[u] \in sources THEN plan.assign[u] \in C
            ELSE plan.assign[u] = Nowhere
  <2>1. RoutesTyped(routes, ActiveUsers) /\ DOMAIN routes = User
    BY <1>0, RoutesAreTyped
  <2>2. StatesTyped(ctl.states)
    BY <1>1, RecordsTyped
  <2> QED
    BY <2>1, <2>2, EvacuationPlan
<1>4. C \subseteq Account /\ \A a \in C : Usable(ctl.states[a]) /\ a # Nowhere
  BY <1>1, CandidatesUsable
<1>5. \A a \in C : seenFree[a] <= StaleAfter
  <2>1. \A a \in C : seenFree[a] <= ctl.observed
    BY <1>1, <1>4 DEF UsableSince
  <2>2. \A a \in C : seenFree[a] \in Nat
    BY <1>0, <1>4 DEF FailoverTypes, Age
  <2> QED
    BY <1>1, <2>1, <2>2, AgeFacts DEF Age
<1>6. UNCHANGED <<seenFree, userKeys, routes>> /\ ActiveUsers' = ActiveUsers
  BY DEF Evacuate, inputs, ActiveUsers
<1> HIDE DEF plan
<1>7. CASE plan.affected = {} \/ ~Movable(plan)
  <2>1. ctl' = [ctl EXCEPT !.at = "finishing"]
    BY <1>2, <1>7
  <2>2. /\ DOMAIN ctl' = DOMAIN ctl /\ ctl'.at = "finishing" /\ ctl'.states = ctl.states
        /\ ctl'.observed = ctl.observed /\ ctl'.assign = ctl.assign
        /\ ctl'.expected = ctl.expected
    BY <1>1, <2>1
  <2>3. Moved(ctl'.assign) = {}
    BY <1>1, <2>2 DEF Moved, EmptyPlan
  <2> QED
    BY <1>1, <2>2, <2>3, EmptyTyped DEF RoundInv, InRound
<1>8. CASE ~(plan.affected = {} \/ ~Movable(plan))
  <2>1. ctl' = [ctl EXCEPT !.at = "planned", !.assign = plan.assign, !.expected = routes]
    BY <1>2, <1>8
  <2>2. /\ DOMAIN ctl' = DOMAIN ctl /\ ctl'.at = "planned" /\ ctl'.states = ctl.states
        /\ ctl'.observed = ctl.observed /\ ctl'.assign = plan.assign
        /\ ctl'.expected = routes
    BY <1>1, <2>1
  <2>3. plan.assign \in Plan /\ routes \in Plan
    BY <1>0, <1>3, <1>4 DEF Plan, Target, FailoverTypes
  <2>4. \A u \in User :
          IF u \in ActiveUsers /\ ctl'.expected[u] \in sources THEN ctl'.assign[u] \in C
          ELSE ctl'.assign[u] = Nowhere
    BY <1>3, <1>8, <2>2
  <2>5. RoundInv(ctl')
    BY <1>1, <2>2, <2>3, <2>4 DEF RoundInv, InRound
  <2>6. \A u \in Moved(ctl'.assign) : ctl'.assign[u] \in C
    BY <1>3, <2>2 DEF Moved
  <2> QED
    BY <1>5, <2>5, <2>6
<1> QED
  BY <1>7, <1>8

\* Admin's plans are plans, of accounts with capacity.
LEMMA AdminPlanInv ==
  ASSUME FailoverInv,
         Rebalance \/ (\E a \in Account : EvacuateAccount(a))
                   \/ (\E u \in User : AutoAssignRoute(u))
  PROVE  /\ adm'.assign \in Plan
         /\ \A u \in Moved(adm'.assign) : seenFree[adm'.assign[u]] <= StaleAfter
         /\ UNCHANGED <<inputs, quota, routes, rstate, ctl, seenFree>>
<1>0. FailoverTypes /\ UsableSince(rstate.states, seenFree, rstate.observed)
  BY DEF FailoverInv
<1>1. /\ StateRecords(AccountStates) /\ StatesTyped(AccountStates)
      /\ \A a \in Account : Usable(AccountStates[a]) => seenFree[a] <= StaleAfter
  BY <1>0, AccountStatesTyped, RecordsTyped
<1>2. RoutesTyped(routes, ActiveUsers) /\ DOMAIN routes = User
  BY <1>0, RoutesAreTyped
<1>3. ASSUME NEW C, C \subseteq Account, \A a \in C : Usable(AccountStates[a]),
             NEW assign \in [User -> C \cup {Nowhere}], AdminPlans(assign)
      PROVE  /\ adm'.assign \in Plan
             /\ \A u \in Moved(adm'.assign) : seenFree[adm'.assign[u]] <= StaleAfter
             /\ UNCHANGED <<inputs, quota, routes, rstate, ctl, seenFree>>
  <2>1. adm'.assign = assign /\ UNCHANGED <<inputs, quota, routes, rstate, ctl, seenFree>>
    BY <1>3 DEF AdminPlans
  <2>2. assign \in Plan
    BY <1>3 DEF Plan, Target
  <2>3. \A u \in Moved(assign) : assign[u] \in C
    BY <1>3 DEF Moved
  <2> QED
    BY <1>1, <1>3, <2>1, <2>2, <2>3
<1>4. CASE Rebalance
  <2> DEFINE plan == PlanGlobalRebalance(routes, ActiveUsers, RoutableUsers, AccountStates)
  <2>1. AdminPlans(plan.assign)
    BY <1>4 DEF Rebalance
  <2>2. plan.assign \in [User -> Candidates(AccountStates, {}) \cup {Nowhere}]
    BY <1>1, <1>2, RebalancePlan
  <2>3. /\ Candidates(AccountStates, {}) \subseteq Account
        /\ \A a \in Candidates(AccountStates, {}) : Usable(AccountStates[a])
    BY <1>1, CandidatesUsable
  <2> HIDE DEF plan
  <2> QED
    BY <1>3, <2>1, <2>2, <2>3
<1>5. CASE \E a \in Account : EvacuateAccount(a)
  <2>1. PICK b \in Account : EvacuateAccount(b)
    BY <1>5
  <2> DEFINE plan == PlanEvacuation(routes, ActiveUsers, RoutableUsers, AccountStates, {b})
  <2> DEFINE C == Candidates(AccountStates, {b})
  <2>2. AdminPlans(plan.assign)
    BY <2>1 DEF EvacuateAccount
  <2>3. plan.assign \in [User -> C \cup {Nowhere}]
    BY <1>1, <1>2, EvacuationPlan
  <2>4. C \subseteq Account /\ \A a \in C : Usable(AccountStates[a])
    BY <1>1, CandidatesUsable
  <2> HIDE DEF plan, C
  <2> QED
    BY <1>3, <2>2, <2>3, <2>4
<1>6. CASE \E u \in User : AutoAssignRoute(u)
  <2>1. PICK v \in User : AutoAssignRoute(v)
    BY <1>6
  <2> DEFINE b == LeastUsedEligibleAccount(enabled, AccountStates)
  <2> DEFINE C == Candidates(AccountStates, {})
  <2>2. b # Nowhere /\ AdminPlans([EmptyPlan(User) EXCEPT ![v] = b])
    BY <2>1 DEF AutoAssignRoute
  <2>3. b \in C
    BY <1>1, <2>2, LeastUsedIn
  <2>4. C \subseteq Account /\ \A a \in C : Usable(AccountStates[a])
    BY <1>1, CandidatesUsable
  <2> HIDE DEF b, C
  <2>5. [EmptyPlan(User) EXCEPT ![v] = b] \in [User -> C \cup {Nowhere}]
    BY <2>3 DEF EmptyPlan
  <2> QED
    BY <1>3, <2>2, <2>4, <2>5
<1> QED
  BY <1>4, <1>5, <1>6

\* The steps of the worker's round.
LEMMA ControllerInv ==
  ASSUME FailoverInv, ControllerNext
  PROVE  /\ routes' \in Plan /\ RowInv(rstate') /\ RoundInv(ctl')
         /\ UNCHANGED <<inputs, quota, adm, seenFree>>
<1>0. /\ WorldInv /\ routes \in Plan /\ adm.assign \in Plan
      /\ RowInv(rstate) /\ RoundInv(ctl) /\ FailoverTypes
  BY FailoverInvParts DEF FailoverInv
<1>1. CASE RoundOff
  <2>1. rstate' = [rstate EXCEPT !.mode = "off", !.error = FALSE] /\ ctl' = Idle
    BY <1>1 DEF RoundOff
  <2>2. /\ DOMAIN rstate' = DOMAIN rstate /\ rstate'.states = rstate.states
        /\ rstate'.observed = rstate.observed
    BY <1>0, <2>1 DEF RowInv
  <2>3. RowInv(rstate')
    BY <1>0, <2>2 DEF RowInv
  <2> QED
    BY <1>0, <1>1, <2>1, <2>3, IdleInv DEF RoundOff
<1>2. ASSUME NEW states, StateRecords(states), NEW observed \in Age,
             UsableSince(states, seenFree, observed), NEW check, NEW error
      PROVE  RowInv(State(states, observed, check, error))
  BY <1>2 DEF RowInv, State
<1>3. CASE Check
  <2>1. /\ StateRecords(BuildAccountStates) /\ quota.age \in Age
        /\ UsableSince(BuildAccountStates, seenFree, quota.age)
    <3>1. \A a \in Account : Usable(BuildAccountStates[a]) => FreeIn(quota.accounts[a])
      BY <1>0, BuiltTyped
    <3>2. StateRecords(BuildAccountStates)
      BY <1>0, BuiltTyped
    <3> QED
      BY <1>0, <3>1, <3>2 DEF WorldInv, FreeSince, UsableSince
  <2>2. CASE QuotaHealthy
    <3>1. /\ ctl' = [Idle EXCEPT !.at = "checked", !.states = BuildAccountStates,
                                  !.observed = quota.age]
          /\ rstate' = rstate
      BY <1>3, <2>2 DEF Check
    <3>2. /\ DOMAIN ctl' = {"at", "states", "observed", "assign", "expected", "error", "forced"}
          /\ ctl'.at = "checked" /\ ctl'.states = BuildAccountStates
          /\ ctl'.observed = quota.age /\ ctl'.assign = EmptyPlan(User)
          /\ ctl'.expected = EmptyPlan(User)
      BY <3>1 DEF Idle
    <3>3. quota.age <= StaleAfter
      BY <2>2 DEF QuotaHealthy
    <3>4. RoundInv(ctl')
      BY <2>1, <3>2, <3>3, EmptyTyped DEF RoundInv
    <3> QED
      BY <1>0, <1>3, <3>1, <3>4 DEF Check
  <2>3. CASE ~QuotaHealthy
    <3>1. rstate' = State(BuildAccountStates, quota.age, 0, TRUE) /\ ctl' = Idle
      BY <1>3, <2>3 DEF Check
    <3> QED
      BY <1>0, <1>2, <1>3, <2>1, <3>1, IdleInv DEF Check
  <2> QED
    BY <2>2, <2>3
<1>4. CASE CheckFails
  <2>1. rstate' = State(rstate.states, rstate.observed, 0, TRUE) /\ ctl' = Idle
    BY <1>4 DEF CheckFails
  <2>2. RowInv(rstate')
    BY <1>0, <1>2, <2>1 DEF RowInv
  <2> QED
    BY <1>0, <1>4, <2>1, <2>2, IdleInv DEF CheckFails
<1>5. CASE Evacuate
  BY <1>0, <1>5, EvacuateInv DEF Evacuate
<1>6. ASSUME NEW c, DOMAIN c = DOMAIN ctl, c.at = "finishing", c.states = ctl.states,
             c.observed = ctl.observed, c.assign = ctl.assign, c.expected = ctl.expected,
             ctl.at \in InRound
      PROVE  RoundInv(c)
  BY <1>0, <1>6 DEF RoundInv, InRound
<1>7. After(routes, ctl.assign) \in Plan
  BY <1>0 DEF After, Plan, RoundInv
<1>8. CASE ApplyPlan
  <2>1. ctl' = [ctl EXCEPT !.at = "finishing"] /\ ctl.at = "planned"
    BY <1>8 DEF ApplyPlan
  <2>2. RoundInv(ctl')
    BY <1>0, <1>6, <2>1 DEF RoundInv, InRound
  <2> QED
    BY <1>0, <1>7, <1>8, <2>2 DEF ApplyPlan
<1>9. CASE ApplyPlanFails
  <2>1. ctl' = [ctl EXCEPT !.at = "finishing", !.error = TRUE] /\ ctl.at = "planned"
    BY <1>9 DEF ApplyPlanFails
  <2>2. RoundInv(ctl')
    BY <1>0, <1>6, <2>1 DEF RoundInv, InRound
  <2>3. routes' \in Plan
    BY <1>0, <1>7, <1>9 DEF ApplyPlanFails
  <2> QED
    BY <1>0, <1>9, <2>2, <2>3 DEF ApplyPlanFails
<1>10. CASE FinishRound
  <2>1. rstate' = State(ctl.states, ctl.observed, 0, ctl.error) /\ ctl' = Idle
    BY <1>10 DEF FinishRound
  <2>2. UsableSince(ctl.states, seenFree, ctl.observed)
    BY <1>0, <1>10 DEF FinishRound, RoundInv, InRound
  <2>3. RowInv(rstate')
    BY <1>0, <1>2, <2>1, <2>2 DEF RoundInv
  <2> QED
    BY <1>0, <1>10, <2>1, <2>3, IdleInv DEF FinishRound
<1>11. CASE RoundLost
  BY <1>0, <1>11, IdleInv DEF RoundLost
<1> QED
  BY <1>1, <1>3, <1>4, <1>5, <1>8, <1>9, <1>10, <1>11 DEF ControllerNext

\* What is left alone keeps its part of the invariant.
LEMMA PartsKept ==
  ASSUME FailoverInv, UNCHANGED <<userKeys, seenFree>>
  PROVE  /\ UNCHANGED <<enabled, quota>> => WorldInv'
         /\ RowInv(rstate') => RowInv(rstate)'
         /\ RoundInv(ctl') => RoundInv(ctl)'
         /\ rstate' = rstate => RowInv(rstate)'
         /\ ctl' = ctl => RoundInv(ctl)'
<1>0. WorldInv /\ RowInv(rstate) /\ RoundInv(ctl)
  BY FailoverInvParts
<1>1. ActiveUsers' = ActiveUsers
  BY DEF ActiveUsers
<1>2. UNCHANGED <<enabled, quota>> => WorldInv'
  BY <1>0 DEF WorldInv, FreeSince, FreeIn
<1>3. RowInv(rstate') => RowInv(rstate)'
  BY DEF RowInv
<1>4. RoundInv(ctl') => RoundInv(ctl)'
  BY <1>1 DEF RoundInv
<1> QED
  BY <1>0, <1>2, <1>3, <1>4

\* The steps of Admin and the portal.
LEMMA AdminInv ==
  ASSUME FailoverInv, AdminNext
  PROVE  /\ routes' \in Plan /\ adm'.assign \in Plan
         /\ UNCHANGED <<inputs, quota, rstate, ctl, seenFree>>
<1>0. FailoverTypes /\ routes \in Plan /\ adm.assign \in Plan
  BY DEF FailoverInv, FailoverTypes
<1>1. CASE Rebalance \/ (\E a \in Account : EvacuateAccount(a))
                     \/ (\E u \in User : AutoAssignRoute(u))
  BY <1>0, <1>1, AdminPlanInv
<1>2. CASE \E u \in User : ChangeRoute(u)
  <2>1. PICK u \in User, a \in enabled : AdminPlans([EmptyPlan(User) EXCEPT ![u] = a])
    BY <1>2 DEF ChangeRoute
  <2>2. [EmptyPlan(User) EXCEPT ![u] = a] \in Plan
    BY <1>0, <2>1, EmptyTyped DEF Plan, Target, FailoverTypes
  <2> QED
    BY <1>0, <2>1, <2>2 DEF AdminPlans
<1>3. CASE AdminApplies
  <2>1. After(routes, adm.assign) \in Plan
    BY <1>0 DEF After, Plan
  <2>2. adm'.assign = EmptyPlan(User)
    BY <1>3 DEF AdminApplies, NoMove
  <2> QED
    BY <1>0, <1>3, <2>1, <2>2, EmptyTyped DEF AdminApplies
<1> QED
  BY <1>1, <1>2, <1>3 DEF AdminNext

\* The steps of the quota worker, of time and of the operators.
LEMMA WorldStepInv ==
  ASSUME FailoverInv, WorldNext
  PROVE  /\ WorldInv' /\ RowInv(rstate)' /\ RoundInv(ctl)'
         /\ UNCHANGED <<routes, adm>>
<1>0. /\ WorldInv /\ RowInv(rstate) /\ RoundInv(ctl)
      /\ FailoverTypes /\ seenFree \in [Account -> Age]
  BY FailoverInvParts DEF FailoverInv, FailoverTypes
<1>1. CASE RefreshQuota
  <2>1. PICK snapshot \in Snapshots :
          quota' = [found |-> TRUE, age |-> 0, failed |-> FALSE,
                    accounts |-> [a \in Account |-> Fetched(snapshot[a])]]
    BY <1>1 DEF RefreshQuota
  <2>2. /\ quota'.age = 0 /\ quota'.accounts = [a \in Account |-> Fetched(snapshot[a])]
        /\ DOMAIN quota' = {"found", "age", "failed", "accounts"}
    BY <2>1
  <2>3. \A a \in Account : QuotaRecord(quota'.accounts[a])
    BY <2>2, FetchedTyped, FailoverAssumption
  <2>4. seenFree' = [a \in Account |-> IF FreeIn(quota'.accounts[a]) THEN 0 ELSE seenFree[a]]
    BY <1>1 DEF RefreshQuota, FreeIn
  <2>5. /\ seenFree' \in [Account -> Age]
        /\ \A a \in Account : seenFree'[a] <= seenFree[a]
        /\ \A a \in Account : FreeIn(quota'.accounts[a]) => seenFree'[a] = 0
    BY <1>0, <2>4, AgeFacts DEF Age
  <2>6. /\ UNCHANGED <<enabled, userKeys, rstate, ctl, routes, adm>>
        /\ ActiveUsers' = ActiveUsers
    BY <1>1 DEF RefreshQuota, inputs, ActiveUsers
  <2>7. WorldInv'
    <3>1. quota'.age \in Age /\ DOMAIN quota'.accounts = Account
      BY <2>2, AgeFacts
    <3>2. \A a \in Account : FreeIn(quota'.accounts[a]) => seenFree'[a] <= quota'.age
      BY <2>2, <2>5
    <3>3. FreeSince(quota.accounts, seenFree, quota.age)'
      BY <3>2 DEF FreeSince, FreeIn
    <3> QED
      BY <1>0, <2>2, <2>3, <2>5, <2>6, <3>1, <3>3 DEF WorldInv
  <2>8. RowInv(rstate)'
    <3>1. UsableSince(rstate.states, seenFree', rstate.observed)
      BY <1>0, <2>5, SinceKept DEF RowInv
    <3> QED
      BY <1>0, <2>6, <3>1 DEF RowInv
  <2>9. RoundInv(ctl)'
    <3>1. ctl.at \in InRound => UsableSince(ctl.states, seenFree', ctl.observed)
      BY <1>0, <2>5, SinceKept DEF RoundInv
    <3> QED
      BY <1>0, <2>6, <3>1 DEF RoundInv
  <2> QED
    BY <2>6, <2>7, <2>8, <2>9
<1>2. CASE RefreshFails
  <2>1. quota' = [quota EXCEPT !.failed = TRUE] /\ UNCHANGED <<inputs, seenFree, rstate, ctl>>
    BY <1>2 DEF RefreshFails
  <2>2. /\ DOMAIN quota' = DOMAIN quota /\ quota'.age = quota.age
        /\ quota'.accounts = quota.accounts
    BY <1>0, <2>1 DEF WorldInv
  <2>3. WorldInv'
    BY <1>0, <2>1, <2>2 DEF WorldInv, inputs, FreeSince, FreeIn
  <2> QED
    BY <1>2, <2>1, <2>3, PartsKept DEF RefreshFails, inputs
<1>3. CASE Tick
  <2>1. /\ quota' = [quota EXCEPT !.age = Older(@)]
        /\ rstate' = [rstate EXCEPT !.observed = Older(@),
                                     !.check = IF @ < Poll THEN @ + 1 ELSE @]
        /\ seenFree' = [a \in Account |-> Older(seenFree[a])]
        /\ UNCHANGED <<inputs, routes, ctl, adm>> /\ ctl.at = "idle"
    BY <1>3 DEF Tick
  <2>2. /\ DOMAIN quota' = DOMAIN quota /\ quota'.age = Older(quota.age)
        /\ quota'.accounts = quota.accounts
    BY <1>0, <2>1 DEF WorldInv
  <2>3. /\ DOMAIN rstate' = DOMAIN rstate /\ rstate'.observed = Older(rstate.observed)
        /\ rstate'.states = rstate.states
    BY <1>0, <2>1 DEF RowInv
  <2>4. seenFree' \in [Account -> Age]
    BY <1>0, <2>1, AgeFacts
  <2>5. FreeSince(quota.accounts, seenFree', Older(quota.age)) /\ Older(quota.age) \in Age
    BY <1>0, <2>1, AgeFacts DEF WorldInv, FreeSince
  <2>6. WorldInv'
    BY <1>0, <2>1, <2>2, <2>4, <2>5 DEF WorldInv, FreeSince, FreeIn, inputs
  <2>7. UsableSince(rstate.states, seenFree', Older(rstate.observed)) /\ Older(rstate.observed) \in Age
    BY <1>0, <2>1, AgeFacts DEF RowInv, UsableSince
  <2>8. RowInv(rstate)'
    BY <1>0, <2>3, <2>7 DEF RowInv
  <2>9. RoundInv(ctl)'
    BY <1>0, <2>1 DEF RoundInv, InRound
  <2> QED
    BY <2>1, <2>6, <2>8, <2>9
<1>4. CASE SetMode \/ ContainersChange \/ NativeChanges
  <2>1. UNCHANGED <<enabled, userKeys, quota, seenFree, rstate, ctl, routes, adm>>
    BY <1>4 DEF SetMode, ContainersChange, NativeChanges
  <2> QED
    BY <2>1, PartsKept
<1>5. CASE \E a \in Account : SetEnabled(a)
  <2>1. /\ UNCHANGED <<userKeys, quota, seenFree, rstate, ctl, routes, adm>>
        /\ enabled' \subseteq Account
    BY <1>0, <1>5 DEF SetEnabled, FailoverTypes
  <2>2. WorldInv'
    BY <1>0, <2>1 DEF WorldInv, FreeSince, FreeIn
  <2> QED
    BY <2>1, <2>2, PartsKept
<1> QED
  BY <1>1, <1>2, <1>3, <1>4, <1>5 DEF WorldNext

\* The types of the failover state, and that no account is usable in any row
\* or round that is not backed by a refresh at least as recent.
THEOREM FailoverInvariant == FSpec => []FailoverInv
<1>1. FInit => FailoverInv
  <2> SUFFICES ASSUME FInit PROVE FailoverInv
    OBVIOUS
  <2>1. WorldInv
    <3>1. \A a \in Account : QuotaRecord(NoQuota.accounts[a]) /\ ~FreeIn(NoQuota.accounts[a])
      BY DEF NoQuota, UnavailableAccount, QuotaRecord, FreeIn
    <3>2. /\ DOMAIN NoQuota = {"found", "age", "failed", "accounts"} /\ NoQuota.age = Old
          /\ DOMAIN NoQuota.accounts = Account
      BY DEF NoQuota
    <3> QED
      BY <3>1, <3>2, AgeFacts DEF FInit, WorldInv, FreeSince
  <2>2. RowInv(rstate)
    BY NoStateTyped, AgeFacts DEF FInit, RowInv, UsableSince, NoStates
  <2>3. RoundInv(ctl) /\ routes \in Plan /\ adm.assign \in Plan
    BY IdleInv, EmptyTyped, FailoverAssumption DEF FInit, NoMove, Plan
  <2> QED
    BY <2>1, <2>2, <2>3, FailoverInvParts
<1>2. FailoverInv /\ [FNext]_fvars => FailoverInv'
  <2> SUFFICES ASSUME FailoverInv, [FNext]_fvars
               PROVE  /\ WorldInv' /\ routes' \in Plan /\ adm'.assign \in Plan
                      /\ RowInv(rstate)' /\ RoundInv(ctl)'
    <3>1. (FailoverInv <=> /\ WorldInv /\ routes \in Plan /\ adm.assign \in Plan
                           /\ RowInv(rstate) /\ RoundInv(ctl))'
      BY FailoverInvParts, PTL
    <3> QED
      BY <3>1
  <2>0. routes \in Plan /\ adm.assign \in Plan
    BY FailoverInvParts
  <2>1. CASE ControllerNext
    BY <2>0, <2>1, ControllerInv, PartsKept DEF inputs
  <2>2. CASE AdminNext
    BY <2>0, <2>2, AdminInv, PartsKept DEF inputs
  <2>3. CASE WorldNext
    BY <2>0, <2>3, WorldStepInv
  <2>4. CASE UNCHANGED fvars
    BY <2>0, <2>4, PartsKept DEF fvars, inputs
  <2> QED
    BY <2>1, <2>2, <2>3, <2>4 DEF FNext
<1> QED
  BY <1>1, <1>2, PTL DEF FSpec

\* Nobody is planned onto an account that no refresh of the last
\* stale_after_seconds has found free, by the worker (controller.go) or, through
\* the row it leaves behind, by Admin and the portal (providers.go): for any
\* users, accounts, reserve, poll and staleness limits.
THEOREM PlansUseFreshCapacity == FSpec => PlannedOntoFreshCapacity
<1>1. FailoverInv /\ [FNext]_fvars =>
        [/\ Evacuate => \A u \in Moved(ctl'.assign) : seenFree[ctl'.assign[u]] <= StaleAfter
         /\ Rebalance \/ (\E a \in Account : EvacuateAccount(a))
                      \/ (\E u \in User : AutoAssignRoute(u)) =>
              \A u \in Moved(adm'.assign) : seenFree[adm'.assign[u]] <= StaleAfter]_fvars
  BY EvacuateInv, AdminPlanInv
<1> QED
  BY <1>1, FailoverInvariant, PTL DEF FSpec, PlannedOntoFreshCapacity

\* An evacuation that is applied leaves no active user it found on an exhausted
\* account there, puts each on a candidate, and moves nobody else
\* (PlanEvacuation, evacuate and applyPlan).
THEOREM EvacuationsAreComplete == FSpec => EvacuationComplete
<1>1. FailoverInv /\ [FNext]_fvars =>
        [ApplyPlan =>
           LET sources == ExhaustedAccounts(ctl.states)
           IN  \A u \in User :
                 IF u \in ActiveUsers /\ ctl.expected[u] \in sources
                 THEN routes'[u] \in Candidates(ctl.states, sources)
                 ELSE routes'[u] = routes[u]]_fvars
  <2> DEFINE sources == ExhaustedAccounts(ctl.states)
  <2> DEFINE C == Candidates(ctl.states, sources)
  <2> SUFFICES ASSUME FailoverInv, ApplyPlan, NEW u \in User
               PROVE  IF u \in ActiveUsers /\ ctl.expected[u] \in sources
                      THEN routes'[u] \in C ELSE routes'[u] = routes[u]
    OBVIOUS
  <2>1. IF u \in ActiveUsers /\ ctl.expected[u] \in sources
        THEN ctl.assign[u] \in C ELSE ctl.assign[u] = Nowhere
    BY DEF FailoverInv, RoundPlanned, ApplyPlan
  <2>2. Nowhere \notin C
    <3>1. StateRecords(ctl.states)
      BY DEF FailoverInv, FailoverTypes
    <3> QED
      BY <3>1, CandidatesUsable
  <2>3. routes'[u] = IF ctl.assign[u] = Nowhere THEN routes[u] ELSE ctl.assign[u]
    <3>1. DOMAIN routes = User
      BY DEF FailoverInv, FailoverTypes, Plan
    <3> QED
      BY <3>1 DEF ApplyPlan, After
  <2> HIDE DEF C
  <2> QED
    BY <2>1, <2>2, <2>3
<1> QED
  BY <1>1, FailoverInvariant, PTL DEF FSpec, EvacuationComplete

-----------------------------------------------------------------------------
(* Counting users account by account *)

\* The users of an account are a finite set, and a part of all of them.
LEMMA RoutedFinite ==
  ASSUME NEW f, NEW A, IsFiniteSet(A), NEW c
  PROVE  /\ IsFiniteSet(RoutedTo(f, A, c)) /\ RoutedTo(f, A, c) \subseteq A
         /\ Cardinality(RoutedTo(f, A, c)) \in Nat
<1>1. RoutedTo(f, A, c) \subseteq A
  BY DEF RoutedTo
<1> QED
  BY <1>1, FS_Subset, FS_CardinalityType

\* Disjoint sets are counted one after the other.
LEMMA CountApart ==
  ASSUME NEW A, IsFiniteSet(A), NEW B, IsFiniteSet(B), A \cap B = {}
  PROVE  /\ IsFiniteSet(A \cup B) /\ Cardinality(A) \in Nat /\ Cardinality(B) \in Nat
         /\ Cardinality(A \cup B) = Cardinality(A) + Cardinality(B)
<1>1. Cardinality(A) \in Nat /\ Cardinality(B) \in Nat
  BY FS_CardinalityType
<1>2. Cardinality(A \cap B) = 0
  BY FS_EmptySet
<1>3. /\ IsFiniteSet(A \cup B)
      /\ Cardinality(A \cup B) = Cardinality(A) + Cardinality(B) - Cardinality(A \cap B)
  BY FS_Union
<1> QED
  BY <1>1, <1>2, <1>3

\* Every account has at most as many users of A as of B.
NoMore(C, f, A, g, B) ==
    \A c \in C : Cardinality(RoutedTo(f, A, c)) <= Cardinality(RoutedTo(g, B, c))

\* When every account has at most as many users of A as of B, and all of A
\* are somewhere, A is not larger.
LEMMA NoMoreInAll ==
  ASSUME NEW C, IsFiniteSet(C), C \subseteq Nat,
         NEW A, IsFiniteSet(A), NEW B, IsFiniteSet(B), NEW f, NEW g,
         \A x \in A : f[x] \in C, NoMore(C, f, A, g, B)
  PROVE  Cardinality(A) <= Cardinality(B)
<1> DEFINE On(h, X, D) == {x \in X : h[x] \in D}
<1> DEFINE Good == {D \in SUBSET C : Cardinality(On(f, A, D)) <= Cardinality(On(g, B, D))}
<1>0. \A D : /\ IsFiniteSet(On(f, A, D)) /\ IsFiniteSet(On(g, B, D))
            /\ Cardinality(On(f, A, D)) \in Nat /\ Cardinality(On(g, B, D)) \in Nat
  <2> SUFFICES ASSUME NEW D
               PROVE  /\ IsFiniteSet(On(f, A, D)) /\ IsFiniteSet(On(g, B, D))
                      /\ Cardinality(On(f, A, D)) \in Nat /\ Cardinality(On(g, B, D)) \in Nat
    OBVIOUS
  <2>1. On(f, A, D) \in SUBSET A /\ On(g, B, D) \in SUBSET B
    OBVIOUS
  <2> HIDE DEF On
  <2> QED
    BY <2>1, FS_Subset, FS_CardinalityType
<1>1. {} \in Good
  <2>1. On(f, A, {}) = {} /\ On(g, B, {}) = {}
    OBVIOUS
  <2>2. Cardinality({}) <= Cardinality({})
    BY FS_EmptySet
  <2> QED
    BY <2>1, <2>2
<1>2. ASSUME NEW D \in SUBSET C, D # {}, D \ {Greatest(D)} \in Good PROVE D \in Good
  <2> DEFINE c == Greatest(D)
  <2> DEFINE E == D \ {c}
  <2>1. c \in D
    BY <1>2, WithoutGreatest, Zenon
  <2>2. Cardinality(On(f, A, E)) <= Cardinality(On(g, B, E))
    BY <1>2
  <2> HIDE DEF c
  <2>3. /\ On(f, A, D) = On(f, A, E) \cup RoutedTo(f, A, c)
        /\ On(g, B, D) = On(g, B, E) \cup RoutedTo(g, B, c)
        /\ On(f, A, E) \cap RoutedTo(f, A, c) = {} /\ On(g, B, E) \cap RoutedTo(g, B, c) = {}
    BY <2>1 DEF RoutedTo
  <2>4. Cardinality(RoutedTo(f, A, c)) <= Cardinality(RoutedTo(g, B, c))
    BY <2>1 DEF NoMore
  <2> HIDE DEF On, E
  <2>5. /\ Cardinality(On(f, A, D)) = Cardinality(On(f, A, E)) + Cardinality(RoutedTo(f, A, c))
        /\ Cardinality(On(g, B, D)) = Cardinality(On(g, B, E)) + Cardinality(RoutedTo(g, B, c))
    BY <1>0, <2>3, RoutedFinite, CountApart
  <2>6. Cardinality(RoutedTo(f, A, c)) \in Nat /\ Cardinality(RoutedTo(g, B, c)) \in Nat
    BY RoutedFinite
  <2>7. Cardinality(On(f, A, D)) <= Cardinality(On(g, B, D))
    BY <1>0, <2>2, <2>4, <2>5, <2>6
  <2> QED
    BY <2>7
<1>3. C \in Good
  <2> HIDE DEF Good
  <2> QED
    BY <1>1, <1>2, InductionInOrder
<1>4. Cardinality(On(f, A, C)) <= Cardinality(On(g, B, C))
  BY <1>3
<1>5. On(f, A, C) = A /\ On(g, B, C) \in SUBSET B
  OBVIOUS
<1> HIDE DEF On
<1>6. Cardinality(On(g, B, C)) <= Cardinality(B) /\ Cardinality(B) \in Nat
  BY <1>5, FS_Subset, FS_CardinalityType
<1> QED
  BY <1>0, <1>4, <1>5, <1>6

\* If moreover A and B are of the same size, every account has as many.
LEMMA SameInAll ==
  ASSUME NEW C, IsFiniteSet(C), C \subseteq Nat,
         NEW A, IsFiniteSet(A), NEW B, IsFiniteSet(B), NEW f, NEW g,
         \A x \in A : f[x] \in C, NoMore(C, f, A, g, B), Cardinality(A) = Cardinality(B),
         NEW c \in C
  PROVE  Cardinality(RoutedTo(f, A, c)) = Cardinality(RoutedTo(g, B, c))
<1>0. \A d : /\ Cardinality(RoutedTo(f, A, d)) \in Nat /\ Cardinality(RoutedTo(g, B, d)) \in Nat
            /\ IsFiniteSet(RoutedTo(g, B, d))
  BY RoutedFinite
<1>1. SUFFICES ASSUME Cardinality(RoutedTo(f, A, c)) < Cardinality(RoutedTo(g, B, c)) PROVE FALSE
  BY <1>0 DEF NoMore
<1>2. RoutedTo(g, B, c) # {}
  BY <1>0, <1>1, FS_EmptySet
<1>3. PICK x \in RoutedTo(g, B, c) : TRUE
  BY <1>2
<1> DEFINE E == B \ {x}
<1>4. x \in B /\ g[x] = c
  BY <1>3 DEF RoutedTo
<1>5. IsFiniteSet(E) /\ Cardinality(E) = Cardinality(B) - 1 /\ Cardinality(B) \in Nat
  BY <1>4, OneLess
<1>6. NoMore(C, f, A, g, E)
  <2> SUFFICES ASSUME NEW d \in C
               PROVE  Cardinality(RoutedTo(f, A, d)) <= Cardinality(RoutedTo(g, E, d))
    BY DEF NoMore
  <2>1. CASE d = c
    <3>1. RoutedTo(g, E, d) = RoutedTo(g, B, c) \ {x}
      BY <2>1 DEF RoutedTo
    <3>2. Cardinality(RoutedTo(g, E, d)) = Cardinality(RoutedTo(g, B, c)) - 1
      BY <1>0, <1>3, <3>1, OneLess
    <3> QED
      BY <1>0, <1>1, <2>1, <3>2
  <2>2. CASE d # c
    <3>1. RoutedTo(g, E, d) = RoutedTo(g, B, d)
      BY <1>4, <2>2 DEF RoutedTo
    <3> QED
      BY <3>1 DEF NoMore
  <2> QED
    BY <2>1, <2>2
<1> HIDE DEF E
<1>7. Cardinality(A) <= Cardinality(E)
  BY <1>5, <1>6, NoMoreInAll
<1> QED
  BY <1>5, <1>7

\* The first k names of a set.
Before(X, u) == {v \in X : v < u}
FirstNames(X, k) == {u \in X : Cardinality(Before(X, u)) < k}

\* Of a set of names as many are among the first k as it has, or k.
LEMMA FirstNamesCount ==
  ASSUME NEW Y, IsFiniteSet(Y), Y \subseteq Nat, NEW k \in Nat
  PROVE  Cardinality(FirstNames(Y, k)) = Min2(Cardinality(Y), k)
<1> DEFINE Good == {X \in SUBSET Y : Cardinality(FirstNames(X, k)) = Min2(Cardinality(X), k)}
<1>0. \A X \in SUBSET Y : IsFiniteSet(X) /\ Cardinality(X) \in Nat /\ X \subseteq Nat
  BY FS_Subset, FS_CardinalityType
<1>1. {} \in Good
  <2>1. FirstNames({}, k) = {}
    BY DEF FirstNames
  <2>2. Cardinality({}) = 0
    BY FS_EmptySet
  <2>3. Min2(0, k) = 0
    BY DEF Min2
  <2> QED
    BY <2>1, <2>2, <2>3
<1>2. ASSUME NEW X \in SUBSET Y, X # {}, X \ {Greatest(X)} \in Good PROVE X \in Good
  <2> DEFINE g == Greatest(X)
  <2> DEFINE Z == X \ {g}
  <2>1. g \in X /\ \A y \in X : y <= g
    BY <1>0, <1>2, GreatestIn
  <2>2. Cardinality(FirstNames(Z, k)) = Min2(Cardinality(Z), k)
    BY <1>2
  <2> HIDE DEF g
  <2>3. IsFiniteSet(Z) /\ Cardinality(Z) = Cardinality(X) - 1 /\ Cardinality(X) > 0
    BY <1>0, <2>1, OneLess
  <2>4. Before(X, g) = Z
    <3>1. \A y \in X : y \in Nat /\ g \in Nat
      BY <1>0, <2>1
    <3>2. \A y \in X : y < g <=> y # g
      BY <2>1, <3>1
    <3> QED
      BY <3>2 DEF Before
  <2>5. \A u \in Z : Before(X, u) = Before(Z, u)
    BY <1>0, <2>1 DEF Before
  <2>6. FirstNames(X, k) = IF Cardinality(Z) < k THEN FirstNames(Z, k) \cup {g}
                           ELSE FirstNames(Z, k)
    BY <2>1, <2>4, <2>5 DEF FirstNames
  <2>7. FirstNames(Z, k) \in SUBSET Z /\ g \notin FirstNames(Z, k)
    BY DEF FirstNames
  <2> HIDE DEF Z
  <2>8. IsFiniteSet(FirstNames(Z, k)) /\ Cardinality(FirstNames(Z, k)) \in Nat
    BY <2>3, <2>7, FS_Subset, FS_CardinalityType
  <2>9. Cardinality(FirstNames(Z, k) \cup {g}) = Cardinality(FirstNames(Z, k)) + 1
    BY <2>7, <2>8, FS_AddElement
  <2>10. Cardinality(FirstNames(X, k)) = Min2(Cardinality(X), k)
    <3>1. Cardinality(X) \in Nat
      BY <1>0
    <3>2. CASE Cardinality(Z) < k
      <4>1. Cardinality(FirstNames(X, k)) = Cardinality(FirstNames(Z, k)) + 1
        BY <2>6, <2>9, <3>2
      <4> QED
        BY <2>2, <2>3, <3>1, <3>2, <4>1 DEF Min2
    <3>3. CASE ~(Cardinality(Z) < k)
      <4>1. Cardinality(FirstNames(X, k)) = Cardinality(FirstNames(Z, k))
        BY <2>6, <3>3
      <4> QED
        BY <2>2, <2>3, <3>1, <3>3, <4>1 DEF Min2
    <3> QED
      BY <3>2, <3>3
  <2> QED
    BY <2>10
<1>3. Y \in Good
  <2> HIDE DEF Good
  <2> QED
    BY <1>1, <1>2, InductionInOrder
<1> QED
  BY <1>3

\* One more user on a: the accounts are counted as before, and a has one more.
LEMMA OneMoreOn ==
  ASSUME NEW s, IsFiniteSet(s), NEW g \in s, NEW w, NEW v,
         \A u \in s \ {g} : v[u] = w[u], NEW b
  PROVE  Cardinality(RoutedTo(v, s, b)) = IF b = v[g]
            THEN Cardinality(RoutedTo(w, s \ {g}, b)) + 1
            ELSE Cardinality(RoutedTo(w, s \ {g}, b))
<1> DEFINE r == s \ {g}
<1>1. IsFiniteSet(r)
  BY OneLess
<1>2. IsFiniteSet(RoutedTo(w, r, b)) /\ g \notin RoutedTo(w, r, b)
  <2>1. RoutedTo(w, r, b) \subseteq r
    BY DEF RoutedTo
  <2> QED
    BY <1>1, <2>1, FS_Subset
<1>3. CASE b = v[g]
  <2>1. RoutedTo(v, s, b) = RoutedTo(w, r, b) \cup {g}
    BY <1>3 DEF RoutedTo
  <2> HIDE DEF r
  <2>2. Cardinality(RoutedTo(w, r, b) \cup {g}) = Cardinality(RoutedTo(w, r, b)) + 1
    BY <1>2, FS_AddElement
  <2> QED
    BY <1>3, <2>1, <2>2 DEF r
<1>4. CASE b # v[g]
  <2>1. RoutedTo(v, s, b) = RoutedTo(w, r, b)
    BY <1>4 DEF RoutedTo
  <2> QED
    BY <1>4, <2>1
<1> QED
  BY <1>3, <1>4

-----------------------------------------------------------------------------
(* Dealing users out, each to the account it weighs least on *)

\* c is what the accounts have once the users s are dealt out on top of base.
Dealt(c, base, s, C) ==
    \E w \in [s -> C] : \A b \in C : c[b] = base[b] + Cardinality(RoutedTo(w, s, b))

\* When a got its last user, with low on the accounts and fewer users dealt
\* than s, no account would have carried the user more lightly.
LastOn(a, low, c, base, s, C, states) ==
    /\ low \in [C -> Nat]
    /\ low[a] + 1 = c[a]
    /\ \A b \in C : (low[a] + 1) * states[b].headroom <= (low[b] + 1) * states[a].headroom
    /\ \E t \in SUBSET s : t # s /\ Dealt(low, base, t, C)

GreedyDeal(c, base, s, C, states) ==
    /\ Dealt(c, base, s, C)
    /\ \A a \in C : c[a] # base[a] => \E low : LastOn(a, low, c, base, s, C, states)

\* Before anybody is dealt out.
LEMMA NobodyDealt ==
  ASSUME NEW C, NEW states, NEW base \in [C -> Nat]
  PROVE  GreedyDeal(base, base, {}, C, states)
<1>1. \A w, b : Cardinality(RoutedTo(w, {}, b)) = 0
  <2>1. \A w, b : RoutedTo(w, {}, b) = {}
    BY DEF RoutedTo
  <2> QED
    BY <2>1, FS_EmptySet
<1> DEFINE w == [x \in {} |-> 0]
<1>2. w \in [{} -> C]
  OBVIOUS
<1> HIDE DEF w
<1>3. \A b \in C : base[b] = base[b] + Cardinality(RoutedTo(w, {}, b))
  BY <1>1
<1>4. Dealt(base, base, {}, C)
  BY <1>2, <1>3 DEF Dealt
<1> QED
  BY <1>4 DEF GreedyDeal

\* Dealing one more user to the least weighted account.
LEMMA OneMoreDealt ==
  ASSUME NEW C, NEW states, Weighed(C, states), C # {}, NEW base \in [C -> Nat],
         NEW s, IsFiniteSet(s), NEW g \in s,
         NEW low \in [C -> Nat], GreedyDeal(low, base, s \ {g}, C, states),
         NEW c \in [C -> Nat],
         \A b \in C : c[b] = IF b = LeastWeightedAccount(C, low, states) THEN low[b] + 1
                             ELSE low[b]
  PROVE  GreedyDeal(c, base, s, C, states)
<1> DEFINE r == s \ {g}
<1> DEFINE a == LeastWeightedAccount(C, low, states)
<1>1. Comparable(C, low, states)
  BY WeighedComparable
<1>2. a \in C
  BY <1>1, LeastWeightedIn
<1>3. ASSUME NEW b \in C
      PROVE  (low[a] + 1) * states[b].headroom <= (low[b] + 1) * states[a].headroom
  <2>1. CASE b = a
    <3>1. (low[a] + 1) * states[a].headroom \in Nat
      BY <1>1, <1>2, WeighOrder DEF Weigh
    <3> QED
      BY <2>1, <3>1
  <2>2. CASE b # a
    <3>1. WeightedLess(a, b, low, states)
      BY <1>1, <2>2, LeastWeightedIn
    <3>2. /\ (low[a] + 1) * states[b].headroom \in Nat
          /\ (low[b] + 1) * states[a].headroom \in Nat
      BY <1>1, <1>2, WeighOrder DEF Weigh
    <3> QED
      BY <3>1, <3>2 DEF WeightedLess
  <2> QED
    BY <2>1, <2>2
<1> HIDE DEF a
<1>4. \A b \in C : c[b] = IF b = a THEN low[b] + 1 ELSE low[b]
  BY DEF a
<1>5. Dealt(low, base, r, C)
  BY DEF GreedyDeal
<1>6. Dealt(c, base, s, C)
  <2>1. PICK w \in [r -> C] : \A b \in C : low[b] = base[b] + Cardinality(RoutedTo(w, r, b))
    BY <1>5 DEF Dealt
  <2> DEFINE v == [u \in s |-> IF u = g THEN a ELSE w[u]]
  <2>2. v \in [s -> C] /\ v[g] = a /\ \A u \in s \ {g} : v[u] = w[u]
    BY <1>2, <2>1
  <2>3. \A b \in C : Cardinality(RoutedTo(w, r, b)) \in Nat
    <3>1. IsFiniteSet(r)
      BY OneLess
    <3> QED
      BY <3>1, RoutedFinite
  <2> HIDE DEF v
  <2>4. \A b \in C : Cardinality(RoutedTo(v, s, b)) = IF b = a
            THEN Cardinality(RoutedTo(w, r, b)) + 1 ELSE Cardinality(RoutedTo(w, r, b))
    <3> SUFFICES ASSUME NEW b \in C
                 PROVE  Cardinality(RoutedTo(v, s, b)) = IF b = a
            THEN Cardinality(RoutedTo(w, r, b)) + 1 ELSE Cardinality(RoutedTo(w, r, b))
      OBVIOUS
    <3> QED
      BY <2>2, OneMoreOn
  <2> HIDE DEF r
  <2>5. \A b \in C : c[b] = base[b] + Cardinality(RoutedTo(v, s, b))
    <3> SUFFICES ASSUME NEW b \in C PROVE c[b] = base[b] + Cardinality(RoutedTo(v, s, b))
      OBVIOUS
    <3>1. base[b] \in Nat /\ low[b] = base[b] + Cardinality(RoutedTo(w, r, b))
      BY <2>1
    <3>2. Cardinality(RoutedTo(w, r, b)) \in Nat
      BY <2>3
    <3>3. CASE b = a
      BY <1>4, <2>4, <3>1, <3>2, <3>3
    <3>4. CASE b # a
      BY <1>4, <2>4, <3>1, <3>2, <3>4
    <3> QED
      BY <3>3, <3>4
  <2> QED
    BY <2>2, <2>5 DEF Dealt
<1>7. ASSUME NEW b \in C, c[b] # base[b] PROVE \E l : LastOn(b, l, c, base, s, C, states)
  <2>0. r \in SUBSET s /\ r # s
    OBVIOUS
  <2>1. CASE b = a
    <3>1. low[a] + 1 = c[a]
      BY <1>2, <1>4
    <3>2. LastOn(a, low, c, base, s, C, states)
      <4> HIDE DEF r
      <4> QED
        BY <1>3, <1>5, <2>0, <3>1 DEF LastOn
    <3> QED
      BY <2>1, <3>2
  <2>2. CASE b # a
    <3>1. low[b] = c[b]
      BY <1>4, <2>2
    <3>2. PICK l : LastOn(b, l, low, base, r, C, states)
      BY <1>7, <3>1 DEF GreedyDeal
    <3>3. PICK t \in SUBSET r : t # r /\ Dealt(l, base, t, C)
      BY <3>2 DEF LastOn
    <3>4. t \in SUBSET s /\ t # s
      BY <3>3
    <3> HIDE DEF r
    <3> QED
      BY <3>1, <3>2, <3>3, <3>4 DEF LastOn
  <2> QED
    BY <2>1, <2>2
<1> QED
  BY <1>6, <1>7 DEF GreedyDeal

\* The users of A are dealt to accounts of C, and one of those is no lighter
\* then than account a is with c[a] users.
Spread(other, A, C) == \A x \in A : other[x] \in C
NotLighter(a, c, base, C, states, other, A) ==
    \E b \in C : /\ RoutedTo(other, A, b) # {}
                 /\ c[a] * states[b].headroom
                       <= (base[b] + Cardinality(RoutedTo(other, A, b))) * states[a].headroom

\* No other way to deal as many users leaves the accounts it uses lighter.
LEMMA DealtLight ==
  ASSUME NEW C, NEW states, Weighed(C, states), NEW base \in [C -> Nat],
         NEW S, IsFiniteSet(S), NEW c \in [C -> Nat], GreedyDeal(c, base, S, C, states),
         NEW A, IsFiniteSet(A), Cardinality(A) = Cardinality(S),
         NEW other, Spread(other, A, C), NEW a \in C, c[a] # base[a]
  PROVE  NotLighter(a, c, base, C, states, other, A)
<1>1. PICK low : LastOn(a, low, c, base, S, C, states)
  BY DEF GreedyDeal
<1>2. PICK t \in SUBSET S : t # S /\ Dealt(low, base, t, C)
  BY <1>1 DEF LastOn
<1>3. PICK w \in [t -> C] : \A b \in C : low[b] = base[b] + Cardinality(RoutedTo(w, t, b))
  BY <1>2 DEF Dealt
<1>4. IsFiniteSet(t) /\ Cardinality(t) < Cardinality(S)
  <2>1. IsFiniteSet(t) /\ Cardinality(t) <= Cardinality(S) /\ Cardinality(t) \in Nat
        /\ Cardinality(S) \in Nat
    BY FS_Subset, FS_CardinalityType
  <2>2. Cardinality(t) # Cardinality(S)
    BY <1>2, FS_Subset
  <2> QED
    BY <2>1, <2>2
<1>5. ~NoMore(C, other, A, w, t)
  <2> SUFFICES ASSUME NoMore(C, other, A, w, t) PROVE FALSE
    OBVIOUS
  <2>1. IsFiniteSet(C) /\ C \subseteq Nat
    BY DEF Weighed, Comparable
  <2>2. Cardinality(A) <= Cardinality(t)
    BY <1>4, <2>1, NoMoreInAll DEF Spread
  <2>3. Cardinality(t) \in Nat /\ Cardinality(S) \in Nat
    BY <1>4, FS_CardinalityType
  <2> QED
    BY <1>4, <2>2, <2>3
<1>6. PICK b \in C : ~(Cardinality(RoutedTo(other, A, b)) <= Cardinality(RoutedTo(w, t, b)))
  BY <1>5 DEF NoMore
<1>7. Cardinality(RoutedTo(other, A, b)) \in Nat /\ Cardinality(RoutedTo(w, t, b)) \in Nat
  BY <1>4, RoutedFinite
<1>8. RoutedTo(other, A, b) # {}
  <2>1. Cardinality(RoutedTo(other, A, b)) # 0
    BY <1>6, <1>7
  <2> QED
    BY <2>1, FS_EmptySet
<1> DEFINE n == base[b] + Cardinality(RoutedTo(other, A, b))
<1>9. /\ low[b] + 1 <= n /\ low[b] + 1 \in Nat /\ n \in Nat /\ low[a] + 1 = c[a]
      /\ c[a] * states[b].headroom <= (low[b] + 1) * states[a].headroom
  <2>1. base[b] \in Nat /\ low[b] \in Nat /\ low[b] = base[b] + Cardinality(RoutedTo(w, t, b))
    BY <1>1, <1>3 DEF LastOn
  <2>2. /\ low[a] + 1 = c[a]
        /\ (low[a] + 1) * states[b].headroom <= (low[b] + 1) * states[a].headroom
    BY <1>1 DEF LastOn
  <2>3. low[b] + 1 <= n /\ low[b] + 1 \in Nat /\ n \in Nat
    BY <1>6, <1>7, <2>1
  <2> QED
    BY <2>2, <2>3
<1>10. /\ states[a].headroom \in Nat /\ states[a].headroom > 0
       /\ states[b].headroom \in Nat /\ c[a] \in Nat
  BY DEF Weighed, Comparable
<1> HIDE DEF n
<1>11. (low[b] + 1) * states[a].headroom <= n * states[a].headroom
  BY <1>9, <1>10, MulLe
<1>12. /\ c[a] * states[b].headroom \in Nat /\ (low[b] + 1) * states[a].headroom \in Nat
       /\ n * states[a].headroom \in Nat
  BY <1>9, <1>10, MulSwap
<1>13. c[a] * states[b].headroom <= n * states[a].headroom
  BY <1>9, <1>11, <1>12
<1> QED
  BY <1>8, <1>13 DEF n, NotLighter

\* Placed deals its users out greedily, and its assignment says who got whom.
LEMMA PlacedGreedy ==
  ASSUME NEW routed, NEW active, NEW S, NEW C, NEW states,
         PlanTyped(routed, active, S, C, states)
  PROVE  LET plan == Placed(routed, active, S, C, states)
             base == Counts(routed, active, C)
         IN  /\ plan.counts \in [C -> Nat] /\ base \in [C -> Nat]
             /\ GreedyDeal(plan.counts, base, S, C, states)
             /\ \A a \in C :
                   plan.counts[a] = base[a] + Cardinality(RoutedTo(plan.assign, S, a))
<1> DEFINE base == Counts(routed, active, C)
<1>0. PICK f : IsPlacing(f, routed, active, S, C, states)
  BY PlacedFold
<1>1. /\ \A s \in SUBSET S : f[s] \in PlacedSoFar(routed, C)
      /\ f[{}] = Unplaced(routed, active, C)
      /\ \A s \in SUBSET S : s # {} =>
            f[s] = Place(f[s \ {Greatest(s)}], Greatest(s), C, states)
      /\ Placed(routed, active, S, C, states) = f[S]
  BY <1>0 DEF IsPlacing
<1>2. /\ IsFiniteSet(S) /\ S \subseteq Nat /\ S \subseteq DOMAIN routed /\ IsFiniteSet(active)
      /\ Weighed(C, states) /\ C # {}
  BY FS_Subset DEF PlanTyped
<1>3. \A s \in SUBSET S : f[s].counts \in [C -> Nat]
  BY <1>1 DEF PlacedSoFar
<1>4. base \in [C -> Nat]
  BY <1>2, CountsNat
<1> HIDE DEF base
<1> DEFINE Counted(s) == \A a \in C :
              f[s].counts[a] = base[a] + Cardinality(RoutedTo(f[s].assign, s, a))
<1> DEFINE Good == {s \in SUBSET S : GreedyDeal(f[s].counts, base, s, C, states) /\ Counted(s)}
<1>5. {} \in Good
  <2>1. f[{}].counts = base
    BY <1>1 DEF Unplaced, base
  <2>2. GreedyDeal(base, base, {}, C, states)
    BY <1>4, NobodyDealt
  <2>3. \A a \in C : Cardinality(RoutedTo(f[{}].assign, {}, a)) = 0
    <3>1. \A a : RoutedTo(f[{}].assign, {}, a) = {}
      BY DEF RoutedTo
    <3> QED
      BY <3>1, FS_EmptySet
  <2>4. Counted({})
    BY <1>4, <2>1, <2>3
  <2> QED
    BY <2>1, <2>2, <2>4
<1>6. ASSUME NEW s \in SUBSET S, s # {}, s \ {Greatest(s)} \in Good PROVE s \in Good
  <2> DEFINE g == Greatest(s)
  <2> DEFINE r == s \ {g}
  <2>1. g \in s
    BY <1>2, <1>6, WithoutGreatest, Zenon
  <2>2. f[s] = Place(f[r], g, C, states) /\ f[r] \in PlacedSoFar(routed, C) /\ g \in S
    BY <1>1, <1>6, <2>1
  <2>3. GreedyDeal(f[r].counts, base, r, C, states) /\ Counted(r)
    BY <1>6
  <2>4. r \in SUBSET S /\ IsFiniteSet(s)
    BY <1>2, FS_Subset
  <2> DEFINE a == Chosen(f[r], C, states)
  <2>5. /\ \A u \in DOMAIN routed : f[s].assign[u] = IF u = g THEN a ELSE f[r].assign[u]
        /\ \A b \in C : f[s].counts[b] = IF b = a THEN f[r].counts[b] + 1 ELSE f[r].counts[b]
    <3> HIDE DEF g, r
    <3> QED
      BY <2>2, PlaceTyped
  <2> HIDE DEF g, Counted
  <2>6. GreedyDeal(f[s].counts, base, s, C, states)
    <3>1. \A b \in C : f[s].counts[b] = IF b = LeastWeightedAccount(C, f[r].counts, states)
                                        THEN f[r].counts[b] + 1 ELSE f[r].counts[b]
      BY <2>5 DEF Chosen
    <3>2. f[s].counts \in [C -> Nat] /\ f[r].counts \in [C -> Nat]
      BY <1>3, <2>4
    <3> QED
      BY <1>2, <1>4, <2>1, <2>3, <2>4, <3>1, <3>2, OneMoreDealt
  <2> HIDE DEF a
  <2>7. Counted(s)
    <3> SUFFICES ASSUME NEW b \in C
                 PROVE  f[s].counts[b] = base[b] + Cardinality(RoutedTo(f[s].assign, s, b))
      BY DEF Counted
    <3> DEFINE w == f[r].assign
    <3> DEFINE v == f[s].assign
    <3>1. v[g] = a /\ \A u \in s \ {g} : v[u] = w[u]
      BY <1>2, <2>1, <2>5
    <3>2. f[r].counts[b] = base[b] + Cardinality(RoutedTo(w, r, b))
      BY <2>3 DEF Counted
    <3>3. Cardinality(RoutedTo(w, r, b)) \in Nat
      <4>1. IsFiniteSet(r)
        BY <1>2, <2>4, FS_Subset
      <4> QED
        BY <4>1, RoutedFinite
    <3> HIDE DEF w, v
    <3>4. Cardinality(RoutedTo(v, s, b)) = IF b = a THEN Cardinality(RoutedTo(w, r, b)) + 1
                                          ELSE Cardinality(RoutedTo(w, r, b))
      BY <2>1, <2>4, <3>1, OneMoreOn
    <3>5. f[s].counts[b] = IF b = a THEN f[r].counts[b] + 1 ELSE f[r].counts[b]
      BY <2>5
    <3>6. base[b] \in Nat
      BY <1>4
    <3> HIDE DEF r
    <3>7. f[s].counts[b] = base[b] + Cardinality(RoutedTo(v, s, b))
      <4>1. CASE b = a
        BY <3>2, <3>3, <3>4, <3>5, <3>6, <4>1
      <4>2. CASE b # a
        BY <3>2, <3>3, <3>4, <3>5, <3>6, <4>2
      <4> QED
        BY <4>1, <4>2
    <3> QED
      BY <3>7 DEF v
  <2> QED
    BY <2>6, <2>7
<1> HIDE DEF Good
<1>7. S \in Good
  BY <1>2, <1>5, <1>6, InductionInOrder
<1> QED
  BY <1>1, <1>3, <1>4, <1>7 DEF Good, base

\* Users S, none of them on account a, are sent where v says; the others stay.
LEMMA CountMoved ==
  ASSUME NEW active, IsFiniteSet(active), NEW S \in SUBSET active, NEW routed, NEW r, NEW v,
         \A u \in S : r[u] = v[u], \A u \in active \ S : r[u] = routed[u],
         NEW a, \A u \in S : routed[u] # a
  PROVE  Cardinality(RoutedTo(r, active, a))
            = Cardinality(RoutedTo(routed, active, a)) + Cardinality(RoutedTo(v, S, a))
<1>1. RoutedTo(r, active, a) = RoutedTo(routed, active, a) \cup RoutedTo(v, S, a)
  BY DEF RoutedTo
<1>2. RoutedTo(routed, active, a) \cap RoutedTo(v, S, a) = {}
  BY DEF RoutedTo
<1>3. IsFiniteSet(S)
  BY FS_Subset
<1>4. IsFiniteSet(RoutedTo(routed, active, a)) /\ IsFiniteSet(RoutedTo(v, S, a))
  BY <1>3, RoutedFinite
<1> QED
  BY <1>1, <1>2, <1>4, CountApart

\* No account of the affected users is fuller than every one under r.
LighterThan(routed, active, affected, C, states, found, r) ==
    \A a \in {found[u] : u \in affected} : \E b \in {r[u] : u \in affected} :
        Counts(found, active, C)[a] * states[b].headroom
            <= Counts(r, active, C)[b] * states[a].headroom

\* The fairness of an evacuation, without the question it answers.
LEMMA EvacuationIsFair ==
  ASSUME NEW routed, NEW active, NEW routable, NEW states, NEW sources,
         RoutesTyped(routed, active), StatesTyped(states),
         Movable(PlanEvacuation(routed, active, routable, states, sources))
  PROVE  LET plan == PlanEvacuation(routed, active, routable, states, sources)
             found == After(routed, plan.assign)
         IN  /\ Moved(plan.assign) = plan.affected
             /\ \A u \in plan.affected : found[u] \in plan.candidates \ sources
             /\ \A other \in [plan.affected -> plan.candidates] :
                   LighterThan(routed, active, plan.affected, plan.candidates, states, found,
                               [u \in DOMAIN routed |-> IF u \in plan.affected THEN other[u]
                                                        ELSE routed[u]])
<1> DEFINE plan == PlanEvacuation(routed, active, routable, states, sources)
<1> DEFINE C == Candidates(states, sources)
<1> DEFINE S == Affected(routed, active, sources)
<1> DEFINE base == Counts(routed, active, C)
<1> DEFINE placed == Placed(routed, active, S, C, states)
<1> DEFINE found == After(routed, plan.assign)
<1>1. plan.candidates = C /\ plan.affected = S /\ plan.skipped = S \ routable
  BY DEF PlanEvacuation
<1>2. C # {} /\ S \ routable = {}
  BY <1>1 DEF Movable
<1>3. S = {u \in active : routed[u] \in sources} /\ S \subseteq DOMAIN routed /\ S \subseteq active
  BY DEF Affected, RoutesTyped
<1>4. plan.assign = placed.assign
  <2>1. S \cap routable = S
    BY <1>2
  <2> QED
    BY <1>2, <2>1 DEF PlanEvacuation
<1>5. /\ Weighed(C, states) /\ C \subseteq Nat /\ Nowhere \notin C
      /\ \A a \in C : a \notin sources
  BY CandidatesWeighed
<1>6. IsFiniteSet(active) /\ IsFiniteSet(S)
  BY <1>3, FS_Subset DEF RoutesTyped
<1>7. PlanTyped(routed, active, S, C, states)
  BY <1>2, <1>3, <1>5 DEF PlanTyped, RoutesTyped
<1> HIDE DEF plan, C, S
<1>8. /\ placed.assign \in [DOMAIN routed -> C \cup {Nowhere}]
      /\ \A u \in S : placed.assign[u] \in C
      /\ \A u \in DOMAIN routed \ S : placed.assign[u] = Nowhere
  BY <1>7, PlacedAssigns
<1>9. /\ placed.counts \in [C -> Nat] /\ base \in [C -> Nat]
      /\ GreedyDeal(placed.counts, base, S, C, states)
      /\ \A a \in C :
            placed.counts[a] = base[a] + Cardinality(RoutedTo(placed.assign, S, a))
  BY <1>7, PlacedGreedy
<1>10. \A a \in C : base[a] = Cardinality(RoutedTo(routed, active, a))
  BY DEF Counts
<1> HIDE DEF placed, base
<1>11. /\ \A u \in S : found[u] = placed.assign[u]
       /\ \A u \in active \ S : found[u] = routed[u]
  BY <1>3, <1>4, <1>5, <1>8 DEF After, RoutesTyped
<1>12. Moved(plan.assign) = S
  BY <1>3, <1>4, <1>5, <1>8 DEF Moved
<1> HIDE DEF found
<1>13. \A u \in S : found[u] \in C \ sources
  BY <1>5, <1>8, <1>11
<1>14. \A a \in C : Counts(found, active, C)[a] = placed.counts[a]
  <2> SUFFICES ASSUME NEW a \in C
               PROVE  Cardinality(RoutedTo(found, active, a)) = placed.counts[a]
    BY DEF Counts
  <2>1. \A u \in S : routed[u] # a
    BY <1>3, <1>5
  <2>2. Cardinality(RoutedTo(found, active, a))
           = Cardinality(RoutedTo(routed, active, a)) + Cardinality(RoutedTo(placed.assign, S, a))
    BY <1>3, <1>6, <1>11, <2>1, CountMoved
  <2> QED
    BY <1>9, <1>10, <2>2
<1>15. ASSUME NEW other \in [S -> C]
       PROVE  LighterThan(routed, active, S, C, states, found,
                          [u \in DOMAIN routed |-> IF u \in S THEN other[u] ELSE routed[u]])
  <2> DEFINE r == [u \in DOMAIN routed |-> IF u \in S THEN other[u] ELSE routed[u]]
  <2>1. /\ \A u \in S : r[u] = other[u] /\ r[u] \in C
        /\ \A u \in active \ S : r[u] = routed[u]
    BY <1>3, <1>15 DEF RoutesTyped
  <2> HIDE DEF r
  <2>2. ASSUME NEW x \in S
        PROVE  \E b \in {r[u] : u \in S} :
                  Counts(found, active, C)[found[x]] * states[b].headroom
                      <= Counts(r, active, C)[b] * states[found[x]].headroom
    <3> DEFINE a == found[x]
    <3>1. a \in C /\ x \in RoutedTo(placed.assign, S, a)
      BY <1>11, <1>13 DEF RoutedTo
    <3> HIDE DEF a
    <3>2. IsFiniteSet(RoutedTo(placed.assign, S, a)) /\ Cardinality(RoutedTo(placed.assign, S, a)) \in Nat
      BY <1>6, RoutedFinite
    <3>3. Cardinality(RoutedTo(placed.assign, S, a)) # 0
      BY <3>1, <3>2, FS_EmptySet
    <3>4. placed.counts[a] # base[a]
      <4>1. base[a] \in Nat /\ placed.counts[a] = base[a] + Cardinality(RoutedTo(placed.assign, S, a))
        BY <1>9, <3>1
      <4> QED
        BY <3>2, <3>3, <4>1
    <3>5. PICK b \in C :
             /\ RoutedTo(other, S, b) # {}
             /\ placed.counts[a] * states[b].headroom
                   <= (base[b] + Cardinality(RoutedTo(other, S, b))) * states[a].headroom
      <4>1. \A u \in S : other[u] \in C
        BY <1>15
      <4>2. base \in [C -> Nat] /\ placed.counts \in [C -> Nat]
        BY <1>9
      <4>3. GreedyDeal(placed.counts, base, S, C, states)
        BY <1>9
      <4> DEFINE c == placed.counts
      <4> HIDE DEF c
      <4>4. GreedyDeal(c, base, S, C, states) /\ c \in [C -> Nat] /\ c[a] # base[a]
        BY <3>4, <4>2, <4>3 DEF c
      <4>5. NotLighter(a, c, base, C, states, other, S)
        BY <1>5, <1>6, <3>1, <4>1, <4>2, <4>4, DealtLight DEF Spread
      <4> QED
        BY <4>5 DEF c, NotLighter
    <3>6. b \in {r[u] : u \in S}
      BY <2>1, <3>5 DEF RoutedTo
    <3>7. Counts(r, active, C)[b] = base[b] + Cardinality(RoutedTo(other, S, b))
      <4>1. \A u \in S : routed[u] # b
        BY <1>3, <1>5
      <4>2. Cardinality(RoutedTo(r, active, b))
               = Cardinality(RoutedTo(routed, active, b)) + Cardinality(RoutedTo(other, S, b))
        BY <1>3, <1>6, <2>1, <4>1, CountMoved
      <4>3. Counts(r, active, C)[b] = Cardinality(RoutedTo(r, active, b))
        BY DEF Counts
      <4> QED
        BY <1>10, <4>2, <4>3
    <3>8. Counts(found, active, C)[a] * states[b].headroom
             <= Counts(r, active, C)[b] * states[a].headroom
      BY <1>14, <3>1, <3>5, <3>7
    <3> QED
      BY <3>6, <3>8 DEF a
  <2>3. LighterThan(routed, active, S, C, states, found, r)
    BY <2>2 DEF LighterThan
  <2> QED
    BY <2>3 DEF r
<1> QED
  <2>1. \A u \in plan.affected : found[u] \in plan.candidates \ sources
    BY <1>1, <1>13
  <2>2. \A other \in [plan.affected -> plan.candidates] :
           LighterThan(routed, active, plan.affected, plan.candidates, states, found,
                       [u \in DOMAIN routed |-> IF u \in plan.affected THEN other[u]
                                                ELSE routed[u]])
    BY <1>1, <1>15
  <2>3. Moved(plan.assign) = plan.affected
    BY <1>1, <1>12
  <2> QED
    BY <2>1, <2>2, <2>3 DEF plan, found

-----------------------------------------------------------------------------
(* A rebalance reaches its target *)

\* The target counts are dealt out greedily, from nothing.
LEMMA TargetGreedy ==
  ASSUME NEW total \in Nat, NEW C, NEW states, Weighed(C, states), C # {}
  PROVE  /\ WeightedTargetCounts(total, C, states) \in [C -> Nat]
         /\ GreedyDeal(WeightedTargetCounts(total, C, states), Zero(C), 1 .. total, C, states)
<1> DEFINE S == 1 .. total
<1>0. PICK f : IsTargeting(f, total, C, states)
  BY TargetFold
<1>1. /\ \A s \in SUBSET S : f[s] \in [C -> Nat]
      /\ f[{}] = Zero(C)
      /\ \A s \in SUBSET S : s # {} =>
            f[s] = Give(f[s \ {Greatest(s)}],
                        LeastWeightedAccount(C, f[s \ {Greatest(s)}], states))
      /\ WeightedTargetCounts(total, C, states) = f[S]
  BY <1>0 DEF IsTargeting
<1>2. IsFiniteSet(S) /\ S \subseteq Nat
  BY FS_Interval
<1>3. Zero(C) \in [C -> Nat]
  BY DEF Zero
<1> HIDE DEF S
<1> DEFINE Good == {s \in SUBSET S : GreedyDeal(f[s], Zero(C), s, C, states)}
<1>4. {} \in Good
  <2>1. GreedyDeal(Zero(C), Zero(C), {}, C, states)
    BY <1>3, NobodyDealt
  <2> QED
    BY <1>1, <2>1
<1>5. ASSUME NEW s \in SUBSET S, s # {}, s \ {Greatest(s)} \in Good PROVE s \in Good
  <2> DEFINE g == Greatest(s)
  <2> DEFINE r == s \ {g}
  <2>1. g \in s
    BY <1>2, <1>5, WithoutGreatest, Zenon
  <2>2. f[s] = Give(f[r], LeastWeightedAccount(C, f[r], states))
    BY <1>1, <1>5
  <2>3. GreedyDeal(f[r], Zero(C), r, C, states)
    BY <1>5
  <2> HIDE DEF g
  <2>4. r \in SUBSET S /\ IsFiniteSet(s)
    BY <1>2, FS_Subset
  <2>5. f[s] \in [C -> Nat] /\ f[r] \in [C -> Nat]
    BY <1>1, <2>4
  <2>6. \A b \in C : f[s][b] = IF b = LeastWeightedAccount(C, f[r], states) THEN f[r][b] + 1
                               ELSE f[r][b]
    <3> HIDE DEF r
    <3> QED
      BY <2>2, <2>5 DEF Give
  <2>7. GreedyDeal(f[s], Zero(C), s, C, states)
    <3> DEFINE low == f[r]
    <3> DEFINE c == f[s]
    <3>1. /\ low \in [C -> Nat] /\ c \in [C -> Nat] /\ GreedyDeal(low, Zero(C), s \ {g}, C, states)
          /\ \A b \in C : c[b] = IF b = LeastWeightedAccount(C, low, states) THEN low[b] + 1
                                 ELSE low[b]
      BY <2>3, <2>5, <2>6
    <3> HIDE DEF low, c
    <3>2. GreedyDeal(c, Zero(C), s, C, states)
      BY <1>3, <2>1, <2>4, <3>1, OneMoreDealt
    <3> QED
      BY <3>2 DEF c
  <2> QED
    BY <2>7
<1> HIDE DEF Good
<1>6. S \in Good
  BY <1>2, <1>4, <1>5, InductionInOrder
<1>7. GreedyDeal(f[S], Zero(C), S, C, states)
  BY <1>6 DEF Good
<1> QED
  BY <1>1, <1>7 DEF S

\* On each account stay the first of its users, as many as the target says.
LEMMA RetainedNames ==
  ASSUME NEW routed, NEW active, NEW C, NEW target, NEW c \in C
  PROVE  RoutedTo(routed, Retained(routed, active, C, target), c)
            = FirstNames(RoutedTo(routed, active, c), target[c])
BY DEF RoutedTo, Retained, FirstNames, Before

\* What a rebalance has to do: the users, the candidates and a target that
\* has a place for each user.
Rebalancing(routed, active, C, target) ==
    /\ RoutesTyped(routed, active)
    /\ IsFiniteSet(C) /\ C \subseteq Nat /\ Nowhere \notin C
    /\ target \in [C -> Nat]
    /\ Dealt(target, Zero(C), 1 .. Cardinality(active), C)
Staying(routed, active, C, target) == Retained(routed, active, C, target)
Moving(routed, active, C, target) == active \ Staying(routed, active, C, target)
Deficits(routed, active, C, target) ==
    [a \in C |-> target[a] - Min2(Cardinality(RoutedTo(routed, active, a)), target[a])]

\* The numbers of a rebalance.
LEMMA RebalanceNumbers ==
  ASSUME NEW routed, NEW active, NEW C, NEW target, Rebalancing(routed, active, C, target)
  PROVE  /\ IsFiniteSet(active) /\ active \subseteq Nat /\ Cardinality(active) \in Nat
         /\ IsFiniteSet(Staying(routed, active, C, target))
         /\ IsFiniteSet(Moving(routed, active, C, target))
         /\ Staying(routed, active, C, target) \subseteq active
         /\ \A u \in Staying(routed, active, C, target) : routed[u] \in C
         /\ \A c \in C :
               LET kept == Cardinality(RoutedTo(routed, Staying(routed, active, C, target), c))
                   short == Deficits(routed, active, C, target)[c]
               IN  kept \in Nat /\ short \in Nat /\ target[c] \in Nat /\ short + kept = target[c]
         /\ FillTyped(routed, Moving(routed, active, C, target), C,
                      Deficits(routed, active, C, target))
<1> DEFINE St == Staying(routed, active, C, target)
<1> DEFINE M == Moving(routed, active, C, target)
<1> DEFINE D == Deficits(routed, active, C, target)
<1>1. /\ IsFiniteSet(active) /\ active \subseteq Nat /\ active \subseteq DOMAIN routed
      /\ Cardinality(active) \in Nat
  BY FS_Subset, FS_CardinalityType DEF Rebalancing, RoutesTyped
<1>2. St \subseteq active /\ M \subseteq active /\ \A u \in St : routed[u] \in C
  BY DEF Staying, Moving, Retained
<1>3. IsFiniteSet(St) /\ IsFiniteSet(M)
  BY <1>1, <1>2, FS_Subset
<1>4. ASSUME NEW c \in C
      PROVE  /\ Cardinality(RoutedTo(routed, St, c)) \in Nat /\ D[c] \in Nat /\ target[c] \in Nat
             /\ D[c] + Cardinality(RoutedTo(routed, St, c)) = target[c]
  <2> DEFINE n == Cardinality(RoutedTo(routed, active, c))
  <2>1. n \in Nat /\ target[c] \in Nat
    BY <1>1, RoutedFinite DEF Rebalancing
  <2>2. Cardinality(RoutedTo(routed, St, c)) = Min2(n, target[c])
    <3> DEFINE Y == RoutedTo(routed, active, c)
    <3>1. RoutedTo(routed, St, c) = FirstNames(Y, target[c])
      BY RetainedNames DEF Staying
    <3>2. IsFiniteSet(Y) /\ Y \subseteq Nat
      BY <1>1, RoutedFinite
    <3> HIDE DEF Y
    <3>3. Cardinality(FirstNames(Y, target[c])) = Min2(Cardinality(Y), target[c])
      BY <2>1, <3>2, FirstNamesCount
    <3> QED
      BY <3>1, <3>3 DEF Y
  <2>3. D[c] = target[c] - Min2(n, target[c])
    BY DEF Deficits
  <2> HIDE DEF n, D, St
  <2>4. CASE n <= target[c]
    <3>1. Min2(n, target[c]) = n
      BY <2>4 DEF Min2
    <3> QED
      BY <2>1, <2>2, <2>3, <2>4, <3>1
  <2>5. CASE ~(n <= target[c])
    <3>1. Min2(n, target[c]) = target[c]
      BY <2>5 DEF Min2
    <3> QED
      BY <2>1, <2>2, <2>3, <3>1
  <2> QED
    BY <2>4, <2>5
<1>5. D \in [C -> Int]
  <2>1. \A c \in C : D[c] \in Int
    BY <1>4
  <2>2. D = [c \in C |-> D[c]]
    BY DEF Deficits
  <2> HIDE DEF D
  <2> QED
    BY <2>1, <2>2
<1> HIDE DEF St, M, D
<1>6. FillTyped(routed, M, C, D)
  BY <1>1, <1>2, <1>5 DEF FillTyped, Rebalancing, RoutesTyped
<1> QED
  BY <1>1, <1>2, <1>3, <1>4, <1>6 DEF St, M, D

\* One step of filling: the first account that is short of a user gets one.
LEMMA FillOne ==
  ASSUME NEW routed, NEW C, C \subseteq Nat, NEW plan \in FilledSoFar(routed, C),
         NEW u \in DOMAIN routed, Short(plan.deficits) # {}, plan.assign[u] = Nowhere,
         Nowhere \notin C
  PROVE  \E a \in C :
            /\ plan.deficits[a] > 0
            /\ \A c \in C : Fill(plan, u, routed).deficits[c] =
                  IF c = a THEN plan.deficits[c] - 1 ELSE plan.deficits[c]
            /\ After(routed, Fill(plan, u, routed).assign)[u] = a
            /\ \A v \in DOMAIN routed \ {u} : Fill(plan, u, routed).assign[v] = plan.assign[v]
<1> DEFINE a == Least(Short(plan.deficits))
<1>1. plan.deficits \in [C -> Int] /\ plan.assign \in [DOMAIN routed -> C \cup {Nowhere}]
  BY DEF FilledSoFar
<1>2. Short(plan.deficits) = {c \in C : plan.deficits[c] > 0}
  BY <1>1 DEF Short
<1>3. Short(plan.deficits) \subseteq Nat
  BY <1>2
<1>4. a \in Short(plan.deficits)
  BY <1>3, LeastIn
<1>5. a \in C /\ plan.deficits[a] > 0
  BY <1>2, <1>4
<1>6. Fill(plan, u, routed) =
        [assign |-> IF routed[u] = a THEN plan.assign ELSE [plan.assign EXCEPT ![u] = a],
         deficits |-> [plan.deficits EXCEPT ![a] = @ - 1]]
  BY DEF Fill
<1> HIDE DEF a
<1>7. \A c \in C : Fill(plan, u, routed).deficits[c] =
         IF c = a THEN plan.deficits[c] - 1 ELSE plan.deficits[c]
  BY <1>1, <1>5, <1>6
<1>8. \A v \in DOMAIN routed \ {u} : Fill(plan, u, routed).assign[v] = plan.assign[v]
  BY <1>1, <1>6
<1>9. After(routed, Fill(plan, u, routed).assign)[u] = a
  <2>1. CASE routed[u] = a
    BY <1>6, <2>1 DEF After
  <2>2. CASE routed[u] # a
    <3>1. Fill(plan, u, routed).assign[u] = a
      BY <1>1, <1>6, <2>2
    <3>2. a # Nowhere
      BY <1>5
    <3> QED
      BY <3>1, <3>2 DEF After
  <2> QED
    BY <2>1, <2>2
<1> QED
  BY <1>5, <1>7, <1>8, <1>9

\* While users remain, some account is short of one: otherwise the accounts
\* would have all the places of the target with fewer users than it has.
LEMMA SomeoneShort ==
  ASSUME NEW routed, NEW active, NEW C, NEW target, Rebalancing(routed, active, C, target),
         NEW r \in SUBSET Moving(routed, active, C, target),
         r # Moving(routed, active, C, target), NEW fin, NEW deficits \in [C -> Nat],
         \A u \in Staying(routed, active, C, target) : fin[u] = routed[u],
         \A c \in C : deficits[c] + Cardinality(RoutedTo(fin, r, c))
                         = Deficits(routed, active, C, target)[c]
  PROVE  Short(deficits) # {}
<1> DEFINE St == Staying(routed, active, C, target)
<1> DEFINE M == Moving(routed, active, C, target)
<1> DEFINE B == r \cup St
<1> DEFINE n == Cardinality(active)
<1>0. /\ IsFiniteSet(active) /\ n \in Nat /\ IsFiniteSet(St) /\ IsFiniteSet(M)
      /\ \A c \in C : /\ Cardinality(RoutedTo(routed, St, c)) \in Nat
                      /\ Deficits(routed, active, C, target)[c]
                            + Cardinality(RoutedTo(routed, St, c)) = target[c]
  BY RebalanceNumbers
<1>1. r \cap St = {} /\ B \subseteq active /\ B # active
  BY DEF Moving, Staying, Retained
<1>2. IsFiniteSet(r)
  BY <1>0, FS_Subset
<1> HIDE DEF St, M
<1>3. IsFiniteSet(B) /\ Cardinality(B) \in Nat /\ Cardinality(B) < n
  <2>1. B \in SUBSET active
    BY <1>1
  <2>2. IsFiniteSet(B) /\ Cardinality(B) <= n /\ Cardinality(B) # n
    BY <1>0, <1>1, <2>1, FS_Subset
  <2>3. Cardinality(B) \in Nat
    BY <2>2, FS_CardinalityType
  <2> QED
    BY <1>0, <2>2, <2>3
<1> SUFFICES ASSUME Short(deficits) = {} PROVE FALSE
  OBVIOUS
<1>4. \A c \in C : deficits[c] = 0
  BY DEF Short
<1>5. PICK w \in [1 .. n -> C] :
         \A b \in C : target[b] = Zero(C)[b] + Cardinality(RoutedTo(w, 1 .. n, b))
  BY DEF Rebalancing, Dealt
<1>6. IsFiniteSet(1 .. n) /\ Cardinality(1 .. n) = n
  <2>1. 1 \in Int /\ n \in Int
    BY <1>0
  <2> HIDE DEF n
  <2>2. IsFiniteSet(1 .. n) /\ Cardinality(1 .. n) = IF 1 > n THEN 0 ELSE n - 1 + 1
    BY <2>1, FS_Interval
  <2> QED
    BY <1>0, <2>2
<1>7. NoMore(C, w, 1 .. n, fin, B)
  <2> SUFFICES ASSUME NEW c \in C
               PROVE  Cardinality(RoutedTo(w, 1 .. n, c)) <= Cardinality(RoutedTo(fin, B, c))
    BY DEF NoMore
  <2>1. Cardinality(RoutedTo(w, 1 .. n, c)) \in Nat
    BY <1>6, RoutedFinite
  <2>2. target[c] = Cardinality(RoutedTo(w, 1 .. n, c))
    BY <1>5, <2>1 DEF Zero
  <2>3. /\ RoutedTo(fin, B, c) = RoutedTo(fin, r, c) \cup RoutedTo(routed, St, c)
        /\ RoutedTo(fin, r, c) \cap RoutedTo(routed, St, c) = {}
    BY <1>1 DEF RoutedTo, St
  <2>4. /\ IsFiniteSet(RoutedTo(fin, r, c)) /\ IsFiniteSet(RoutedTo(routed, St, c))
        /\ Cardinality(RoutedTo(fin, r, c)) \in Nat
    BY <1>0, <1>2, RoutedFinite
  <2>5. Cardinality(RoutedTo(fin, B, c))
           = Cardinality(RoutedTo(fin, r, c)) + Cardinality(RoutedTo(routed, St, c))
    BY <2>3, <2>4, CountApart
  <2>6. Cardinality(RoutedTo(fin, r, c)) = Deficits(routed, active, C, target)[c]
    BY <1>4, <2>4
  <2>7. Cardinality(RoutedTo(fin, B, c)) = target[c]
    BY <1>0, <2>5, <2>6
  <2> QED
    BY <2>1, <2>2, <2>7
<1>8. IsFiniteSet(C) /\ C \subseteq Nat /\ \A x \in 1 .. n : w[x] \in C
  BY <1>5 DEF Rebalancing
<1> HIDE DEF n, B
<1>9. Cardinality(1 .. n) <= Cardinality(B)
  BY <1>3, <1>6, <1>7, <1>8, NoMoreInAll
<1> QED
  BY <1>0, <1>3, <1>6, <1>9

\* The users s have been sent to accounts that were short of one, and what is
\* still missing and what was given make up the deficits.
Reached(plan, s, routed, active, C, target) ==
    /\ plan.deficits \in [C -> Nat]
    /\ \A u \in DOMAIN routed \ s : plan.assign[u] = Nowhere
    /\ \A u \in s : After(routed, plan.assign)[u] \in C
    /\ \A c \in C : plan.deficits[c] + Cardinality(RoutedTo(After(routed, plan.assign), s, c))
                       = Deficits(routed, active, C, target)[c]

\* Filling sends each moving user to an account that was short of one.
LEMMA FillReaches ==
  ASSUME NEW routed, NEW active, NEW C, NEW target, Rebalancing(routed, active, C, target)
  PROVE  \E plan : /\ Reached(plan, Moving(routed, active, C, target), routed, active, C, target)
                   /\ plan.assign = FillDeficits(routed, Moving(routed, active, C, target),
                                                 Deficits(routed, active, C, target))
<1> DEFINE M == Moving(routed, active, C, target)
<1> DEFINE D == Deficits(routed, active, C, target)
<1> DEFINE R(plan, s) == Reached(plan, s, routed, active, C, target)
<1>1. /\ FillTyped(routed, M, C, D) /\ IsFiniteSet(M) /\ M \subseteq active /\ active \subseteq Nat
      /\ \A c \in C : D[c] \in Nat
  BY RebalanceNumbers DEF Moving
<1>2. /\ C \subseteq Nat /\ Nowhere \notin C /\ M \subseteq DOMAIN routed /\ M \subseteq Nat
      /\ D = [c \in C |-> D[c]]
  BY <1>1 DEF Rebalancing, FillTyped, Deficits
<1>3. M \cap Staying(routed, active, C, target) = {}
      /\ Staying(routed, active, C, target) \subseteq DOMAIN routed
  BY <1>2 DEF Moving, Staying, Retained, Rebalancing, RoutesTyped
<1> HIDE DEF M, D
<1>4. PICK f : IsFilling(f, routed, M, C, D)
  BY <1>1, FillFold
<1>5. /\ \A s \in SUBSET M : f[s] \in FilledSoFar(routed, C)
      /\ f[{}] = [assign |-> EmptyPlan(DOMAIN routed), deficits |-> D]
      /\ \A s \in SUBSET M : s # {} => f[s] = Fill(f[s \ {Greatest(s)}], Greatest(s), routed)
      /\ FillDeficits(routed, M, D) = f[M].assign
  BY <1>4 DEF IsFilling
<1> DEFINE Good == {s \in SUBSET M : R(f[s], s)}
<1>6. {} \in Good
  <2>1. f[{}].deficits = D /\ f[{}].assign = EmptyPlan(DOMAIN routed)
    BY <1>5
  <2>2. D \in [C -> Nat]
    BY <1>1, <1>2
  <2>3. \A c \in C : Cardinality(RoutedTo(After(routed, f[{}].assign), {}, c)) = 0
    <3>1. \A c : RoutedTo(After(routed, f[{}].assign), {}, c) = {}
      BY DEF RoutedTo
    <3> QED
      BY <3>1, FS_EmptySet
  <2>4. \A c \in C : D[c] + Cardinality(RoutedTo(After(routed, f[{}].assign), {}, c)) = D[c]
    BY <2>2, <2>3
  <2>5. \A u \in DOMAIN routed : f[{}].assign[u] = Nowhere
    BY <2>1 DEF EmptyPlan
  <2>6. R(f[{}], {})
    BY <2>1, <2>2, <2>4, <2>5 DEF Reached, D
  <2> QED
    BY <2>6
<1>7. ASSUME NEW s \in SUBSET M, s # {}, s \ {Greatest(s)} \in Good PROVE s \in Good
  <2> DEFINE g == Greatest(s)
  <2> DEFINE r == s \ {g}
  <2>1. g \in s
    BY <1>1, <1>2, <1>7, WithoutGreatest, Zenon
  <2>2. f[s] = Fill(f[r], g, routed) /\ f[r] \in FilledSoFar(routed, C) /\ R(f[r], r)
    BY <1>5, <1>7
  <2> HIDE DEF g
  <2>3. /\ r \in SUBSET M /\ r # M /\ IsFiniteSet(s) /\ IsFiniteSet(r)
        /\ g \in DOMAIN routed /\ g \notin r
    BY <1>1, <1>2, <2>1, FS_Subset
  <2> DEFINE p == f[r]
  <2> DEFINE q == f[s]
  <2> DEFINE w == After(routed, p.assign)
  <2> DEFINE v == After(routed, q.assign)
  <2>4. /\ p.deficits \in [C -> Nat] /\ \A u \in DOMAIN routed \ r : p.assign[u] = Nowhere
        /\ \A u \in r : w[u] \in C
        /\ \A c \in C : p.deficits[c] + Cardinality(RoutedTo(w, r, c)) = D[c]
    BY <2>2 DEF Reached, D
  <2>5. Short(p.deficits) # {}
    <3>1. \A u \in Staying(routed, active, C, target) : w[u] = routed[u]
      BY <1>3, <2>3, <2>4 DEF After
    <3> DEFINE d == p.deficits
    <3>2. /\ d \in [C -> Nat]
          /\ \A c \in C : d[c] + Cardinality(RoutedTo(w, r, c))
                             = Deficits(routed, active, C, target)[c]
      BY <2>4 DEF D
    <3>3. r \in SUBSET Moving(routed, active, C, target) /\ r # Moving(routed, active, C, target)
      BY <2>3 DEF M
    <3> HIDE DEF w, p, r, d
    <3>4. Short(d) # {}
      BY <3>1, <3>2, <3>3, SomeoneShort
    <3> QED
      BY <3>4 DEF d
  <2>6. q = Fill(p, g, routed) /\ p \in FilledSoFar(routed, C) /\ p.assign[g] = Nowhere
    BY <2>2, <2>3, <2>4
  <2> HIDE DEF p, q, r
  <2>7. PICK a \in C :
           /\ p.deficits[a] > 0
           /\ \A c \in C : q.deficits[c] = IF c = a THEN p.deficits[c] - 1 ELSE p.deficits[c]
           /\ v[g] = a
           /\ \A u \in DOMAIN routed \ {g} : q.assign[u] = p.assign[u]
    BY <1>2, <2>3, <2>5, <2>6, FillOne
  <2>8. q.deficits \in [C -> Nat]
    <3>1. q \in FilledSoFar(routed, C)
      BY <1>5 DEF q
    <3>2. q.deficits \in [C -> Int]
      BY <3>1 DEF FilledSoFar
    <3>3. \A c \in C : q.deficits[c] \in Nat
      <4> SUFFICES ASSUME NEW c \in C PROVE q.deficits[c] \in Nat
        OBVIOUS
      <4>1. p.deficits[c] \in Nat
        BY <2>4
      <4>2. q.deficits[c] = IF c = a THEN p.deficits[c] - 1 ELSE p.deficits[c]
        BY <2>7
      <4> QED
        BY <2>7, <4>1, <4>2
    <3> QED
      BY <3>2, <3>3
  <2>9. \A u \in DOMAIN routed \ s : q.assign[u] = Nowhere
    BY <2>1, <2>4, <2>7 DEF r
  <2>10. \A u \in s \ {g} : v[u] = w[u]
    BY <1>2, <2>7 DEF After
  <2>11. \A u \in s : v[u] \in C
    BY <2>4, <2>7, <2>10 DEF r
  <2>12. ASSUME NEW c \in C PROVE q.deficits[c] + Cardinality(RoutedTo(v, s, c)) = D[c]
    <3> HIDE DEF v, w
    <3>1. Cardinality(RoutedTo(v, s, c)) = IF c = a THEN Cardinality(RoutedTo(w, r, c)) + 1
                                          ELSE Cardinality(RoutedTo(w, r, c))
      <4>1. v[g] = a
        BY <2>7
      <4>2. Cardinality(RoutedTo(v, s, c)) = IF c = v[g]
               THEN Cardinality(RoutedTo(w, s \ {g}, c)) + 1
               ELSE Cardinality(RoutedTo(w, s \ {g}, c))
        BY <2>1, <2>3, <2>10, OneMoreOn
      <4> QED
        BY <4>1, <4>2 DEF r
    <3>2. Cardinality(RoutedTo(w, r, c)) \in Nat
      BY <2>3, RoutedFinite
    <3>3. p.deficits[c] \in Nat /\ p.deficits[c] + Cardinality(RoutedTo(w, r, c)) = D[c]
      BY <2>4
    <3>4. q.deficits[c] = IF c = a THEN p.deficits[c] - 1 ELSE p.deficits[c]
      BY <2>7
    <3>5. CASE c = a
      BY <3>1, <3>2, <3>3, <3>4, <3>5
    <3>6. CASE c # a
      BY <3>1, <3>2, <3>3, <3>4, <3>6
    <3> QED
      BY <3>5, <3>6
  <2>13. R(q, s)
    BY <2>8, <2>9, <2>11, <2>12 DEF Reached, D
  <2> HIDE DEF R
  <2> QED
    BY <2>13 DEF q
<1> HIDE DEF Good
<1>8. M \in Good
  BY <1>1, <1>2, <1>6, <1>7, InductionInOrder
<1>9. R(f[M], M)
  BY <1>8 DEF Good
<1> QED
  BY <1>5, <1>9 DEF M, D

\* The routes a rebalance leads to: everybody on a candidate, each with the
\* users of the target, and whoever may stay has stayed.
LEMMA RebalanceReaches ==
  ASSUME NEW routed, NEW active, NEW C, NEW target, Rebalancing(routed, active, C, target),
         NEW assign, assign = FillDeficits(routed, Moving(routed, active, C, target),
                                           Deficits(routed, active, C, target))
  PROVE  /\ \A u \in active : After(routed, assign)[u] \in C
         /\ \A c \in C : Cardinality(RoutedTo(After(routed, assign), active, c)) = target[c]
         /\ Moved(assign) \subseteq Moving(routed, active, C, target)
<1> DEFINE St == Staying(routed, active, C, target)
<1> DEFINE M == Moving(routed, active, C, target)
<1> DEFINE D == Deficits(routed, active, C, target)
<1> DEFINE found == After(routed, assign)
<1> DEFINE n == Cardinality(active)
<1>1. PICK plan : Reached(plan, M, routed, active, C, target) /\ plan.assign = assign
  BY FillReaches
<1>2. /\ plan.deficits \in [C -> Nat]
      /\ \A u \in DOMAIN routed \ M : assign[u] = Nowhere
      /\ \A u \in M : found[u] \in C
      /\ \A c \in C : plan.deficits[c] + Cardinality(RoutedTo(found, M, c)) = D[c]
  BY <1>1 DEF Reached
<1>3. /\ IsFiniteSet(active) /\ n \in Nat /\ IsFiniteSet(St) /\ IsFiniteSet(M)
      /\ St \subseteq active /\ \A u \in St : routed[u] \in C
      /\ FillTyped(routed, M, C, D)
      /\ \A c \in C : /\ Cardinality(RoutedTo(routed, St, c)) \in Nat /\ target[c] \in Nat
                      /\ D[c] \in Nat /\ D[c] + Cardinality(RoutedTo(routed, St, c)) = target[c]
  BY RebalanceNumbers
<1>4. active = M \cup St /\ M \cap St = {} /\ active \subseteq DOMAIN routed
  BY <1>3 DEF Moving, Rebalancing, RoutesTyped
<1>5. \A u \in St : found[u] = routed[u]
  BY <1>2, <1>4 DEF After
<1>6. Moved(assign) \subseteq M
  <2>1. assign \in [DOMAIN routed -> C \cup {Nowhere}]
    <3> HIDE DEF M, D
    <3> QED
      BY <1>3, FillAssigns DEF M, D
  <2> QED
    BY <1>2, <2>1 DEF Moved
<1> HIDE DEF St, M, D, found
<1>7. \A u \in active : found[u] \in C
  BY <1>2, <1>3, <1>4, <1>5
<1>8. PICK w \in [1 .. n -> C] :
         \A b \in C : target[b] = Zero(C)[b] + Cardinality(RoutedTo(w, 1 .. n, b))
  BY DEF Rebalancing, Dealt
<1> HIDE DEF n
<1>9. IsFiniteSet(1 .. n) /\ Cardinality(1 .. n) = n
  <2>1. IsFiniteSet(1 .. n) /\ Cardinality(1 .. n) = IF 1 > n THEN 0 ELSE n - 1 + 1
    BY <1>3, FS_Interval
  <2> QED
    BY <1>3, <2>1
<1>10. \A c \in C : target[c] = Cardinality(RoutedTo(w, 1 .. n, c))
  <2> SUFFICES ASSUME NEW c \in C PROVE target[c] = Cardinality(RoutedTo(w, 1 .. n, c))
    OBVIOUS
  <2>1. Cardinality(RoutedTo(w, 1 .. n, c)) \in Nat
    BY <1>9, RoutedFinite
  <2> QED
    BY <1>8, <2>1 DEF Zero
<1>11. NoMore(C, found, active, w, 1 .. n)
  <2> SUFFICES ASSUME NEW c \in C
               PROVE  Cardinality(RoutedTo(found, active, c)) <= Cardinality(RoutedTo(w, 1 .. n, c))
    BY DEF NoMore
  <2>1. /\ RoutedTo(found, active, c) = RoutedTo(found, M, c) \cup RoutedTo(routed, St, c)
        /\ RoutedTo(found, M, c) \cap RoutedTo(routed, St, c) = {}
    BY <1>4, <1>5 DEF RoutedTo
  <2>2. /\ IsFiniteSet(RoutedTo(found, M, c)) /\ IsFiniteSet(RoutedTo(routed, St, c))
        /\ Cardinality(RoutedTo(found, M, c)) \in Nat
    BY <1>3, RoutedFinite
  <2>3. Cardinality(RoutedTo(found, active, c))
           = Cardinality(RoutedTo(found, M, c)) + Cardinality(RoutedTo(routed, St, c))
    BY <2>1, <2>2, CountApart
  <2>4. /\ plan.deficits[c] \in Nat
        /\ plan.deficits[c] + Cardinality(RoutedTo(found, M, c)) = D[c]
    BY <1>2
  <2>5. /\ Cardinality(RoutedTo(routed, St, c)) \in Nat /\ D[c] \in Nat
        /\ D[c] + Cardinality(RoutedTo(routed, St, c)) = target[c] /\ target[c] \in Nat
    BY <1>3
  <2>6. Cardinality(RoutedTo(found, active, c)) <= target[c]
    BY <2>2, <2>3, <2>4, <2>5
  <2> QED
    BY <1>10, <2>6
<1>12. \A c \in C : Cardinality(RoutedTo(found, active, c)) = target[c]
  <2> SUFFICES ASSUME NEW c \in C PROVE Cardinality(RoutedTo(found, active, c)) = target[c]
    OBVIOUS
  <2>1. IsFiniteSet(C) /\ C \subseteq Nat /\ Cardinality(active) = Cardinality(1 .. n)
    BY <1>9 DEF Rebalancing, n
  <2>2. Cardinality(RoutedTo(found, active, c)) = Cardinality(RoutedTo(w, 1 .. n, c))
    BY <1>3, <1>7, <1>9, <1>11, <2>1, SameInAll
  <2> QED
    BY <1>10, <2>2
<1> QED
  BY <1>6, <1>7, <1>12 DEF found, M

\* Any other routing with the numbers of the target moves at least as many
\* users: on no account can more of its users stay than the rebalance keeps.
LEMMA RebalanceMovesLeast ==
  ASSUME NEW routed, NEW active, NEW C, NEW target, Rebalancing(routed, active, C, target),
         NEW other, \A u \in active : other[u] \in C,
         \A c \in C : Cardinality(RoutedTo(other, active, c)) = target[c]
  PROVE  Cardinality(Moving(routed, active, C, target))
            <= Cardinality({u \in active : other[u] # routed[u]})
<1> DEFINE St == Staying(routed, active, C, target)
<1> DEFINE M == Moving(routed, active, C, target)
<1> DEFINE K == {u \in active : other[u] = routed[u]}
<1> DEFINE L == {u \in active : other[u] # routed[u]}
<1>1. /\ IsFiniteSet(active) /\ active \subseteq Nat /\ IsFiniteSet(St) /\ IsFiniteSet(M)
      /\ St \subseteq active
  BY RebalanceNumbers
<1>2. active = M \cup St /\ M \cap St = {} /\ active = L \cup K /\ L \cap K = {}
  BY <1>1 DEF Moving
<1>3. IsFiniteSet(K) /\ IsFiniteSet(L)
  <2>1. K \subseteq active /\ L \subseteq active
    OBVIOUS
  <2> HIDE DEF K, L
  <2> QED
    BY <1>1, <2>1, FS_Subset
<1>4. NoMore(C, other, K, routed, St)
  <2> SUFFICES ASSUME NEW c \in C
               PROVE  Cardinality(RoutedTo(other, K, c)) <= Cardinality(RoutedTo(routed, St, c))
    BY DEF NoMore
  <2>1. /\ RoutedTo(other, K, c) \subseteq RoutedTo(other, active, c)
        /\ RoutedTo(other, K, c) \subseteq RoutedTo(routed, active, c)
    BY DEF RoutedTo
  <2> HIDE DEF K, St
  <2>2. /\ IsFiniteSet(RoutedTo(other, active, c)) /\ IsFiniteSet(RoutedTo(routed, active, c))
        /\ Cardinality(RoutedTo(routed, active, c)) \in Nat
        /\ Cardinality(RoutedTo(other, K, c)) \in Nat
    BY <1>1, <1>3, RoutedFinite
  <2>3. /\ Cardinality(RoutedTo(other, K, c)) <= target[c]
        /\ Cardinality(RoutedTo(other, K, c)) <= Cardinality(RoutedTo(routed, active, c))
    BY <2>1, <2>2, FS_Subset
  <2> DEFINE Y == RoutedTo(routed, active, c)
  <2>4. RoutedTo(routed, St, c) = FirstNames(Y, target[c])
    BY RetainedNames DEF St, Staying
  <2>5. IsFiniteSet(Y) /\ Y \subseteq Nat /\ target[c] \in Nat
    BY <1>1, RoutedFinite DEF Rebalancing
  <2> HIDE DEF Y
  <2>6. Cardinality(FirstNames(Y, target[c])) = Min2(Cardinality(Y), target[c])
    BY <2>5, FirstNamesCount
  <2> QED
    BY <2>3, <2>4, <2>6 DEF Y, Min2
<1>5. IsFiniteSet(C) /\ C \subseteq Nat /\ \A u \in K : other[u] \in C
  BY DEF Rebalancing
<1> HIDE DEF St, M, K, L
<1>6. Cardinality(K) <= Cardinality(St)
  BY <1>1, <1>3, <1>4, <1>5, NoMoreInAll
<1>7. /\ Cardinality(M) \in Nat /\ Cardinality(St) \in Nat /\ Cardinality(L) \in Nat
      /\ Cardinality(K) \in Nat
  BY <1>1, <1>3, FS_CardinalityType
<1>8. Cardinality(active) = Cardinality(M) + Cardinality(St)
  BY <1>1, <1>2, CountApart
<1>9. Cardinality(active) = Cardinality(L) + Cardinality(K)
  BY <1>2, <1>3, CountApart
<1>10. Cardinality(M) <= Cardinality(L)
  BY <1>6, <1>7, <1>8, <1>9
<1> QED
  BY <1>10 DEF M, L

\* Once every account has the users of the target, all of them stay.
LEMMA ReachedStays ==
  ASSUME NEW routed, NEW active, NEW C, NEW target, Rebalancing(routed, active, C, target),
         \A u \in active : routed[u] \in C,
         \A c \in C : Cardinality(RoutedTo(routed, active, c)) = target[c]
  PROVE  /\ Moving(routed, active, C, target) = {}
         /\ FillDeficits(routed, Moving(routed, active, C, target),
                         Deficits(routed, active, C, target)) = EmptyPlan(DOMAIN routed)
<1>1. /\ IsFiniteSet(active) /\ active \subseteq Nat
      /\ FillTyped(routed, Moving(routed, active, C, target), C,
                   Deficits(routed, active, C, target))
  BY RebalanceNumbers
<1>2. ASSUME NEW u \in active PROVE u \in Retained(routed, active, C, target)
  <2> DEFINE Y == RoutedTo(routed, active, routed[u])
  <2> DEFINE X == {v \in Y : v < u}
  <2>1. u \in Y /\ u \in Nat
    BY <1>1 DEF RoutedTo
  <2>2. X \subseteq Y /\ X # Y
    BY <2>1
  <2>3. IsFiniteSet(Y) /\ Cardinality(Y) \in Nat
    BY <1>1, RoutedFinite
  <2>4. Cardinality(Y) = target[routed[u]]
    OBVIOUS
  <2> HIDE DEF X, Y
  <2>5. IsFiniteSet(X) /\ Cardinality(X) <= Cardinality(Y) /\ Cardinality(X) # Cardinality(Y)
    BY <2>2, <2>3, FS_Subset
  <2>6. Cardinality(X) \in Nat
    BY <2>5, FS_CardinalityType
  <2>7. Cardinality(X) < target[routed[u]]
    BY <2>3, <2>4, <2>5, <2>6
  <2> QED
    BY <2>7 DEF Retained, X, Y
<1>3. Moving(routed, active, C, target) = {}
  BY <1>2 DEF Moving, Staying
<1> DEFINE D == Deficits(routed, active, C, target)
<1>4. FillTyped(routed, {}, C, D)
  BY <1>1, <1>3
<1> HIDE DEF D
<1>5. PICK f : IsFilling(f, routed, {}, C, D)
  BY <1>4, FillFold
<1>6. FillDeficits(routed, {}, D) = f[{}].assign /\ f[{}].assign = EmptyPlan(DOMAIN routed)
  BY <1>5 DEF IsFilling
<1> QED
  BY <1>3, <1>6 DEF D

\* What a rebalance achieves, without the question it answers.
LEMMA RebalanceIsMinimal ==
  ASSUME NEW routed, NEW active, NEW routable, NEW states,
         RoutesTyped(routed, active), StatesTyped(states),
         Movable(PlanGlobalRebalance(routed, active, routable, states))
  PROVE  LET plan == PlanGlobalRebalance(routed, active, routable, states)
             found == After(routed, plan.assign)
             counts == Counts(found, active, plan.candidates)
         IN  /\ \A u \in active : found[u] \in plan.candidates
             /\ \A other \in [active -> plan.candidates] :
                   /\ NoHeavier(counts, Counts(other, active, plan.candidates),
                                plan.candidates, states)
                   /\ Counts(other, active, plan.candidates) = counts =>
                         Cardinality({u \in active : other[u] # routed[u]})
                             >= Cardinality(Moved(plan.assign))
             /\ Moved(PlanGlobalRebalance(found, active, routable, states).assign) = {}
<1> DEFINE plan == PlanGlobalRebalance(routed, active, routable, states)
<1> DEFINE C == Candidates(states, {})
<1> DEFINE n == Cardinality(active)
<1> DEFINE T == WeightedTargetCounts(n, C, states)
<1> DEFINE M == Moving(routed, active, C, T)
<1> DEFINE found == After(routed, plan.assign)
<1>1. plan.candidates = C /\ plan.skipped = active \ routable
  BY DEF PlanGlobalRebalance
<1>2. C # {} /\ active \subseteq routable
  BY <1>1 DEF Movable
<1>3. \A r : PlanGlobalRebalance(r, active, routable, states).assign
         = FillDeficits(r, Moving(r, active, C, T), Deficits(r, active, C, T))
  BY <1>2 DEF PlanGlobalRebalance, Moving, Staying, Deficits
<1>4. Weighed(C, states) /\ IsFiniteSet(C) /\ C \subseteq Nat /\ Nowhere \notin C
  BY CandidatesWeighed DEF Weighed, Comparable
<1>5. IsFiniteSet(active) /\ n \in Nat /\ active \subseteq DOMAIN routed
  BY FS_Subset, FS_CardinalityType DEF RoutesTyped
<1> HIDE DEF plan, C, n
<1>6. T \in [C -> Nat] /\ GreedyDeal(T, Zero(C), 1 .. n, C, states)
  BY <1>2, <1>4, <1>5, TargetGreedy
<1> HIDE DEF T
<1>7. Dealt(T, Zero(C), 1 .. n, C)
  BY <1>6 DEF GreedyDeal
<1>8. \A r : RoutesTyped(r, active) => Rebalancing(r, active, C, T)
  BY <1>4, <1>6, <1>7 DEF Rebalancing, n
<1>9. /\ \A u \in active : found[u] \in C
      /\ \A c \in C : Cardinality(RoutedTo(found, active, c)) = T[c]
      /\ Moved(plan.assign) \subseteq M
  <2>1. plan.assign = FillDeficits(routed, M, Deficits(routed, active, C, T))
    BY <1>3 DEF plan
  <2>2. Rebalancing(routed, active, C, T)
    BY <1>8
  <2> QED
    BY <2>1, <2>2, RebalanceReaches
<1>10. RoutesTyped(found, active) /\ DOMAIN found = DOMAIN routed
  BY DEF RoutesTyped, After
<1> HIDE DEF found
<1>11. Counts(found, active, C) = T
  <2>1. Counts(found, active, C) = [a \in C |-> T[a]]
    BY <1>9 DEF Counts
  <2> QED
    BY <1>6, <2>1
<1>12. Moved(PlanGlobalRebalance(found, active, routable, states).assign) = {}
  <2>1. Rebalancing(found, active, C, T)
    BY <1>8, <1>10
  <2>2. FillDeficits(found, Moving(found, active, C, T), Deficits(found, active, C, T))
           = EmptyPlan(DOMAIN found)
    BY <1>9, <2>1, ReachedStays
  <2>3. PlanGlobalRebalance(found, active, routable, states).assign = EmptyPlan(DOMAIN found)
    BY <1>3, <2>2
  <2> QED
    BY <2>3 DEF Moved, EmptyPlan
<1>13. ASSUME NEW other \in [active -> C]
       PROVE  NoHeavier(T, Counts(other, active, C), C, states)
  <2> SUFFICES ASSUME NEW a \in C
               PROVE  \E b \in C : T[a] * states[b].headroom
                                      <= Counts(other, active, C)[b] * states[a].headroom
    BY DEF NoHeavier
  <2>1. \A c \in C : /\ Counts(other, active, C)[c] = Cardinality(RoutedTo(other, active, c))
                     /\ Cardinality(RoutedTo(other, active, c)) \in Nat
                     /\ states[c].headroom \in Nat
    BY <1>4, <1>5, RoutedFinite DEF Counts, Weighed, Comparable
  <2>2. CASE T[a] = 0
    <3>1. 0 * states[a].headroom = 0
      BY <2>1
    <3>2. Counts(other, active, C)[a] * states[a].headroom \in Nat
      BY <2>1, MulSwap
    <3> QED
      BY <2>2, <3>1, <3>2
  <2>3. CASE T[a] # 0
    <3>1. Zero(C) \in [C -> Nat] /\ \A b \in C : Zero(C)[b] = 0
      BY DEF Zero
    <3>2. IsFiniteSet(1 .. n) /\ Cardinality(active) = Cardinality(1 .. n)
      <4>1. IsFiniteSet(1 .. n) /\ Cardinality(1 .. n) = IF 1 > n THEN 0 ELSE n - 1 + 1
        BY <1>5, FS_Interval
      <4> QED
        BY <1>5, <4>1 DEF n
    <3>3. T[a] # Zero(C)[a]
      BY <2>3, <3>1
    <3>4. \A x \in active : other[x] \in C
      OBVIOUS
    <3>5. \E b \in C : /\ RoutedTo(other, active, b) # {}
                       /\ T[a] * states[b].headroom
                             <= (Zero(C)[b] + Cardinality(RoutedTo(other, active, b)))
                                   * states[a].headroom
      <4> DEFINE z == Zero(C)
      <4> DEFINE S == 1 .. n
      <4>1. /\ z \in [C -> Nat] /\ IsFiniteSet(S) /\ Cardinality(active) = Cardinality(S)
            /\ GreedyDeal(T, z, S, C, states) /\ T[a] # z[a] /\ T \in [C -> Nat]
        BY <1>6, <3>1, <3>2, <3>3
      <4> HIDE DEF z, S, M
      <4>2. NotLighter(a, T, z, C, states, other, active)
        BY <1>4, <1>5, <3>4, <4>1, DealtLight DEF Spread
      <4> QED
        BY <4>2 DEF z, NotLighter
    <3>6. PICK b \in C :
             T[a] * states[b].headroom
                <= (Zero(C)[b] + Cardinality(RoutedTo(other, active, b))) * states[a].headroom
      BY <3>5
    <3>7. Zero(C)[b] + Cardinality(RoutedTo(other, active, b)) = Counts(other, active, C)[b]
      <4>1. Zero(C)[b] = 0
        BY <3>1
      <4>2. /\ Counts(other, active, C)[b] = Cardinality(RoutedTo(other, active, b))
            /\ Cardinality(RoutedTo(other, active, b)) \in Nat
        BY <2>1
      <4> QED
        BY <4>1, <4>2
    <3> QED
      BY <3>6, <3>7
  <2> QED
    BY <2>2, <2>3
<1>14. ASSUME NEW other \in [active -> C], Counts(other, active, C) = T
       PROVE  Cardinality({u \in active : other[u] # routed[u]}) >= Cardinality(Moved(plan.assign))
  <2> DEFINE L == {u \in active : other[u] # routed[u]}
  <2>1. \A c \in C : Cardinality(RoutedTo(other, active, c)) = T[c]
    <3>1. \A c \in C : Counts(other, active, C)[c] = Cardinality(RoutedTo(other, active, c))
      BY DEF Counts
    <3> QED
      BY <1>14, <3>1
  <2>2. Rebalancing(routed, active, C, T)
    BY <1>8
  <2>3. Cardinality(M) <= Cardinality(L)
    <3>1. \A u \in active : other[u] \in C
      OBVIOUS
    <3> QED
      BY <2>1, <2>2, <3>1, RebalanceMovesLeast
  <2>4. IsFiniteSet(M)
    BY <2>2, RebalanceNumbers
  <2>5. IsFiniteSet(L)
    <3>1. L \subseteq active
      OBVIOUS
    <3> HIDE DEF L
    <3> QED
      BY <1>5, <3>1, FS_Subset
  <2> HIDE DEF M, L
  <2>6. IsFiniteSet(Moved(plan.assign)) /\ Cardinality(Moved(plan.assign)) <= Cardinality(M)
    BY <1>9, <2>4, FS_Subset
  <2>7. /\ Cardinality(M) \in Nat /\ Cardinality(L) \in Nat
        /\ Cardinality(Moved(plan.assign)) \in Nat
    BY <2>4, <2>5, <2>6, FS_CardinalityType
  <2>8. Cardinality(L) >= Cardinality(Moved(plan.assign))
    BY <2>3, <2>6, <2>7
  <2> QED
    BY <2>8 DEF L
<1> HIDE DEF M
<1> QED
  <2>1. \A other \in [active -> C] : NoHeavier(T, Counts(other, active, C), C, states)
    BY <1>13
  <2>2. \A other \in [active -> C] : Counts(other, active, C) = T =>
           Cardinality({u \in active : other[u] # routed[u]}) >= Cardinality(Moved(plan.assign))
    BY <1>14
  <2>3. /\ \A u \in active : found[u] \in plan.candidates
        /\ Counts(found, active, plan.candidates) = T
    BY <1>1, <1>9, <1>11
  <2>4. \A other \in [active -> plan.candidates] :
           /\ NoHeavier(T, Counts(other, active, plan.candidates), plan.candidates, states)
           /\ Counts(other, active, plan.candidates) = T =>
                 Cardinality({u \in active : other[u] # routed[u]})
                     >= Cardinality(Moved(plan.assign))
    BY <1>1, <2>1, <2>2
  <2> QED
    BY <1>12, <2>3, <2>4 DEF plan, found

-----------------------------------------------------------------------------
(* Every plan is optimal *)

\* The answer is the plan the service makes of the question.
PlanInv ==
    \/ question = NoQuestion
    \/ /\ question.kind = "rebalance"
       /\ question.routes \in PlanRoutes /\ question.keys \in PlanKeys
       /\ question.states \in PlanStates
       /\ answer = PlanGlobalRebalance(question.routes, PlanActive, PlanRoutable, question.states)
    \/ /\ question.kind = "evacuation"
       /\ question.routes \in PlanRoutes /\ question.keys \in PlanKeys
       /\ question.states \in PlanStates
       /\ answer = PlanEvacuation(question.routes, PlanActive, PlanRoutable, question.states,
                                  ExhaustedAccounts(question.states))

\* The questions of PlannerCases are such that the planner can answer them.
LEMMA QuestionTyped ==
  ASSUME NEW routed \in PlanRoutes, NEW states \in PlanStates
  PROVE  RoutesTyped(routed, PlanActive) /\ StatesTyped(states) /\ DOMAIN routed = PlanUser
<1>1. routed \in [PlanUser -> PlanAccount \cup {Nowhere}]
  BY PlanAssumption
<1>2. DOMAIN routed = PlanUser /\ PlanActive \subseteq PlanUser
  BY <1>1 DEF PlanActive
<1>3. RoutesTyped(routed, PlanActive)
  BY <1>2, PlanAssumption DEF RoutesTyped
<1>4. /\ DOMAIN states = PlanAccount
      /\ \A a \in PlanAccount : states[a].headroom \in Nat /\ states[a].used \in Nat
  BY PlanAssumption
<1>5. StatesTyped(states)
  <2>1. IsFiniteSet(DOMAIN states) /\ DOMAIN states \subseteq Nat \ {Nowhere}
    BY <1>4, PlanAssumption
  <2>2. \A a \in DOMAIN states : states[a].headroom \in Nat /\ states[a].used \in Int
    BY <1>4
  <2> QED
    BY <2>1, <2>2 DEF StatesTyped
<1> QED
  BY <1>2, <1>3, <1>5

\* PlansAreOptimal for every number of users and accounts, and any headroom:
\* the greedy choices of planner.go spread the users so that no other routing
\* has a lighter fullest account, and a rebalance gets there with the fewest
\* moves and is then done.
THEOREM PlannerIsOptimal == PlanInit /\ [][PlanNext]_planVars => []PlansAreOptimal
<1>1. PlanInit => PlanInv
  BY DEF PlanInit, PlanInv
<1>2. PlanInv /\ [PlanNext]_planVars => PlanInv'
  <2> SUFFICES ASSUME PlanInv, [PlanNext]_planVars PROVE PlanInv'
    OBVIOUS
  <2>1. CASE AskRebalance
    <3>1. /\ question'.kind = "rebalance" /\ question'.routes \in PlanRoutes
          /\ question'.keys \in PlanKeys /\ question'.states \in PlanStates
      BY <2>1 DEF AskRebalance, Arise
    <3>2. answer' = PlanGlobalRebalance(question'.routes, PlanActive', PlanRoutable',
                                        question'.states)
      BY <2>1 DEF AskRebalance
    <3> QED
      BY <3>1, <3>2 DEF PlanInv
  <2>2. CASE AskEvacuation
    <3>1. /\ question'.kind = "evacuation" /\ question'.routes \in PlanRoutes
          /\ question'.keys \in PlanKeys /\ question'.states \in PlanStates
      BY <2>2 DEF AskEvacuation, Arise
    <3>2. answer' = PlanEvacuation(question'.routes, PlanActive', PlanRoutable',
                                   question'.states, ExhaustedAccounts(question'.states))
      BY <2>2 DEF AskEvacuation
    <3> QED
      BY <3>1, <3>2 DEF PlanInv
  <2>3. CASE UNCHANGED planVars
    BY <2>3 DEF planVars, PlanInv, PlanActive, PlanRoutable
  <2> QED
    BY <2>1, <2>2, <2>3 DEF PlanNext
<1>3. PlanInv => PlansAreOptimal
  <2> SUFFICES ASSUME PlanInv PROVE PlansAreOptimal
    OBVIOUS
  <2>1. RebalanceMinimal
    <3> SUFFICES ASSUME Planned("rebalance") PROVE RebalanceMinimal
      BY DEF RebalanceMinimal
    <3>1. question.kind = "rebalance" /\ Movable(answer)
      BY DEF Planned
    <3>2. /\ question.routes \in PlanRoutes /\ question.states \in PlanStates
          /\ answer = PlanGlobalRebalance(question.routes, PlanActive, PlanRoutable,
                                          question.states)
      BY <3>1 DEF PlanInv, NoQuestion
    <3>3. RoutesTyped(question.routes, PlanActive) /\ StatesTyped(question.states)
      BY <3>2, QuestionTyped
    <3> QED
      BY <3>1, <3>2, <3>3, RebalanceIsMinimal DEF RebalanceMinimal
  <2>2. EvacuationFair
    <3> SUFFICES ASSUME Planned("evacuation") PROVE EvacuationFair
      BY DEF EvacuationFair
    <3>1. question.kind = "evacuation" /\ Movable(answer)
      BY DEF Planned
    <3>2. /\ question.routes \in PlanRoutes /\ question.states \in PlanStates
          /\ answer = PlanEvacuation(question.routes, PlanActive, PlanRoutable, question.states,
                                     ExhaustedAccounts(question.states))
      BY <3>1 DEF PlanInv, NoQuestion
    <3>3. /\ RoutesTyped(question.routes, PlanActive) /\ StatesTyped(question.states)
          /\ DOMAIN question.routes = PlanUser
      BY <3>2, QuestionTyped
    <3> DEFINE found == After(question.routes, answer.assign)
    <3>4. /\ Moved(answer.assign) = answer.affected
          /\ \A u \in answer.affected :
                found[u] \in answer.candidates \ ExhaustedAccounts(question.states)
          /\ \A other \in [answer.affected -> answer.candidates] :
                LighterThan(question.routes, PlanActive, answer.affected, answer.candidates,
                            question.states, found,
                            [u \in PlanUser |-> IF u \in answer.affected THEN other[u]
                                                ELSE question.routes[u]])
      BY <3>1, <3>2, <3>3, EvacuationIsFair
    <3> HIDE DEF found
    <3> QED
      BY <3>4 DEF EvacuationFair, LighterThan, found
  <2> QED
    BY <2>1, <2>2 DEF PlansAreOptimal
<1> QED
  BY <1>1, <1>2, <1>3, PTL

=============================================================================
