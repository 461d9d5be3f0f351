------------------------ MODULE RuleEvaluation_proofs ------------------------
(***************************************************************************)
(* What a rule's curve and its reduction of several sensors compute, for   *)
(* curves of any length and any finite number of sensors (by the least     *)
(* counterexample, a number below which there is none); and what a rule    *)
(* steers by, for rules of any shape, any readings and any length of the   *)
(* grace period, as long as edits wait for the answer to a write           *)
(* (~Overlapping).                                                         *)
(***************************************************************************)
EXTENDS RuleEvaluation, FiniteSetTheorems, TLAPS

Below == {ss \in Nat \X Nat : ss[1] < ss[2]}

(* Every set of numbers has a least one: the least counterexample is how    *)
(* what follows argues by induction.                                        *)
LEMMA Least ==
    ASSUME NEW T, T \subseteq Nat, T # {}
    PROVE  \E x \in T : \A y \in T : x <= y
<1>0. IsWellFoundedOn(Below, Nat)
  BY NatLessThanWellFounded, Zenon DEF OpToRel, Below
<1>1. PICK x \in T : \A y \in T : ~ (<<y, x>> \in Below)
  BY <1>0, WFMin, Zenon
<1>2. ASSUME NEW y \in T PROVE x <= y
  <2>1. <<y, x>> \in Nat \X Nat /\ <<y,x>>[1] = y /\ <<y,x>>[2] = x
    OBVIOUS
  <2>2. ~ (y < x)
    BY <1>1, <2>1 DEF Below
  <2> QED BY <2>2
<1> QED BY <1>2

(* What holds of 0 and of the next number holds of all.                     *)
LEMMA Climbing ==
    ASSUME NEW T, 0 \in T, \A n \in Nat : n \in T => n + 1 \in T
    PROVE  Nat \subseteq T
<1> SUFFICES ASSUME Nat \ T # {} PROVE FALSE
  OBVIOUS
<1>1. PICK n \in Nat \ T : \A k \in Nat \ T : n <= k
  BY Least
<1>2. n # 0 /\ n - 1 \in Nat /\ n = (n - 1) + 1
  BY <1>1
<1>3. n - 1 \in T
  BY <1>1, <1>2
<1> QED BY <1>1, <1>2, <1>3

-----------------------------------------------------------------------------
(* Finite sets of numbers                                                   *)

Picked(s) == CHOOSE x \in s : TRUE
Adds(f, D, g) == g = [s \in D |-> IF s = {} THEN 0 ELSE f[Picked(s)] + g[s \ {Picked(s)}]]

Small(A, n) == {s \in SUBSET A : Cardinality(s) <= n}

LEMMA Counts ==
    ASSUME NEW A, IsFiniteSet(A)
    PROVE  \A s \in SUBSET A : /\ IsFiniteSet(s) /\ Cardinality(s) \in Nat
                               /\ Cardinality(s) <= Cardinality(A)
                               /\ (Cardinality(s) = 0 <=> s = {})
  BY FS_Subset, FS_CardinalityType, FS_EmptySet

LEMMA NoneSmaller == ASSUME NEW A, IsFiniteSet(A) PROVE \A s \in Small(A, 0) : s = {}
  BY Counts DEF Small

LEMMA OneLess ==
    ASSUME NEW A, IsFiniteSet(A), NEW n \in Nat, NEW s \in Small(A, n + 1), s # {}
    PROVE  /\ Picked(s) \in A
           /\ s \ {Picked(s)} \in Small(A, n) /\ s \ {Picked(s)} \in Small(A, n + 1)
<1>1. Picked(s) \in s
  BY DEF Picked
<1>2. IsFiniteSet(s) /\ Cardinality(s) \in Nat /\ Cardinality(s) <= n + 1
  BY Counts DEF Small
<1>3. Cardinality(s \ {Picked(s)}) = Cardinality(s) - 1
  BY <1>1, <1>2, FS_RemoveElement
<1> QED BY <1>1, <1>2, <1>3 DEF Small

(* The recursion that adds up a finite set has a solution.                  *)
LEMMA SumExists ==
    ASSUME NEW A, IsFiniteSet(A), NEW f
    PROVE  \E g : Adds(f, SUBSET A, g)
<1> DEFINE T == {n \in Nat : \E g : Adds(f, Small(A, n), g)}
<1>0. \A s \in SUBSET A : Cardinality(s) \in Nat /\ (Cardinality(s) = 0 <=> s = {})
  BY Counts
<1>1. 0 \in T
  <2>1. \A s \in Small(A, 0) : s = {}
    BY NoneSmaller
  <2> DEFINE g == [s \in Small(A, 0) |-> 0]
  <2>2. Adds(f, Small(A, 0), g)
    BY <2>1 DEF Adds
  <2> HIDE DEF g
  <2> QED BY <2>2, Zenon
<1>2. ASSUME NEW n \in Nat, n \in T PROVE n + 1 \in T
  <2>1. PICK g : Adds(f, Small(A, n), g)
    BY <1>2
  <2> DEFINE h == [s \in Small(A, n + 1) |->
                      IF s = {} THEN 0 ELSE f[Picked(s)] + g[s \ {Picked(s)}]]
  <2>2. ASSUME NEW s \in Small(A, n + 1), s # {}
        PROVE  s \ {Picked(s)} \in Small(A, n)
    BY <2>2, OneLess
  <2>4. ASSUME NEW s \in Small(A, n) PROVE s \in Small(A, n + 1) /\ h[s] = g[s]
    <3>1. s \in Small(A, n + 1)
      BY <1>0 DEF Small
    <3>2. g[s] = IF s = {} THEN 0 ELSE f[Picked(s)] + g[s \ {Picked(s)}]
      BY <2>1, Zenon DEF Adds
    <3> QED BY <3>1, <3>2, Zenon
  <2>5. ASSUME NEW s \in Small(A, n + 1)
        PROVE h[s] = IF s = {} THEN 0 ELSE f[Picked(s)] + h[s \ {Picked(s)}]
    <3>1. s # {} => h[s \ {Picked(s)}] = g[s \ {Picked(s)}]
      BY <2>2, <2>4, Zenon
    <3> QED BY <3>1, Zenon
  <2>6. Adds(f, Small(A, n + 1), h)
    <3> DEFINE k == [s \in Small(A, n + 1) |->
                      IF s = {} THEN 0 ELSE f[Picked(s)] + h[s \ {Picked(s)}]]
    <3>1. \A s \in Small(A, n + 1) : h[s] = k[s]
      BY <2>5, Zenon
    <3>2. h = k
      <4>1. DOMAIN h = Small(A, n + 1) /\ DOMAIN k = Small(A, n + 1)
        BY Zenon
      <4> QED BY <3>1, <4>1
    <3> QED BY <3>2, Zenon DEF Adds
  <2> HIDE DEF h
  <2> QED BY <2>6
<1>3. Cardinality(A) \in T
  <2> HIDE DEF T
  <2>1. Cardinality(A) \in Nat
    BY FS_CardinalityType
  <2>2. Nat \subseteq T
    BY <1>1, <1>2, Climbing
  <2> QED BY <2>1, <2>2
<1>4. Small(A, Cardinality(A)) = SUBSET A
  BY Counts DEF Small
<1> QED BY <1>3, <1>4

(* The sum of n numbers lies between n times the least and n times the      *)
(* largest they can be.                                                     *)
LEMMA SumBetween ==
    ASSUME NEW A, IsFiniteSet(A), NEW low \in Int, NEW high \in Int,
           NEW f, \A x \in A : f[x] \in low .. high
    PROVE  Total(f, A) \in Cardinality(A) * low .. Cardinality(A) * high
<1> DEFINE g == CHOOSE g : Adds(f, SUBSET A, g)
           Bound(s) == g[s] \in Cardinality(s) * low .. Cardinality(s) * high
           T == {n \in Nat : \A s \in Small(A, n) : Bound(s)}
<1>1. Total(f, A) = g[A]
  BY Zenon DEF Total, MapThenSumSet, MapThenFoldSet, Adds, Picked
<1>2. Adds(f, SUBSET A, g)
  BY SumExists, Zenon
<1> HIDE DEF g
<1>3. ASSUME NEW s \in SUBSET A
      PROVE  g[s] = IF s = {} THEN 0 ELSE f[Picked(s)] + g[s \ {Picked(s)}]
  BY <1>2, Zenon DEF Adds
<1>4. Bound({})
  <2>1. g[{}] = 0
    BY <1>3, Zenon
  <2> QED BY <2>1, FS_EmptySet
<1>5. 0 \in T
  BY <1>4, NoneSmaller
<1>6. ASSUME NEW n \in Nat, n \in T PROVE n + 1 \in T
  <2>1. ASSUME NEW s \in Small(A, n + 1), s # {} PROVE Bound(s)
    <3> DEFINE e == Picked(s)
               t == s \ {e}
               k == Cardinality(t)
    <3>1. e \in A /\ t \in Small(A, n) /\ e \in s
      BY <2>1, OneLess DEF Picked
    <3>2. f[e] \in low .. high /\ Bound(t)
      BY <1>6, <3>1
    <3>3. g[s] = f[e] + g[t]
      BY <1>3, <2>1, Zenon DEF Small
    <3>4. Cardinality(s) = k + 1 /\ k \in Nat
      <4>1. IsFiniteSet(s) /\ Cardinality(s) \in Nat /\ IsFiniteSet(t) /\ k \in Nat
        <5>1. s \in SUBSET A /\ t \in SUBSET A
          BY DEF Small
        <5> HIDE DEF t
        <5> QED BY <5>1, Counts
      <4>2. k = Cardinality(s) - 1
        <5> HIDE DEF e
        <5> QED BY <3>1, <4>1, FS_RemoveElement
      <4> HIDE DEF k
      <4> QED BY <4>1, <4>2
    <3> HIDE DEF e, t, k
    <3>5. g[t] \in k * low .. k * high
      BY <3>2 DEF k
    <3>6. (k + 1) * low = k * low + low /\ (k + 1) * high = k * high + high
      BY <3>4
    <3>7. k * low \in Int /\ k * high \in Int
      BY <3>4
    <3>8. f[e] + g[t] \in k * low + low .. k * high + high
      <4> DEFINE p == k * low
                 q == k * high
      <4>1. p \in Int /\ q \in Int /\ g[t] \in p .. q
        BY <3>5, <3>7
      <4> HIDE DEF p, q
      <4>2. f[e] + g[t] \in p + low .. q + high
        BY <3>2, <4>1
      <4> QED BY <4>2 DEF p, q
    <3>9. g[s] \in Cardinality(s) * low .. Cardinality(s) * high
      BY <3>3, <3>4, <3>6, <3>8, Zenon
    <3> QED BY <3>9
  <2> HIDE DEF Bound
  <2>2. \A s \in Small(A, n + 1) : Bound(s)
    BY <1>4, <2>1
  <2> QED BY <2>2
<1>7. Cardinality(A) \in T
  <2> HIDE DEF T
  <2>1. Cardinality(A) \in Nat
    BY FS_CardinalityType
  <2>2. Nat \subseteq T
    BY <1>5, <1>6, Climbing
  <2> QED BY <2>1, <2>2
<1>8. A \in Small(A, Cardinality(A))
  BY Counts DEF Small
<1>9. Bound(A)
  BY <1>7, <1>8
<1> QED BY <1>1, <1>9

(* A finite set of numbers has a largest and a smallest one.                *)
LEMMA EndsExist ==
    ASSUME NEW A, IsFiniteSet(A), A \subseteq Int, A # {}
    PROVE  /\ \E x \in A : \A y \in A : x >= y
           /\ \E x \in A : \A y \in A : x <= y
<1> DEFINE Ended(s) == s # {} => /\ \E x \in s : \A y \in s : x >= y
                                 /\ \E x \in s : \A y \in s : x <= y
           T == {n \in Nat : \A s \in Small(A, n) : Ended(s)}
<1>1. 0 \in T
  BY NoneSmaller
<1>2. ASSUME NEW n \in Nat, n \in T PROVE n + 1 \in T
  <2>1. ASSUME NEW s \in Small(A, n + 1), s # {} PROVE Ended(s)
    <3> DEFINE e == Picked(s)
               t == s \ {e}
    <3>1. t \in Small(A, n) /\ e \in A
      BY <2>1, OneLess
    <3>2. s = t \cup {e} /\ s \subseteq Int /\ t \subseteq Int /\ e \in Int
      BY <2>1 DEF Picked, Small
    <3>3. Ended(t)
      BY <1>2, <3>1
    <3> HIDE DEF t, e
    <3>4. CASE t = {}
      BY <3>2, <3>4
    <3>5. CASE t # {}
      <4>1. PICK x \in t : \A y \in t : x >= y
        BY <3>3, <3>5
      <4>2. PICK z \in t : \A y \in t : z <= y
        BY <3>3, <3>5
      <4>3. \E k \in s : \A y \in s : k >= y
        <5>1. CASE x >= e
          BY <3>2, <4>1, <5>1
        <5>2. CASE ~(x >= e)
          BY <3>2, <4>1, <5>2
        <5> QED BY <5>1, <5>2
      <4>4. \E k \in s : \A y \in s : k <= y
        <5>1. CASE z <= e
          BY <3>2, <4>2, <5>1
        <5>2. CASE ~(z <= e)
          BY <3>2, <4>2, <5>2
        <5> QED BY <5>1, <5>2
      <4> QED BY <4>3, <4>4
    <3> QED BY <3>4, <3>5
  <2> QED BY <2>1
<1>3. Cardinality(A) \in T
  <2> HIDE DEF T
  <2>1. Cardinality(A) \in Nat
    BY FS_CardinalityType
  <2>2. Nat \subseteq T
    BY <1>1, <1>2, Climbing
  <2> QED BY <2>1, <2>2
<1>4. A \in Small(A, Cardinality(A))
  BY Counts DEF Small
<1> QED BY <1>3, <1>4

LEMMA EndsType ==
    ASSUME NEW A, IsFiniteSet(A), A \subseteq Int, A # {}
    PROVE  /\ Max(A) \in A /\ Min(A) \in A
           /\ \A y \in A : Max(A) >= y /\ Min(A) <= y
<1>1. \E x \in A : \A y \in A : x >= y
  BY EndsExist
<1>2. \E x \in A : \A y \in A : x <= y
  BY EndsExist
<1>3. Max(A) \in A /\ \A y \in A : Max(A) >= y
  BY <1>1 DEF Max
<1>4. Min(A) \in A /\ \A y \in A : Min(A) <= y
  BY <1>2 DEF Min
<1> QED BY <1>3, <1>4

(* The numbers between two others, in whatever order these are.             *)
LEMMA PairEnds ==
    ASSUME NEW a \in Int, NEW b \in Int, NEW x \in Int,
           (a <= x /\ x <= b) \/ (b <= x /\ x <= a)
    PROVE  x \in Min({a, b}) .. Max({a, b})
<1>1. \E y \in {a, b} : \A z \in {a, b} : y >= z
  OBVIOUS
<1>2. \E y \in {a, b} : \A z \in {a, b} : y <= z
  OBVIOUS
<1>3. Max({a, b}) \in {a, b} /\ \A z \in {a, b} : Max({a, b}) >= z
  BY <1>1 DEF Max
<1>4. Min({a, b}) \in {a, b} /\ \A z \in {a, b} : Min({a, b}) <= z
  BY <1>2 DEF Min
<1> QED BY <1>3, <1>4

LEMMA DivBounds ==
    ASSUME NEW p \in Int, NEW d \in Int, d > 0, NEW low \in Int, NEW high \in Int,
           low * d <= p, p <= high * d
    PROVE  p \div d \in Int /\ low <= p \div d /\ p \div d <= high
<1> DEFINE q == p \div d
<1>1. q \in Int /\ d * q <= p /\ p < d * q + d
  BY SMT
<1> HIDE DEF q
<1>2. q <= high
  <2> SUFFICES ASSUME q >= high + 1 PROVE FALSE
    BY <1>1
  <2>1. d * q >= d * (high + 1)
    BY <1>1
  <2>2. d * (high + 1) = high * d + d
    OBVIOUS
  <2> QED BY <1>1, <2>1, <2>2
<1>3. q >= low
  <2> SUFFICES ASSUME q + 1 <= low PROVE FALSE
    BY <1>1
  <2>1. d * (q + 1) <= d * low
    BY <1>1
  <2>2. d * (q + 1) = d * q + d /\ d * low = low * d
    BY <1>1
  <2> QED BY <1>1, <2>1, <2>2
<1> QED BY <1>1, <1>2, <1>3 DEF q

-----------------------------------------------------------------------------
(* Sensors and curves                                                       *)

(* Whatever number of sensors answer, their maximum, minimum or average     *)
(* lies among what a sensor can read, if that has no gaps; it is none if    *)
(* no sensor answers.                                                       *)
LEMMA ReducedWithin ==
    ASSUME NEW aggregate \in {"max", "min", "avg"}, NEW S, IsFiniteSet(S),
           NEW T, T \subseteq Int, \A low, high \in T : low .. high \subseteq T,
           NEW readings \in [S -> T \cup {Unset}]
    PROVE  Reduced(aggregate, readings) \in T \cup {Unset}
<1> DEFINE answering == {s \in DOMAIN readings : readings[s] # Unset}
           values == {readings[s] : s \in answering}
<1>1. CASE answering = {}
  BY <1>1 DEF Reduced
<1>2. CASE answering # {}
  <2>1. answering \subseteq S /\ \A s \in answering : readings[s] \in T
    OBVIOUS
  <2>2. IsFiniteSet(answering)
    BY <2>1, FS_Subset
  <2>3. values \subseteq T /\ values # {}
    BY <1>2, <2>1
  <2>4. IsFiniteSet(values)
    <3> DEFINE f == [s \in answering |-> readings[s]]
    <3>1. f \in Surjection(answering, values)
      BY DEF Surjection
    <3> HIDE DEF f, answering, values
    <3> QED BY <2>2, <3>1, FS_Surjection
  <2>5. /\ Max(values) \in T /\ Min(values) \in T
        /\ \A s \in answering : readings[s] \in Min(values) .. Max(values)
    <3>1. \A s \in answering : readings[s] \in values
      BY Zenon
    <3> HIDE DEF values
    <3>2. values \subseteq Int
      BY <2>3
    <3>3. /\ Max(values) \in values /\ Min(values) \in values
          /\ \A y \in values : Max(values) >= y /\ Min(values) <= y
      BY <2>3, <2>4, <3>2, EndsType
    <3>4. ASSUME NEW s \in answering
          PROVE  readings[s] \in Min(values) .. Max(values)
      <4> DEFINE y == readings[s]
                 low == Min(values)
                 high == Max(values)
      <4>1. y \in values
        BY <3>1
      <4>2. y \in Int /\ low \in Int /\ high \in Int /\ low <= y /\ y <= high
        <5> HIDE DEF y
        <5> QED BY <3>2, <3>3, <4>1
      <4> HIDE DEF y, low, high
      <4>3. y \in low .. high
        BY <4>2
      <4> QED BY <4>3 DEF y, low, high
    <3> QED BY <2>3, <3>3, <3>4
  <2> DEFINE sum == Total(readings, answering)
             count == Cardinality(answering)
             low == Min(values)
             high == Max(values)
  <2>6. count \in Nat /\ count > 0
    <3> HIDE DEF answering
    <3> QED BY <1>2, <2>2, FS_CardinalityType, FS_EmptySet
  <2>7. sum \div count \in T
    <3> HIDE DEF answering, values
    <3>1. low \in Int /\ high \in Int
      BY <2>5
    <3>2. sum \in count * low .. count * high
      <4> HIDE DEF low, high
      <4>1. \A s \in answering : readings[s] \in low .. high
        BY <2>5 DEF low, high
      <4> QED BY <2>2, <3>1, <4>1, SumBetween
    <3> HIDE DEF sum, count, low, high
    <3>3. sum \in Int /\ low * count <= sum /\ sum <= high * count
      <4>1. count * low \in Int /\ count * high \in Int
        BY <2>6, <3>1
      <4>2. count * low = low * count /\ count * high = high * count
        BY <2>6, <3>1
      <4> QED BY <3>2, <4>1, <4>2
    <3>4. sum \div count \in low .. high
      BY <2>6, <3>1, <3>3, DivBounds
    <3> QED BY <2>5, <3>4 DEF low, high
  <2>9. \/ Reduced(aggregate, readings) = Max(values)
        \/ Reduced(aggregate, readings) = Min(values)
        \/ Reduced(aggregate, readings) = sum \div count
    <3>1. CASE aggregate = "max"
      BY <1>2, <3>1, Zenon DEF Reduced
    <3>2. CASE aggregate = "min"
      BY <1>2, <3>2 DEF Reduced
    <3>3. CASE aggregate = "avg"
      BY <1>2, <3>3 DEF Reduced
    <3> QED BY <3>1, <3>2, <3>3
  <2> HIDE DEF sum, count, values, answering
  <2> QED BY <2>5, <2>7, <2>9
<1> QED BY <1>1, <1>2

Number == Int \cup {Unset}

(* What a curve gives between two of its points lies between their outputs, *)
(* and these two are neighbours around the input, or one end of the curve.  *)
Between(curve, x, k, n) ==
    /\ k = 1 \/ curve[k].input <= x
    /\ n = Len(curve) \/ x <= curve[n].input
    /\ n \in {k, k + 1}
    /\ LET ends == {curve[k].output, curve[n].output} IN
       CurveAt(curve, x) \in Min(ends) .. Max(ends)

List(curve) == Len(curve) \in Nat /\ DOMAIN curve = 1 .. Len(curve)

LEMMA InterpolatedBetween ==
    ASSUME NEW low, NEW high, NEW x \in Int,
           low.input \in Int, low.output \in Int, high.input \in Int, high.output \in Int,
           low.input < high.input, low.input <= x, x <= high.input
    PROVE  /\ Interpolated(low, high, x) \in Int
           /\ \/ low.output <= Interpolated(low, high, x) /\ Interpolated(low, high, x) <= high.output
              \/ high.output <= Interpolated(low, high, x) /\ Interpolated(low, high, x) <= low.output
<1> DEFINE d == high.input - low.input
           w == x - low.input
           r == high.output - low.output
           o == low.output
<1>1. d \in Int /\ w \in Int /\ r \in Int /\ d > 0 /\ 0 <= w /\ w <= d /\ o \in Int
  OBVIOUS
<1>2. Interpolated(low, high, x) = o + (r * w) \div d /\ high.output = o + r
  BY DEF Interpolated
<1> HIDE DEF d, w, r, o
<1>3. CASE r >= 0
  <2>1. r * w \in Int /\ 0 * d <= r * w /\ r * w <= r * d
    BY <1>1, <1>3
  <2>2. (r * w) \div d \in Int /\ 0 <= (r * w) \div d /\ (r * w) \div d <= r
    BY <1>1, <2>1, DivBounds
  <2> QED BY <1>1, <1>2, <2>2 DEF o
<1>4. CASE r < 0
  <2>1. r * w \in Int /\ r * d <= r * w /\ r * w <= 0 * d
    BY <1>1, <1>4
  <2>2. (r * w) \div d \in Int /\ r <= (r * w) \div d /\ (r * w) \div d <= 0
    BY <1>1, <2>1, DivBounds
  <2> QED BY <1>1, <1>2, <2>2 DEF o
<1> QED BY <1>1, <1>3, <1>4

LEMMA CurveBetween ==
    ASSUME NEW curve, List(curve), ValidCurve(curve), NEW x \in Int
    PROVE  /\ CurveAt(curve, x) \in Int
           /\ \E k, n \in DOMAIN curve : Between(curve, x, k, n)
<1> DEFINE last == Len(curve)
           y == CurveAt(curve, x)
<1>1. /\ last \in Nat /\ last >= 2 /\ DOMAIN curve = 1 .. last
      /\ \A k \in 1 .. last : curve[k].input \in Int /\ curve[k].output \in Int
      /\ \A k \in 2 .. last : curve[k - 1].input < curve[k].input
  BY DEF List, ValidCurve
<1>5. 1 \in 1 .. last /\ last \in 2 .. last /\ last \in 1 .. last
  BY <1>1
<1>2. CASE x <= curve[1].input
  <2>1. y = curve[1].output
    BY <1>2 DEF CurveAt
  <2> DEFINE o == curve[1].output
  <2>2. o \in Min({o, o}) .. Max({o, o})
    <3>1. o \in Int
      BY <1>1, <1>5
    <3> HIDE DEF o
    <3> QED BY <3>1, PairEnds
  <2>3. Between(curve, x, 1, 1)
    BY <1>2, <2>1, <2>2 DEF Between
  <2> QED BY <1>1, <1>5, <2>1, <2>3
<1>3. CASE ~(x <= curve[1].input) /\ x >= curve[last].input
  <2>1. y = curve[last].output
    BY <1>3 DEF CurveAt
  <2> DEFINE o == curve[last].output
  <2>2. o \in Min({o, o}) .. Max({o, o})
    <3>1. o \in Int
      BY <1>1, <1>5
    <3> HIDE DEF o
    <3> QED BY <3>1, PairEnds
  <2>3. Between(curve, x, last, last)
    BY <1>1, <1>3, <2>1, <2>2 DEF Between
  <2> QED BY <1>1, <1>5, <2>1, <2>3
<1>4. CASE ~(x <= curve[1].input) /\ ~(x >= curve[last].input)
  <2> DEFINE Around(k) == curve[k - 1].input <= x /\ x <= curve[k].input
             T == {k \in 2 .. last : x <= curve[k].input}
  <2>1. T # {} /\ T \subseteq Nat
    <3>1. last \in T
      BY <1>1, <1>4, <1>5
    <3>2. T \subseteq 2 .. last
      OBVIOUS
    <3> HIDE DEF T
    <3>3. 2 .. last \subseteq Nat
      OBVIOUS
    <3> QED BY <3>1, <3>2, <3>3
  <2>2. PICK m \in T : \A j \in T : m <= j
    BY <2>1, Least
  <2>3. Around(m)
    <3>1. CASE m = 2
      BY <1>1, <1>4, <2>2, <3>1
    <3>2. CASE m # 2
      <4>1. m - 1 \in 2 .. last /\ m - 1 \notin T
        BY <1>1, <2>2, <3>2
      <4> QED BY <1>1, <2>2, <4>1
    <3> QED BY <3>1, <3>2
  <2> DEFINE k == CHOOSE k \in 2 .. last : Around(k)
  <2>4. k \in 2 .. last /\ curve[k - 1].input <= x /\ x <= curve[k].input
    <3>1. m \in 2 .. last
      OBVIOUS
    <3> HIDE DEF T
    <3> QED BY <2>3, <3>1
  <2>5. y = Interpolated(curve[k - 1], curve[k], x)
    BY <1>4, Zenon DEF CurveAt
  <2> HIDE DEF k, y
  <2>6. /\ k - 1 \in 1 .. last /\ k \in 1 .. last /\ k = (k - 1) + 1
        /\ curve[k - 1].input < curve[k].input
    BY <1>1, <2>4
  <2>7. /\ y \in Int
        /\ \/ curve[k - 1].output <= y /\ y <= curve[k].output
           \/ curve[k].output <= y /\ y <= curve[k - 1].output
    BY <1>1, <2>4, <2>5, <2>6, InterpolatedBetween
  <2>8. y \in Min({curve[k - 1].output, curve[k].output}) .. Max({curve[k - 1].output, curve[k].output})
    <3>1. curve[k - 1].output \in Int /\ curve[k].output \in Int
      BY <1>1, <2>6
    <3> QED BY <2>7, <3>1, PairEnds
  <2>9. Between(curve, x, k - 1, k)
    BY <2>4, <2>6, <2>8 DEF Between, y
  <2> QED BY <1>1, <2>6, <2>7, <2>9 DEF y
<1> QED BY <1>2, <1>3, <1>4

-----------------------------------------------------------------------------
(* Memories and ages                                                        *)

Record(S) == [applied : S, armed : S, input : S, inputAge : S, condition : S,
              conditionAge : S, unconfirmed : S]

(* A memory has the fields of one, and its ages are bounded.                *)
Whole(m) == \E S : m \in Record(S)
Remembering(m) ==
    Whole(m) /\ m.inputAge \in 0 .. MaxAge /\ m.conditionAge \in 0 .. MaxAge

(* No value it keeps is older than the memory takes it to be.               *)
Covers(m, b) ==
    /\ m.input # Unset => b.source <= m.inputAge
    /\ m.condition # Unset => b.gate <= m.conditionAge

(* Two memories that differ in outputs and counters only.                   *)
SameReadings(n, m) ==
    /\ Whole(n)
    /\ n.input = m.input /\ n.inputAge = m.inputAge
    /\ n.condition = m.condition /\ n.conditionAge = m.conditionAge

Ages == [source : 0 .. MaxAge, gate : 0 .. MaxAge]

(* While a write is under way, it is the copy it carries that will count.   *)
Held == IF job.busy THEN job.memory ELSE memory

IInv ==
    /\ job.busy \in BOOLEAN /\ blind \in Ages /\ rule.grace \in 0 .. MaxAge
    /\ Remembering(Held) /\ Covers(Held, blind)
    /\ NeverSteersBlind

-----------------------------------------------------------------------------
(* Memories *)

LEMMA OlderType ==
    ASSUME NEW age \in 0 .. MaxAge, NEW lag \in 1 .. MaxLag
    PROVE  Older(age, lag) \in 0 .. MaxAge
  BY EvaluationAssumption DEF Older, Bounded

LEMMA OlderGrows ==
    ASSUME NEW young \in 0 .. MaxAge, NEW old \in 0 .. MaxAge, young <= old,
           NEW lag \in 1 .. MaxLag
    PROVE  Older(young, lag) <= Older(old, lag)
  BY EvaluationAssumption DEF Older, Bounded

(* Whatever loading and saving do to a rule, its grace period stays.        *)
LEMMA GraceKept ==
    ASSUME NEW draft \in RulesOf(Drafts) \cup Savable(Drafts)
    PROVE  draft.grace \in 0 .. MaxAge
<1>1. PICK d \in Drafts : draft = Loaded(d) \/ draft = [d EXCEPT !.curve = Sorted(@)]
  BY Zenon DEF RulesOf, Savable
<1>2. "grace" \in DOMAIN d /\ d.grace \in 0 .. MaxAge
  BY EvaluationAssumption DEF Parsed
<1>3. draft.grace = d.grace
  BY <1>1, <1>2 DEF Loaded
<1> QED BY <1>2, <1>3

Fits(m, S, X) == m \in Record(S) /\ X \subseteq S

(* Whatever a memory holds and is about to hold has a set of its own.       *)
LEMMA Roomy ==
    ASSUME NEW m, Whole(m), NEW X
    PROVE  \E S : Fits(m, S, X)
<1>1. PICK S : m \in Record(S)
  BY DEF Whole
<1>2. m \in Record(S \cup X)
  BY <1>1 DEF Record
<1> QED BY <1>2 DEF Fits

(* What the outcome of a write changes are not readings.                    *)
LEMMA OutputChanges ==
    ASSUME NEW m, Whole(m), NEW v, NEW u
    PROVE  /\ SameReadings(m, m)
           /\ SameReadings([m EXCEPT !.applied = v], m)
           /\ SameReadings([m EXCEPT !.armed = v], m)
           /\ SameReadings([m EXCEPT !.unconfirmed = v], m)
           /\ SameReadings([m EXCEPT !.applied = v, !.unconfirmed = u], m)
<1>1. PICK S : Fits(m, S, {v, u})
  BY Roomy, Zenon
<1>2. m \in Record(S) /\ v \in S /\ u \in S
  BY <1>1 DEF Fits
<1>3. ASSUME NEW n \in Record(S), n.input = m.input, n.inputAge = m.inputAge,
             n.condition = m.condition, n.conditionAge = m.conditionAge
      PROVE  SameReadings(n, m)
  BY <1>3 DEF SameReadings, Whole
<1>4. SameReadings([m EXCEPT !.applied = v], m)
  <2>1. LET n == [m EXCEPT !.applied = v] IN
        n \in Record(S) /\ n.input = m.input /\ n.inputAge = m.inputAge
        /\ n.condition = m.condition /\ n.conditionAge = m.conditionAge
    BY <1>2 DEF Record
  <2> QED BY <1>3, <2>1, Zenon
<1>5. SameReadings([m EXCEPT !.armed = v], m)
  <2>1. LET n == [m EXCEPT !.armed = v] IN
        n \in Record(S) /\ n.input = m.input /\ n.inputAge = m.inputAge
        /\ n.condition = m.condition /\ n.conditionAge = m.conditionAge
    BY <1>2 DEF Record
  <2> QED BY <1>3, <2>1, Zenon
<1>6. SameReadings([m EXCEPT !.unconfirmed = v], m)
  <2>1. LET n == [m EXCEPT !.unconfirmed = v] IN
        n \in Record(S) /\ n.input = m.input /\ n.inputAge = m.inputAge
        /\ n.condition = m.condition /\ n.conditionAge = m.conditionAge
    BY <1>2 DEF Record
  <2> QED BY <1>3, <2>1, Zenon
<1>7. SameReadings([m EXCEPT !.applied = v, !.unconfirmed = u], m)
  <2>1. LET n == [m EXCEPT !.applied = v, !.unconfirmed = u] IN
        n \in Record(S) /\ n.input = m.input /\ n.inputAge = m.inputAge
        /\ n.condition = m.condition /\ n.conditionAge = m.conditionAge
    BY <1>2 DEF Record
  <2> QED BY <1>3, <2>1, Zenon
<1>8. SameReadings(m, m)
  BY <1>2, <1>3, Zenon
<1> QED BY <1>4, <1>5, <1>6, <1>7, <1>8

LEMMA CoversSame ==
    ASSUME NEW m, NEW n, Remembering(m), SameReadings(n, m), NEW b, Covers(m, b)
    PROVE  Remembering(n) /\ Covers(n, b)
  BY DEF SameReadings, Covers, Remembering

(* Time passes for the memory as it does for the world.                     *)
LEMMA AgedCovers ==
    ASSUME NEW m, Remembering(m), NEW b \in Ages, Covers(m, b), NEW lag \in 1 .. MaxLag
    PROVE  /\ Remembering(Aged(m, lag))
           /\ Covers(Aged(m, lag), [source |-> Older(b.source, lag), gate |-> Older(b.gate, lag)])
<1>1. /\ Whole(Aged(m, lag))
      /\ Aged(m, lag).input = m.input /\ Aged(m, lag).condition = m.condition
      /\ Aged(m, lag).inputAge = Older(m.inputAge, lag)
      /\ Aged(m, lag).conditionAge = Older(m.conditionAge, lag)
  <2> DEFINE v == Older(m.inputAge, lag)
             w == Older(m.conditionAge, lag)
             n == [m EXCEPT !.inputAge = v, !.conditionAge = w]
  <2>0. Whole(m)
    BY DEF Remembering
  <2> HIDE DEF v, w
  <2>1. PICK S : Fits(m, S, {v, w})
    BY <2>0, Roomy, Zenon
  <2>2. m \in Record(S) /\ v \in S /\ w \in S
    BY <2>1 DEF Fits
  <2>3. Aged(m, lag) = n
    BY Zenon DEF Aged, v, w
  <2>4. /\ n \in Record(S) /\ n.input = m.input /\ n.condition = m.condition
        /\ n.inputAge = v /\ n.conditionAge = w
    BY <2>2 DEF Record
  <2> HIDE DEF n
  <2> QED BY <2>3, <2>4 DEF Whole, v, w
<1>2. Older(m.inputAge, lag) \in 0 .. MaxAge /\ Older(m.conditionAge, lag) \in 0 .. MaxAge
  BY OlderType DEF Remembering
<1>3. m.input # Unset => Older(b.source, lag) <= Older(m.inputAge, lag)
  BY OlderGrows DEF Covers, Ages, Remembering
<1>4. m.condition # Unset => Older(b.gate, lag) <= Older(m.conditionAge, lag)
  BY OlderGrows DEF Covers, Ages, Remembering
<1> HIDE DEF Aged
<1> QED BY <1>1, <1>2, <1>3, <1>4 DEF Remembering, Covers

-----------------------------------------------------------------------------
(* Steps *)

(* What blind becomes.                                                      *)
Seen(lag, value, gauge) ==
    [source |-> IF value # Unset THEN 0 ELSE Older(blind.source, lag),
     gate |-> IF gauge # Unset THEN 0 ELSE Older(blind.gate, lag)]

(* A fresh reading sets its own anchor, and none that was not read.         *)
LEMMA ObservedCovers ==
    ASSUME IInv, ~job.busy, NEW lag \in 1 .. MaxLag, NEW value, NEW gauge
    PROVE  /\ Remembering(Observed(lag, value, gauge))
           /\ Covers(Observed(lag, value, gauge), Seen(lag, value, gauge))
           /\ Seen(lag, value, gauge) \in Ages
<1> DEFINE aged == Aged(memory, lag)
           b == [source |-> Older(blind.source, lag), gate |-> Older(blind.gate, lag)]
           read == WithSource(aged, value)
           seen == Seen(lag, value, gauge)
<1>1. Remembering(aged) /\ Covers(aged, b)
  BY AgedCovers DEF IInv, Held
<1>2. b \in Ages /\ 0 \in 0 .. MaxAge
  BY OlderType, EvaluationAssumption DEF IInv, Ages
<1>3. seen \in Ages
  BY <1>2 DEF Seen, Ages
<1> HIDE DEF aged
<1>4. /\ Remembering(read) /\ (read.input # Unset => seen.source <= read.inputAge)
      /\ read.condition = aged.condition /\ read.conditionAge = aged.conditionAge
  <2>1. CASE value = Unset
    BY <1>1, <2>1 DEF WithSource, Covers, Seen
  <2>2. CASE value # Unset
    <3>1. read = [aged EXCEPT !.input = value, !.inputAge = 0]
      BY <2>2 DEF WithSource
    <3> HIDE DEF read, seen
    <3>0. Whole(aged)
      BY <1>1 DEF Remembering
    <3>2. PICK S : Fits(aged, S, {value, 0})
      BY <3>0, Roomy, Zenon
    <3>4. aged \in Record(S) /\ value \in S /\ 0 \in S
      BY <3>2 DEF Fits
    <3>5. LET n == [aged EXCEPT !.input = value, !.inputAge = 0] IN
          /\ n \in Record(S) /\ n.input = value /\ n.inputAge = 0
          /\ n.condition = aged.condition /\ n.conditionAge = aged.conditionAge
      BY <3>4 DEF Record
    <3>6. /\ Whole(read) /\ read.input = value /\ read.inputAge = 0
          /\ read.condition = aged.condition /\ read.conditionAge = aged.conditionAge
      BY <3>1, <3>5, Zenon DEF Whole
    <3>3. seen.source = 0
      BY <2>2 DEF seen, Seen
    <3> QED BY <1>1, <1>2, <3>3, <3>6 DEF Remembering
  <2> QED BY <2>1, <2>2
<1>5. read.condition # Unset => seen.gate <= read.conditionAge
  BY <1>1, <1>2, <1>4 DEF Covers, Seen, Remembering, Ages
<1> HIDE DEF read, seen
<1>6. CASE Observed(lag, value, gauge) = read
  BY <1>3, <1>4, <1>5, <1>6 DEF Covers, seen
<1>7. CASE Observed(lag, value, gauge) = WithCondition(read, gauge) /\ gauge # Unset
  <2> DEFINE new == [read EXCEPT !.condition = gauge, !.conditionAge = 0]
  <2>1. Observed(lag, value, gauge) = new
    BY <1>7 DEF WithCondition
  <2>4. Whole(read)
    BY <1>4 DEF Remembering
  <2>0. PICK S : Fits(read, S, {gauge, 0})
    BY <2>4, Roomy, Zenon
  <2>5. read \in Record(S) /\ gauge \in S /\ 0 \in S
    BY <2>0 DEF Fits
  <2>6. /\ new \in Record(S) /\ new.input = read.input /\ new.inputAge = read.inputAge
        /\ new.condition = gauge /\ new.conditionAge = 0
    BY <2>5 DEF Record
  <2> HIDE DEF new
  <2>2. /\ Whole(new) /\ new.input = read.input /\ new.inputAge = read.inputAge
        /\ new.condition = gauge /\ new.conditionAge = 0
    BY <2>6 DEF Whole
  <2>3. seen.gate = 0
    BY <1>7 DEF seen, Seen
  <2>7. Remembering(new) /\ Covers(new, seen)
    BY <1>2, <1>4, <2>2, <2>3 DEF Remembering, Covers
  <2> QED BY <1>3, <2>1, <2>7 DEF seen
<1>8. \/ Observed(lag, value, gauge) = read
      \/ Observed(lag, value, gauge) = WithCondition(read, gauge) /\ gauge # Unset
  BY DEF Observed, WithCondition, read, aged
<1> QED BY <1>6, <1>7, <1>8

(* The curve is followed only by what was read, or is young enough.         *)
LEMMA SteeringSees ==
    ASSUME IInv, ~job.busy, NEW lag \in 1 .. MaxLag, NEW value, NEW gauge,
           LET m == Observed(lag, value, gauge) IN
           SourceOf(m, value) # Unset /\ GateOf(m, gauge) = "open"
    PROVE  LET b == Seen(lag, value, gauge) IN
           /\ b.source = 0 \/ b.source < rule.grace
           /\ rule.when # Unset => b.gate = 0 \/ b.gate < rule.grace
<1> DEFINE m == Observed(lag, value, gauge)
           b == Seen(lag, value, gauge)
<1>1. Remembering(m) /\ Covers(m, b) /\ b \in Ages
  BY ObservedCovers
<1>2. value = Unset => Reusable(m.input, m.inputAge)
  BY DEF SourceOf
<1>3. rule.when # Unset /\ gauge = Unset => Reusable(m.condition, m.conditionAge)
  BY DEF GateOf
<1>4. rule.grace \in 0 .. MaxAge /\ MaxAge \in Nat
  BY EvaluationAssumption DEF IInv
<1>5. (value # Unset => b.source = 0) /\ (gauge # Unset => b.gate = 0)
  BY DEF Seen
<1> HIDE DEF m, b
<1>6. value = Unset => b.source < rule.grace
  BY <1>1, <1>2, <1>4 DEF Remembering, Covers, Reusable, Ages
<1>7. rule.when # Unset /\ gauge = Unset => b.gate < rule.grace
  BY <1>1, <1>3, <1>4 DEF Remembering, Covers, Reusable, Ages
<1>8. /\ b.source = 0 \/ b.source < rule.grace
      /\ rule.when # Unset => b.gate = 0 \/ b.gate < rule.grace
  BY <1>5, <1>6, <1>7
<1> QED BY <1>8 DEF b

(* Whatever is decided, the readings of the evaluation are remembered.      *)
LEMMA DecideHolds ==
    ASSUME NEW verdict, NEW duty, NEW write \in BOOLEAN, NEW m, NEW n,
           job.busy \in BOOLEAN, ~job.busy, SameReadings(n, m), Decide(verdict, duty, write, n)
    PROVE  SameReadings(Held', m) /\ job'.busy \in BOOLEAN
<1>1. CASE write
  <2>1. job' = [busy |-> TRUE, duty |-> duty, verdict |-> verdict, memory |-> n]
    BY <1>1 DEF Decide
  <2>2. job'.busy = TRUE /\ job'.memory = n
    BY <2>1
  <2> QED BY <2>2 DEF Held
<1>2. CASE ~write
  <2>1. memory' = n /\ job' = job
    BY <1>2 DEF Decide
  <2> QED BY <2>1 DEF Held
<1> QED BY <1>1, <1>2

(* An evaluation: every branch keeps its readings; only the curve steers.   *)
LEMMA EvaluateKeeps ==
    ASSUME IInv, NEW lag \in 1 .. MaxLag, NEW value, NEW gauge, Evaluate(lag, value, gauge)
    PROVE  IInv'
<1> DEFINE m == Observed(lag, value, gauge)
           x == SourceOf(m, value)
           b == Seen(lag, value, gauge)
           gate == IF x = Unset THEN "unavailable" ELSE GateOf(m, gauge)
<1>1. ~job.busy /\ job.busy \in BOOLEAN /\ rule' = rule /\ blind' = b
  BY DEF Evaluate, Seen, IInv
<1>2. Remembering(m) /\ Covers(m, b) /\ b \in Ages
  BY <1>1, ObservedCovers
<1>3. Whole(m)
  BY <1>2 DEF Remembering
<1>4. \/ gate = "open" /\ Steer(m, x)
      \/ gate = "closed" /\ StandDown(m)
      \/ gate = "unavailable" /\ FallBack(m)
  BY DEF Evaluate
<1>5. ASSUME gate = "open"
      PROVE  /\ b.source = 0 \/ b.source < rule.grace
             /\ rule.when # Unset => b.gate = 0 \/ b.gate < rule.grace
  <2>1. x # Unset /\ GateOf(m, gauge) = "open"
    BY <1>5
  <2> QED BY <1>1, <2>1, SteeringSees
<1> HIDE DEF m, x, b, gate
<1>6. SameReadings(Held', m) /\ job'.busy \in BOOLEAN
  <2>1. CASE Steer(m, x)
    <3>1. SameReadings(Rearmed(m, x), m)
      BY <1>3, OutputChanges, Zenon DEF Rearmed
    <3> DEFINE duty == Target(m, x)
               write == WorthWriting(m, duty)
    <3>2. write \in BOOLEAN
      BY Zenon DEF WorthWriting
    <3>3. Decide(IF write THEN "applied" ELSE "held", duty, write, Rearmed(m, x))
      BY <2>1, Zenon DEF Steer
    <3> HIDE DEF duty, write
    <3> QED BY <1>1, <3>1, <3>2, <3>3, DecideHolds
  <2>2. CASE StandDown(m)
    <3>1. SameReadings(Disarmed(m), m)
      BY <1>3, OutputChanges, Zenon DEF Disarmed
    <3> DEFINE duty == Bounded(TargetMin, PolicyDuty(rule.when.otherwise, SafeDuty), TargetMax)
               write == m.applied # duty
    <3>2. write \in BOOLEAN
      OBVIOUS
    <3>3. Decide("gated", duty, write, Disarmed(m))
      BY <2>2, Zenon DEF StandDown
    <3> HIDE DEF duty, write
    <3> QED BY <1>1, <3>1, <3>2, <3>3, DecideHolds
  <2>3. CASE FallBack(m)
    <3>1. SameReadings(m, m)
      BY <1>3, OutputChanges, Zenon
    <3> DEFINE duty == Bounded(TargetMin, PolicyDuty(rule.onMissing, SafeDuty), TargetMax)
               write == m.applied # duty
               never == FALSE
    <3>2. \/ Decide("fallback", m.applied, never, m)
          \/ Decide("fallback", duty, write, m)
      BY <2>3, Zenon DEF FallBack
    <3>3. never \in BOOLEAN /\ write \in BOOLEAN
      OBVIOUS
    <3> HIDE DEF duty, write, never
    <3>4. CASE Decide("fallback", m.applied, never, m)
      BY <1>1, <3>1, <3>3, <3>4, DecideHolds
    <3>5. CASE Decide("fallback", duty, write, m)
      BY <1>1, <3>1, <3>3, <3>5, DecideHolds
    <3> QED BY <3>2, <3>4, <3>5
  <2> QED BY <1>4, <2>1, <2>2, <2>3
<1>7. steered' # Unset => gate = "open"
  BY <1>4 DEF StandDown, FallBack
<1>8. Remembering(Held') /\ Covers(Held', b)
  BY <1>2, <1>6, CoversSame
<1>9. NeverSteersBlind'
  BY <1>1, <1>5, <1>7 DEF NeverSteersBlind, Known
<1>10. rule'.grace \in 0 .. MaxAge /\ blind' \in Ages /\ Covers(Held', blind')
  BY <1>1, <1>2, <1>8 DEF IInv
<1> QED BY <1>6, <1>8, <1>9, <1>10 DEF IInv, Remembering, Covers

(* An answer: the copy becomes the memory, with another output perhaps.     *)
LEMMA AnswerKeeps ==
    ASSUME IInv, job.busy, NEW m, NEW verdict, SameReadings(m, job.memory), Remember(m, verdict)
    PROVE  IInv'
<1>1. job'.busy = FALSE /\ memory' = m /\ rule' = rule /\ steered' = steered /\ blind' = blind
  BY DEF Remember, NoJob
<1>2. Remembering(job.memory) /\ Covers(job.memory, blind)
  BY DEF IInv, Held
<1>3. Remembering(m) /\ Covers(m, blind)
  BY <1>2, CoversSame
<1>4. Held' = m
  BY <1>1 DEF Held
<1> QED BY <1>1, <1>3, <1>4 DEF IInv, Remembering, Covers, NeverSteersBlind, Known

(* The failure policy changes the output the rule believes in, or nothing.  *)
LEMMA PolicyChanges ==
    ASSUME NEW m, NEW places, NEW out \in PolicyOutcomes(m, places)
    PROVE  out[1] = m \/ \E duty : out[1] = [m EXCEPT !.applied = duty]
<1> DEFINE duty == Granted(PolicyDuty(rule.onFailure, SafeDuty))
           given == [m EXCEPT !.applied = duty]
           lost == [m EXCEPT !.applied = Unset]
<1>1. \/ out \in {m} \X places
      \/ out = <<given, duty>>
      \/ out \in {lost} \X (places \cup {duty})
      \/ out \in {m} \X (places \cup {duty} \cup FailSafe)
  BY Zenon DEF PolicyOutcomes
<1> HIDE DEF given, lost, duty
<1>2. out[1] \in {m, given, lost}
  BY <1>1
<1> QED BY <1>2, Zenon DEF given, lost

LEMMA PolicyKeeps ==
    ASSUME IInv, job.busy, NEW m, NEW places, Whole(m), SameReadings(m, job.memory),
           RunPolicy(m, places)
    PROVE  IInv'
<1>1. PICK out \in PolicyOutcomes(m, places) : Remember(out[1], "error")
  BY DEF RunPolicy
<1>2. out[1] = m \/ \E duty : out[1] = [m EXCEPT !.applied = duty]
  BY <1>1, PolicyChanges
<1>3. SameReadings(out[1], m)
  BY <1>2, OutputChanges, Zenon
<1>4. SameReadings(out[1], job.memory)
  BY <1>3 DEF SameReadings
<1> QED BY <1>1, <1>4, AnswerKeeps, Zenon

LEMMA AnswersKeep ==
    ASSUME IInv, Confirmed \/ Unconfirmed \/ Failed
    PROVE  IInv'
<1>1. job.busy
  BY DEF Confirmed, Unconfirmed, Failed
<1>2. Whole(job.memory)
  BY <1>1 DEF IInv, Held, Remembering
<1>3. CASE Confirmed
  <2> DEFINE m == [job.memory EXCEPT !.applied = Granted(job.duty), !.unconfirmed = 0]
  <2>1. SameReadings(m, job.memory)
    BY <1>2, OutputChanges, Zenon
  <2>2. Remember(m, job.verdict)
    BY <1>3, Zenon DEF Confirmed
  <2> QED BY <1>1, <2>1, <2>2, AnswerKeeps, Zenon
<1>4. CASE Unconfirmed
  <2> DEFINE forgot == Forgotten(job.memory, Granted(job.duty))
             count == job.memory.unconfirmed + 1
             places == {channel, Granted(job.duty)}
  <2>1. SameReadings(forgot, job.memory)
    BY <1>2, OutputChanges, Zenon DEF Forgotten
  <2>2. Whole(forgot)
    BY <2>1 DEF SameReadings
  <2>3. \/ RunPolicy([forgot EXCEPT !.unconfirmed = 0], places)
        \/ Remember([forgot EXCEPT !.unconfirmed = count], "unconfirmed")
    BY <1>4, Zenon DEF Unconfirmed
  <2> HIDE DEF forgot, count, places
  <2>4. ASSUME NEW v PROVE SameReadings([forgot EXCEPT !.unconfirmed = v], forgot)
    BY <2>2, OutputChanges, Zenon
  <2>5. ASSUME NEW n, SameReadings(n, forgot) PROVE SameReadings(n, job.memory) /\ Whole(n)
    BY <2>1, <2>5 DEF SameReadings
  <2>6. CASE RunPolicy([forgot EXCEPT !.unconfirmed = 0], places)
    BY <1>1, <2>4, <2>5, <2>6, PolicyKeeps, Zenon
  <2>7. CASE Remember([forgot EXCEPT !.unconfirmed = count], "unconfirmed")
    BY <1>1, <2>4, <2>5, <2>7, AnswerKeeps, Zenon
  <2> QED BY <2>3, <2>6, <2>7
<1>5. CASE Failed
  <2>1. SameReadings(job.memory, job.memory)
    BY <1>2, OutputChanges, Zenon
  <2>2. PICK places : RunPolicy(job.memory, places)
    BY <1>5, Zenon DEF Failed
  <2> QED BY <1>1, <1>2, <2>1, <2>2, PolicyKeeps, Zenon
<1> QED BY <1>3, <1>4, <1>5

(* An edit: a reading of a sensor the rule no longer has is dropped, or its *)
(* age is the one the rule's new sensor starts with.                        *)
LEMMA EditKeeps ==
    ASSUME IInv, ~Overlapping, NEW new \in Savable(Drafts), Edit(new)
    PROVE  IInv'
<1>1. /\ ~job.busy /\ job' = job /\ rule' = new /\ steered' = Unset
      /\ memory' = Reconciled(memory, new)
      /\ blind' = [source |-> IF SourceChanged(new) THEN MaxAge ELSE blind.source,
                   gate |-> IF rule.when # new.when THEN MaxAge ELSE blind.gate]
  BY DEF Edit
<1>2. Whole(memory) /\ Remembering(memory) /\ Covers(memory, blind)
  BY <1>1 DEF IInv, Held, Remembering
<1>3. new.grace \in 0 .. MaxAge
  BY GraceKept
<1>4. MaxAge \in 0 .. MaxAge
  BY EvaluationAssumption
<1> DEFINE moved == SourceChanged(new)
           regated == rule.when # new.when
           n == Reconciled(memory, new)
<1>5. /\ Whole(n)
      /\ n.input = (IF moved THEN Unset ELSE memory.input)
      /\ n.inputAge = (IF moved THEN MaxAge ELSE memory.inputAge)
      /\ n.condition = (IF regated THEN Unset ELSE memory.condition)
      /\ n.conditionAge = (IF regated THEN MaxAge ELSE memory.conditionAge)
  <2> DEFINE applied == IF rule.enabled # new.enabled THEN Unset ELSE memory.applied
             armed == IF rule.enabled # new.enabled \/ moved \/ ControlChanged(new)
                      THEN Unset ELSE memory.armed
             input == IF moved THEN Unset ELSE memory.input
             inputAge == IF moved THEN MaxAge ELSE memory.inputAge
             condition == IF regated THEN Unset ELSE memory.condition
             conditionAge == IF regated THEN MaxAge ELSE memory.conditionAge
  <2>1. n = [memory EXCEPT !.applied = applied, !.armed = armed,
                           !.input = input, !.inputAge = inputAge,
                           !.condition = condition, !.conditionAge = conditionAge]
    BY Zenon DEF Reconciled
  <2> HIDE DEF applied, armed, input, inputAge, condition, conditionAge, n
  <2>2. PICK S : Fits(memory, S, {applied, armed, input, inputAge, condition, conditionAge})
    BY <1>2, Roomy, Zenon
  <2>3. /\ memory \in Record(S) /\ applied \in S /\ armed \in S /\ input \in S
        /\ inputAge \in S /\ condition \in S /\ conditionAge \in S
    BY <2>2 DEF Fits
  <2>4. LET k == [memory EXCEPT !.applied = applied, !.armed = armed,
                                !.input = input, !.inputAge = inputAge,
                                !.condition = condition, !.conditionAge = conditionAge] IN
        /\ k \in Record(S) /\ k.input = input /\ k.inputAge = inputAge
        /\ k.condition = condition /\ k.conditionAge = conditionAge
    BY <2>3 DEF Record
  <2>5. /\ n \in Record(S) /\ n.input = input /\ n.inputAge = inputAge
        /\ n.condition = condition /\ n.conditionAge = conditionAge
    BY <2>1, <2>4, Zenon
  <2> QED BY <2>5 DEF Whole, input, inputAge, condition, conditionAge
<1> HIDE DEF n, moved, regated
<1>6. blind' = [source |-> IF moved THEN MaxAge ELSE blind.source,
                gate |-> IF regated THEN MaxAge ELSE blind.gate]
  BY <1>1 DEF moved, regated
<1>7. blind' \in Ages
  BY <1>4, <1>6 DEF IInv, Ages
<1>8. Remembering(n) /\ Covers(n, blind')
  BY <1>2, <1>4, <1>5, <1>6 DEF Remembering, Covers
<1>9. Held' = n /\ job'.busy \in BOOLEAN
  BY <1>1 DEF Held, n, IInv
<1> QED BY <1>1, <1>3, <1>7, <1>8, <1>9 DEF IInv, Remembering, Covers, NeverSteersBlind

LEMMA StepKeeps == ASSUME IInv, ~Overlapping, [Next]_vars PROVE IInv'
<1>1. CASE Evaluation
  <2>1. PICK lag \in 1 .. MaxLag : EvaluateReadings(lag)
    BY <1>1 DEF Evaluation
  <2>2. PICK value, gauge : Evaluate(lag, value, gauge)
    BY <2>1, Zenon DEF EvaluateReadings
  <2> QED BY <2>2, EvaluateKeeps
<1>2. CASE Confirmed \/ Unconfirmed \/ Failed
  BY <1>2, AnswersKeep
<1>3. CASE Forced \/ UNCHANGED vars
  BY <1>3 DEF Forced, vars, history, IInv, Held, Remembering, Covers, NeverSteersBlind, Known
<1>4. ASSUME NEW new \in Savable(Drafts), Edit(new) PROVE IInv'
  BY <1>4, EditKeeps
<1> QED BY <1>1, <1>2, <1>3, <1>4 DEF Next

LEMMA InitHolds == Init => IInv
<1> SUFFICES ASSUME Init PROVE IInv
  OBVIOUS
<1>1. /\ job = NoJob /\ memory = FreshMemory /\ steered = Unset
      /\ blind = [source |-> MaxAge, gate |-> MaxAge]
  BY DEF Init
<1>2. job.busy = FALSE
  BY <1>1 DEF NoJob
<1>3. MaxAge \in 0 .. MaxAge
  BY EvaluationAssumption
<1>4. memory \in Record({Unset, MaxAge, 0})
  BY <1>1 DEF FreshMemory, Record
<1>5. /\ memory.input = Unset /\ memory.condition = Unset
      /\ memory.inputAge = MaxAge /\ memory.conditionAge = MaxAge
  BY <1>1 DEF FreshMemory
<1>6. Remembering(Held) /\ Covers(Held, blind)
  BY <1>2, <1>3, <1>4, <1>5 DEF Held, Remembering, Whole, Covers
<1>7. rule.grace \in 0 .. MaxAge
  BY GraceKept DEF Init
<1> QED BY <1>1, <1>2, <1>3, <1>6, <1>7 DEF IInv, NeverSteersBlind, Ages

-----------------------------------------------------------------------------
(* With edits that wait for the answer to a write, no rule of any shape     *)
(* follows its curve on a sensor that has been silent for a grace period:   *)
(* reused values never prolong themselves, and neither a failed write, nor  *)
(* an unconfirmed one, nor an edit makes an old reading look young.         *)
THEOREM SteersOnlyBySight == ~Overlapping => (Spec => []NeverSteersBlind)
<1> SUFFICES ASSUME ~Overlapping PROVE Spec => []NeverSteersBlind
  OBVIOUS
<1>1. Init => IInv
  BY InitHolds
<1>2. IInv /\ [Next]_vars => IInv'
  BY StepKeeps
<1>3. IInv => NeverSteersBlind
  BY DEF IInv
<1> QED BY <1>1, <1>2, <1>3, PTL DEF Spec
-----------------------------------------------------------------------------
(* The anchor of a rule behind its gate                                     *)

(* Two memories with the same output and the same anchor.                   *)
SameOutput(n, m) == Whole(n) /\ n.armed = m.armed /\ n.applied = m.applied

SameAnchor(n, m) == Whole(n) /\ n.armed = m.armed

(* A rule that stands down behind its gate has no anchor, nor has the copy  *)
(* that a write carries when its answer will make the rule stand down.      *)
DownInv ==
    /\ job.busy \in BOOLEAN /\ Whole(Held)
    /\ (IF job.busy THEN job.verdict ELSE status) = "gated" => Held.armed = Unset

(* Readings and ages are no part of what a rule holds its output by.        *)
LEMMA ReadingChanges ==
    ASSUME NEW m, Whole(m), NEW v, NEW u
    PROVE  /\ SameOutput([m EXCEPT !.inputAge = v, !.conditionAge = u], m)
           /\ SameOutput([m EXCEPT !.input = v, !.inputAge = u], m)
           /\ SameOutput([m EXCEPT !.condition = v, !.conditionAge = u], m)
<1>1. PICK S : Fits(m, S, {v, u})
  BY Roomy, Zenon
<1>2. m \in Record(S) /\ v \in S /\ u \in S
  BY <1>1 DEF Fits
<1>3. ASSUME NEW n \in Record(S), n.armed = m.armed, n.applied = m.applied
      PROVE  SameOutput(n, m)
  BY <1>3 DEF SameOutput, Whole
<1>4. LET n == [m EXCEPT !.inputAge = v, !.conditionAge = u] IN
      n \in Record(S) /\ n.armed = m.armed /\ n.applied = m.applied
  BY <1>2 DEF Record
<1>5. LET n == [m EXCEPT !.input = v, !.inputAge = u] IN
      n \in Record(S) /\ n.armed = m.armed /\ n.applied = m.applied
  BY <1>2 DEF Record
<1>6. LET n == [m EXCEPT !.condition = v, !.conditionAge = u] IN
      n \in Record(S) /\ n.armed = m.armed /\ n.applied = m.applied
  BY <1>2 DEF Record
<1> QED BY <1>3, <1>4, <1>5, <1>6, Zenon

LEMMA ObservedOutput ==
    ASSUME Whole(memory), NEW lag, NEW value, NEW gauge
    PROVE  SameOutput(Observed(lag, value, gauge), memory)
<1> DEFINE aged == Aged(memory, lag)
           read == WithSource(aged, value)
<1>1. ASSUME NEW k, NEW n, NEW m, SameOutput(k, n), SameOutput(n, m)
      PROVE  SameOutput(k, m)
  BY <1>1 DEF SameOutput
<1>2. SameOutput(aged, memory)
  BY ReadingChanges, Zenon DEF Aged
<1>3. Whole(aged)
  BY <1>2 DEF SameOutput
<1> HIDE DEF aged
<1>4. SameOutput(aged, aged)
  BY <1>3 DEF SameOutput
<1>5. read = aged \/ read = [aged EXCEPT !.input = value, !.inputAge = 0]
  BY Zenon DEF WithSource
<1> HIDE DEF read
<1>6. SameOutput(read, aged)
  <2>1. SameOutput([aged EXCEPT !.input = value, !.inputAge = 0], aged)
    BY <1>3, ReadingChanges, Zenon
  <2> QED BY <1>4, <1>5, <2>1, Zenon
<1>7. Whole(read)
  BY <1>6 DEF SameOutput
<1>8. \/ Observed(lag, value, gauge) = read
      \/ Observed(lag, value, gauge) = [read EXCEPT !.condition = gauge, !.conditionAge = 0]
  BY Zenon DEF Observed, WithCondition, aged, read
<1>9. SameOutput(read, read)
  BY <1>7 DEF SameOutput
<1>10. SameOutput(Observed(lag, value, gauge), read)
  <2>1. SameOutput([read EXCEPT !.condition = gauge, !.conditionAge = 0], read)
    BY <1>7, ReadingChanges, Zenon
  <2> QED BY <1>8, <1>9, <2>1, Zenon
<1> QED BY <1>1, <1>2, <1>6, <1>10, Zenon

(* What the outcome of a write changes is not the anchor.                   *)
LEMMA AnchorStays ==
    ASSUME NEW m, Whole(m), NEW v, NEW u
    PROVE  /\ SameAnchor(m, m)
           /\ SameAnchor([m EXCEPT !.applied = v], m)
           /\ SameAnchor([m EXCEPT !.unconfirmed = v], m)
           /\ SameAnchor([m EXCEPT !.applied = v, !.unconfirmed = u], m)
           /\ Whole([m EXCEPT !.armed = v]) /\ [m EXCEPT !.armed = v].armed = v
<1>1. PICK S : Fits(m, S, {v, u})
  BY Roomy, Zenon
<1>2. m \in Record(S) /\ v \in S /\ u \in S
  BY <1>1 DEF Fits
<1>3. ASSUME NEW n \in Record(S), n.armed = m.armed PROVE SameAnchor(n, m)
  BY <1>3 DEF SameAnchor, Whole
<1>4. LET n == [m EXCEPT !.applied = v] IN n \in Record(S) /\ n.armed = m.armed
  BY <1>2 DEF Record
<1>5. LET n == [m EXCEPT !.unconfirmed = v] IN n \in Record(S) /\ n.armed = m.armed
  BY <1>2 DEF Record
<1>6. LET n == [m EXCEPT !.applied = v, !.unconfirmed = u] IN
      n \in Record(S) /\ n.armed = m.armed
  BY <1>2 DEF Record
<1>7. LET n == [m EXCEPT !.armed = v] IN n \in Record(S) /\ n.armed = v
  BY <1>2 DEF Record
<1>8. SameAnchor(m, m)
  BY <1>2, <1>3, Zenon
<1>9. Whole([m EXCEPT !.armed = v]) /\ [m EXCEPT !.armed = v].armed = v
  BY <1>7, Zenon DEF Whole
<1> QED BY <1>3, <1>4, <1>5, <1>6, <1>8, <1>9, Zenon

-----------------------------------------------------------------------------
(* Its steps *)

(* Whatever is decided: only a verdict of "gated" has to have no anchor.    *)
LEMMA DecideDown ==
    ASSUME NEW verdict, NEW duty, NEW write \in BOOLEAN, NEW n, Whole(n),
           verdict = "gated" => n.armed = Unset,
           job.busy \in BOOLEAN, ~job.busy, Decide(verdict, duty, write, n)
    PROVE  DownInv'
<1>1. CASE write
  <2>1. job' = [busy |-> TRUE, duty |-> duty, verdict |-> verdict, memory |-> n]
    BY <1>1 DEF Decide
  <2>2. job'.busy = TRUE /\ job'.verdict = verdict /\ job'.memory = n
    BY <2>1
  <2> QED BY <2>2 DEF Held, DownInv
<1>2. CASE ~write
  <2>1. memory' = n /\ status' = verdict /\ job' = job
    BY <1>2 DEF Decide
  <2> QED BY <2>1 DEF Held, DownInv
<1> QED BY <1>1, <1>2

LEMMA EvaluateDown ==
    ASSUME DownInv, NEW lag, NEW value, NEW gauge, Evaluate(lag, value, gauge)
    PROVE  DownInv'
<1> DEFINE m == Observed(lag, value, gauge)
           x == SourceOf(m, value)
<1>1. ~job.busy /\ job.busy \in BOOLEAN
  BY DEF Evaluate, DownInv
<1>2. Whole(m)
  BY <1>1, ObservedOutput DEF DownInv, Held, SameOutput
<1>3. Steer(m, x) \/ StandDown(m) \/ FallBack(m)
  BY Zenon DEF Evaluate
<1> HIDE DEF m, x
<1>4. CASE Steer(m, x)
  <2> DEFINE duty == Target(m, x)
             write == WorthWriting(m, duty)
             verdict == IF write THEN "applied" ELSE "held"
             n == Rearmed(m, x)
  <2>1. n = m \/ n = [m EXCEPT !.armed = x]
    BY Zenon DEF Rearmed
  <2>2. Whole(n)
    BY <1>2, <2>1, AnchorStays, Zenon
  <2>3. write \in BOOLEAN
    BY Zenon DEF WorthWriting
  <2>4. Decide(verdict, duty, write, n)
    BY <1>4, Zenon DEF Steer
  <2>5. verdict # "gated"
    BY DEF verdict
  <2> HIDE DEF duty, write, verdict, n
  <2> QED BY <1>1, <2>2, <2>3, <2>4, <2>5, DecideDown
<1>5. CASE StandDown(m)
  <2> DEFINE duty == Bounded(TargetMin, PolicyDuty(rule.when.otherwise, SafeDuty), TargetMax)
             write == m.applied # duty
             n == Disarmed(m)
  <2>1. Whole(n) /\ n.armed = Unset
    BY <1>2, AnchorStays, Zenon DEF Disarmed
  <2>2. write \in BOOLEAN /\ Decide("gated", duty, write, n)
    BY <1>5, Zenon DEF StandDown
  <2> HIDE DEF duty, write, n
  <2> QED BY <1>1, <2>1, <2>2, DecideDown
<1>6. CASE FallBack(m)
  <2> DEFINE duty == Bounded(TargetMin, PolicyDuty(rule.onMissing, SafeDuty), TargetMax)
             write == m.applied # duty
             never == FALSE
  <2>1. \/ Decide("fallback", m.applied, never, m)
        \/ Decide("fallback", duty, write, m)
    BY <1>6, Zenon DEF FallBack
  <2>2. never \in BOOLEAN /\ write \in BOOLEAN
    OBVIOUS
  <2> HIDE DEF duty, write, never
  <2>3. CASE Decide("fallback", m.applied, never, m)
    BY <1>1, <1>2, <2>2, <2>3, DecideDown
  <2>4. CASE Decide("fallback", duty, write, m)
    BY <1>1, <1>2, <2>2, <2>4, DecideDown
  <2> QED BY <2>1, <2>3, <2>4
<1> QED BY <1>3, <1>4, <1>5, <1>6

(* An answer brings back the copy with its anchor, and either the verdict   *)
(* the copy was made for, or one that is not "gated".                       *)
LEMMA AnswerDown ==
    ASSUME DownInv, job.busy, NEW m, NEW verdict, SameAnchor(m, job.memory),
           verdict = job.verdict \/ verdict # "gated", Remember(m, verdict)
    PROVE  DownInv'
<1>1. job'.busy = FALSE /\ memory' = m /\ status' = verdict
  BY DEF Remember, NoJob
<1>2. job.verdict = "gated" => job.memory.armed = Unset
  BY DEF DownInv, Held
<1> QED BY <1>1, <1>2 DEF DownInv, Held, SameAnchor

LEMMA PolicyDown ==
    ASSUME DownInv, job.busy, NEW m, NEW places, SameAnchor(m, job.memory),
           RunPolicy(m, places)
    PROVE  DownInv'
<1>1. PICK out \in PolicyOutcomes(m, places) : Remember(out[1], "error")
  BY DEF RunPolicy
<1>2. out[1] = m \/ \E duty : out[1] = [m EXCEPT !.applied = duty]
  BY <1>1, PolicyChanges
<1>3. Whole(m)
  BY DEF SameAnchor
<1>4. SameAnchor(out[1], m)
  <2>1. SameAnchor(m, m) /\ \A v : SameAnchor([m EXCEPT !.applied = v], m)
    BY <1>3, AnchorStays, Zenon
  <2> QED BY <1>2, <2>1, Zenon
<1>5. SameAnchor(out[1], job.memory)
  BY <1>4 DEF SameAnchor
<1>6. "error" # "gated"
  OBVIOUS
<1> QED BY <1>1, <1>5, <1>6, AnswerDown, Zenon

LEMMA AnswersDown ==
    ASSUME DownInv, Confirmed \/ Unconfirmed \/ Failed
    PROVE  DownInv'
<1>1. job.busy
  BY DEF Confirmed, Unconfirmed, Failed
<1>2. Whole(job.memory)
  BY <1>1 DEF DownInv, Held
<1>3. CASE Confirmed
  <2>1. Remember([job.memory EXCEPT !.applied = Granted(job.duty), !.unconfirmed = 0], job.verdict)
    BY <1>3, Zenon DEF Confirmed
  <2>2. SameAnchor([job.memory EXCEPT !.applied = Granted(job.duty), !.unconfirmed = 0], job.memory)
    BY <1>2, AnchorStays, Zenon
  <2> QED BY <1>1, <2>1, <2>2, AnswerDown, Zenon
<1>4. CASE Unconfirmed
  <2> DEFINE forgot == Forgotten(job.memory, Granted(job.duty))
             count == job.memory.unconfirmed + 1
             places == {channel, Granted(job.duty)}
  <2>1. SameAnchor(forgot, job.memory)
    BY <1>2, AnchorStays, Zenon DEF Forgotten
  <2>2. Whole(forgot)
    BY <2>1 DEF SameAnchor
  <2>3. \/ RunPolicy([forgot EXCEPT !.unconfirmed = 0], places)
        \/ Remember([forgot EXCEPT !.unconfirmed = count], "unconfirmed")
    BY <1>4, Zenon DEF Unconfirmed
  <2> HIDE DEF forgot, count, places
  <2>4. ASSUME NEW v PROVE SameAnchor([forgot EXCEPT !.unconfirmed = v], job.memory)
    <3>1. SameAnchor([forgot EXCEPT !.unconfirmed = v], forgot)
      BY <2>2, AnchorStays, Zenon
    <3> QED BY <2>1, <3>1 DEF SameAnchor
  <2>5. "unconfirmed" # "gated"
    OBVIOUS
  <2>6. CASE RunPolicy([forgot EXCEPT !.unconfirmed = 0], places)
    BY <1>1, <2>4, <2>6, PolicyDown, Zenon
  <2>7. CASE Remember([forgot EXCEPT !.unconfirmed = count], "unconfirmed")
    BY <1>1, <2>4, <2>5, <2>7, AnswerDown, Zenon
  <2> QED BY <2>3, <2>6, <2>7
<1>5. CASE Failed
  <2>1. SameAnchor(job.memory, job.memory)
    BY <1>2, AnchorStays, Zenon
  <2>2. PICK places : RunPolicy(job.memory, places)
    BY <1>5, Zenon DEF Failed
  <2> QED BY <1>1, <2>1, <2>2, PolicyDown, Zenon
<1> QED BY <1>3, <1>4, <1>5

(* An edit drops the anchor or leaves it, and during a write the copy is    *)
(* out of its reach.                                                        *)
LEMMA EditDown ==
    ASSUME DownInv, NEW new, Edit(new)
    PROVE  DownInv'
<1>1. /\ job' = job /\ memory' = Reconciled(memory, new)
      /\ status' = IF new.enabled THEN status ELSE "disabled"
  BY DEF Edit
<1>2. CASE job.busy
  BY <1>1, <1>2 DEF DownInv, Held
<1>3. CASE ~job.busy
  <2> DEFINE n == Reconciled(memory, new)
             moved == SourceChanged(new)
             applied == IF rule.enabled # new.enabled THEN Unset ELSE memory.applied
             armed == IF rule.enabled # new.enabled \/ moved \/ ControlChanged(new)
                      THEN Unset ELSE memory.armed
             input == IF moved THEN Unset ELSE memory.input
             inputAge == IF moved THEN MaxAge ELSE memory.inputAge
             condition == IF rule.when # new.when THEN Unset ELSE memory.condition
             conditionAge == IF rule.when # new.when THEN MaxAge ELSE memory.conditionAge
  <2>1. n = [memory EXCEPT !.applied = applied, !.armed = armed,
                           !.input = input, !.inputAge = inputAge,
                           !.condition = condition, !.conditionAge = conditionAge]
    BY Zenon DEF Reconciled
  <2>2. armed = Unset \/ armed = memory.armed
    BY Zenon
  <2>3. Whole(memory)
    BY <1>3 DEF DownInv, Held
  <2> HIDE DEF applied, armed, input, inputAge, condition, conditionAge, n
  <2>4. PICK S : Fits(memory, S, {applied, armed, input, inputAge, condition, conditionAge})
    BY <2>3, Roomy, Zenon
  <2>5. /\ memory \in Record(S) /\ applied \in S /\ armed \in S /\ input \in S
        /\ inputAge \in S /\ condition \in S /\ conditionAge \in S
    BY <2>4 DEF Fits
  <2>6. LET k == [memory EXCEPT !.applied = applied, !.armed = armed,
                                !.input = input, !.inputAge = inputAge,
                                !.condition = condition, !.conditionAge = conditionAge] IN
        k \in Record(S) /\ k.armed = armed
    BY <2>5 DEF Record
  <2>7. Whole(n) /\ n.armed = armed
    BY <2>1, <2>6, Zenon DEF Whole
  <2>8. Held' = n /\ job'.busy \in BOOLEAN /\ ~job'.busy
    BY <1>1, <1>3 DEF Held, n, DownInv
  <2>9. status' = "gated" => status = "gated"
    BY <1>1
  <2>10. status = "gated" => memory.armed = Unset
    BY <1>3 DEF DownInv, Held
  <2> QED BY <2>2, <2>7, <2>8, <2>9, <2>10 DEF DownInv
<1> QED BY <1>2, <1>3

LEMMA StepDown == ASSUME DownInv, [Next]_vars PROVE DownInv'
<1>1. CASE Evaluation
  <2>1. PICK lag, value, gauge : Evaluate(lag, value, gauge)
    BY <1>1, Zenon DEF Evaluation, EvaluateReadings
  <2> QED BY <2>1, EvaluateDown
<1>2. CASE Confirmed \/ Unconfirmed \/ Failed
  BY <1>2, AnswersDown
<1>3. CASE Forced \/ UNCHANGED vars
  BY <1>3 DEF Forced, vars, DownInv, Held
<1>4. ASSUME NEW new, Edit(new) PROVE DownInv'
  BY <1>4, EditDown
<1> QED BY <1>1, <1>2, <1>3, <1>4 DEF Next

LEMMA InitDown == Init => DownInv
<1> SUFFICES ASSUME Init PROVE DownInv
  OBVIOUS
<1>1. job = NoJob /\ memory = FreshMemory /\ status = "idle"
  BY DEF Init
<1>2. job.busy = FALSE
  BY <1>1 DEF NoJob
<1>3. memory \in Record({Unset, MaxAge, 0})
  BY <1>1 DEF FreshMemory, Record
<1> QED BY <1>1, <1>2, <1>3 DEF DownInv, Held, Whole

(* The first evaluation after the gate: with no anchor nothing holds the    *)
(* curve's answer back.                                                     *)
LEMMA HeldAfresh ==
    ASSUME DownInv, Next, FirstHeld, status = "gated"
    PROVE  Near(memory, steered')
<1>1. ~job.busy /\ ~job'.busy /\ status' = "held"
  BY DEF FirstHeld
<1>2. Whole(memory) /\ memory.armed = Unset
  BY <1>1 DEF DownInv, Held
<1>3. PICK lag, value, gauge : Evaluate(lag, value, gauge)
  <2>1. ~(Confirmed \/ Unconfirmed \/ Failed)
    BY <1>1 DEF Confirmed, Unconfirmed, Failed
  <2>2. ~Forced
    BY <1>1 DEF Forced
  <2>3. ASSUME NEW new PROVE ~Edit(new)
    BY <1>1 DEF Edit
  <2>4. Evaluation
    BY <2>1, <2>2, <2>3 DEF Next
  <2> QED BY <2>4, Zenon DEF Evaluation, EvaluateReadings
<1> DEFINE m == Observed(lag, value, gauge)
           x == SourceOf(m, value)
<1>4. m.armed = Unset /\ m.applied = memory.applied
  BY <1>2, ObservedOutput DEF SameOutput
<1>5. Steer(m, x) \/ StandDown(m) \/ FallBack(m)
  BY <1>3, Zenon DEF Evaluate
<1> HIDE DEF m, x
<1>6. ASSUME NEW verdict, NEW duty, NEW write, NEW n, Decide(verdict, duty, write, n)
      PROVE  ~write /\ verdict = "held"
  <2>1. CASE write
    <3>1. job' = [busy |-> TRUE, duty |-> duty, verdict |-> verdict, memory |-> n]
      BY <1>6, <2>1 DEF Decide
    <3> QED BY <1>1, <3>1
  <2>2. CASE ~write
    BY <1>1, <1>6, <2>2 DEF Decide
  <2> QED BY <2>1, <2>2
<1>7. ~StandDown(m)
  BY <1>6 DEF StandDown
<1>8. ~FallBack(m)
  <2>1. ASSUME NEW duty, NEW write PROVE ~Decide("fallback", duty, write, m)
    BY <1>6
  <2> QED BY <2>1, Zenon DEF FallBack
<1>9. Steer(m, x)
  BY <1>5, <1>7, <1>8
<1>10. ~WorthWriting(m, Target(m, x)) /\ steered' = x
  BY <1>6, <1>9, Zenon DEF Steer
<1>11. Target(m, x) = Wanted(x)
  BY <1>4, Zenon DEF Target, HeldBack
<1> QED BY <1>4, <1>10, <1>11, Zenon DEF WorthWriting, Near

(* A rule that stood down behind its gate, in whatever way it came to       *)
(* (confirmed at once, after failures, after an edit, edits during a write  *)
(* included), resumes from the reading it sees when the gate reopens.       *)
THEOREM ResumesAfresh == Spec => ReopensAfresh
<1>1. Init => DownInv
  BY InitDown
<1>2. DownInv /\ [Next]_vars => DownInv'
  BY StepDown
<1>3. DownInv /\ [Next]_vars => [FirstHeld /\ status = "gated" => Near(memory, steered')]_vars
  BY HeldAfresh
<1> QED BY <1>1, <1>2, <1>3, PTL DEF Spec, ReopensAfresh

-----------------------------------------------------------------------------
(* Cooling follows the curve                                                *)

(* A rule that was parsed and validated, loaded or saved.                   *)
Sound(r) ==
    /\ ValidRule(r) /\ List(r.curve) /\ IsFiniteSet(r.sensors)
    /\ r.aggregate \in {"max", "min", "avg"}

(* What the argument needs of a memory.                                     *)
Numbered(m) == Whole(m) /\ m.input \in Number /\ m.applied \in Number

(* While nothing about the last write is in doubt, the output is at least   *)
(* where the rule takes it to be (full speed may have been forced since),   *)
(* and a write that follows the curve asks for what the curve wants.        *)
Trusted(m) ==
    ~doubt /\ m.applied # Unset => m.applied <= channel /\ m.applied <= TargetMax

CoolInv ==
    /\ job.busy \in BOOLEAN /\ Sound(rule) /\ Numbered(Held)
    /\ channel \in Int /\ steered \in Number
    /\ Trusted(Held)
    /\ job.busy => /\ job.duty \in TargetMin .. TargetMax
                   /\ steered # Unset => job.duty = Wanted(steered)
    /\ NeverTooSlow

LEMMA SoundRules ==
    ASSUME NEW r \in RulesOf(Drafts) \cup Savable(Drafts)
    PROVE  Sound(r)
<1>1. PICK d \in Drafts : r = Loaded(d) \/ r = [d EXCEPT !.curve = Sorted(@)]
  BY Zenon DEF RulesOf, Savable
<1>2. ValidRule(r)
  BY Zenon DEF RulesOf, Savable
<1>3. Parsed(d)
  BY EvaluationAssumption
<1> DEFINE c == Sorted(d.curve)
<1>4. r.curve = c /\ r.sensors = d.sensors /\ r.aggregate = d.aggregate
  <2> HIDE DEF c
  <2>1. /\ {"curve", "sensors", "aggregate", "onMissing", "onFailure"} \subseteq DOMAIN d
    BY <1>3 DEF Parsed
  <2>2. \/ r = [d EXCEPT !.curve = c]
        \/ r = [d EXCEPT !.curve = c, !.onMissing = Performable(d.onMissing),
                         !.onFailure = Performable(d.onFailure)]
    BY <1>1, Zenon DEF Loaded, c
  <2> QED BY <2>1, <2>2
<1>5. List(c)
  <2>1. /\ Len(d.curve) \in Nat /\ DOMAIN d.curve = 1 .. Len(d.curve)
    BY <1>3 DEF Parsed
  <2>2. DOMAIN c = 1 .. Len(d.curve)
    BY <2>1, Zenon DEF Sorted
  <2>3. c = [k \in 1 .. Len(d.curve) |-> c[k]]
    BY <2>1 DEF Sorted
  <2> DEFINE n == Len(d.curve)
             V == {c[k] : k \in 1 .. n}
  <2>4. c \in Seq(V)
    <3>1. c \in [1 .. n -> V]
      <4> HIDE DEF c
      <4> QED BY <2>2, <2>3
    <3> HIDE DEF V, c
    <3> QED BY <2>1, <3>1
  <2> HIDE DEF c, V
  <2> QED BY <2>4 DEF List
<1> HIDE DEF c
<1> QED BY <1>2, <1>3, <1>4, <1>5 DEF Sound, Parsed

LEMMA BoundedType ==
    ASSUME NEW low \in Int, NEW x \in Int, NEW high \in Int
    PROVE  /\ Bounded(low, x, high) \in Int
           /\ low <= high => Bounded(low, x, high) \in low .. high
  BY DEF Bounded

LEMMA WantedType ==
    ASSUME Sound(rule), NEW x \in Int
    PROVE  Wanted(x) \in TargetMin .. TargetMax
<1> DEFINE y == CurveAt(rule.curve, x)
<1>1. y \in Int
  BY CurveBetween DEF Sound, ValidRule
<1>2. /\ rule.min = Unset \/ rule.min \in Int
      /\ rule.max = Unset \/ rule.max \in Int
  BY DEF Sound, ValidRule, ValidLimits, Percent
<1> HIDE DEF y
<1>3. Limited(rule, y) \in Int
  BY <1>1, <1>2, BoundedType DEF Limited
<1>4. TargetMin \in Int /\ TargetMax \in Int /\ TargetMin <= TargetMax
  BY EvaluationAssumption
<1> QED BY <1>3, <1>4, BoundedType DEF Wanted, y

(* The duty of a policy that validation has let through.                    *)
LEMMA PolicyDutyType ==
    ASSUME NEW action, action.kind = "fixed" => Percent(action.percent)
    PROVE  PolicyDuty(action, SafeDuty) \in Int
  BY EvaluationAssumption DEF PolicyDuty, Percent

LEMMA GrantedType ==
    ASSUME NEW duty \in Int
    PROVE  /\ Granted(duty) \in Int /\ Granted(duty) >= duty
           /\ duty <= TargetMax => Granted(duty) <= TargetMax
  BY EvaluationAssumption DEF Granted

-----------------------------------------------------------------------------
(* What an evaluation reads and decides *)

(* A fresh value replaces the one it remembers; the rest of what it reads   *)
(* leaves both.                                                             *)
LEMMA ObservedNumbers ==
    ASSUME Numbered(memory), NEW lag, NEW value \in Number, NEW gauge
    PROVE  LET m == Observed(lag, value, gauge) IN
           Numbered(m) /\ m.applied = memory.applied
<1> DEFINE aged == Aged(memory, lag)
           read == WithSource(aged, value)
           m == Observed(lag, value, gauge)
<1>0. SameOutput(m, memory)
  BY ObservedOutput DEF Numbered
<1>1. Whole(aged) /\ aged.input = memory.input
  <2> DEFINE v == Older(memory.inputAge, lag)
             w == Older(memory.conditionAge, lag)
  <2>1. aged = [memory EXCEPT !.inputAge = v, !.conditionAge = w]
    BY Zenon DEF Aged
  <2> HIDE DEF v, w, aged
  <2>2. PICK S : Fits(memory, S, {v, w})
    BY Roomy, Zenon DEF Numbered
  <2>3. LET n == [memory EXCEPT !.inputAge = v, !.conditionAge = w] IN
        n \in Record(S) /\ n.input = memory.input
    BY <2>2 DEF Fits, Record
  <2> QED BY <2>1, <2>3, Zenon DEF Whole
<1>2. Whole(read) /\ read.input \in Number
  <2>1. CASE value = Unset
    BY <1>1, <2>1 DEF WithSource, Numbered
  <2>2. CASE value # Unset
    <3>1. read = [aged EXCEPT !.input = value, !.inputAge = 0]
      BY <2>2, Zenon DEF WithSource
    <3> HIDE DEF read, aged
    <3>2. PICK S : Fits(aged, S, {value, 0})
      BY <1>1, Roomy, Zenon
    <3>3. LET n == [aged EXCEPT !.input = value, !.inputAge = 0] IN
          n \in Record(S) /\ n.input = value
      BY <3>2 DEF Fits, Record
    <3>4. Whole(read) /\ read.input = value
      BY <3>1, <3>3, Zenon DEF Whole
    <3> QED BY <3>4
  <2> QED BY <2>1, <2>2
<1>3. m = read \/ m = [read EXCEPT !.condition = gauge, !.conditionAge = 0]
  BY Zenon DEF Observed, WithCondition
<1> HIDE DEF read, m
<1>4. m.input = read.input
  <2>1. PICK S : Fits(read, S, {gauge, 0})
    BY <1>2, Roomy, Zenon
  <2>2. LET n == [read EXCEPT !.condition = gauge, !.conditionAge = 0] IN
        n.input = read.input
    BY <2>1 DEF Fits, Record
  <2> QED BY <1>3, <2>2, Zenon
<1> QED BY <1>0, <1>2, <1>4 DEF SameOutput, Numbered, m

(* What decisions and answers do to a memory.                               *)
LEMMA NumbersKept ==
    ASSUME NEW m, Numbered(m), NEW v
    PROVE  /\ LET n == [m EXCEPT !.armed = v] IN
              Numbered(n) /\ n.applied = m.applied
           /\ LET n == [m EXCEPT !.unconfirmed = v] IN
              Numbered(n) /\ n.applied = m.applied
           /\ LET n == [m EXCEPT !.applied = v] IN
              v \in Number => Numbered(n) /\ n.applied = v
<1>1. PICK S : Fits(m, S, {v})
  BY Roomy, Zenon DEF Numbered
<1>2. m \in Record(S) /\ v \in S /\ m.input \in Number /\ m.applied \in Number
  BY <1>1 DEF Fits, Numbered
<1>3. ASSUME NEW n \in Record(S), n.input = m.input, n.applied \in Number
      PROVE  Numbered(n)
  BY <1>2, <1>3 DEF Numbered, Whole
<1>4. LET n == [m EXCEPT !.armed = v] IN
      n \in Record(S) /\ n.input = m.input /\ n.applied = m.applied
  BY <1>2 DEF Record
<1>5. LET n == [m EXCEPT !.unconfirmed = v] IN
      n \in Record(S) /\ n.input = m.input /\ n.applied = m.applied
  BY <1>2 DEF Record
<1>6. LET n == [m EXCEPT !.applied = v] IN
      n \in Record(S) /\ n.input = m.input /\ n.applied = v
  BY <1>2 DEF Record
<1> QED BY <1>2, <1>3, <1>4, <1>5, <1>6, Zenon

(* Nothing is written to hold an output back: what is written is what the   *)
(* curve wants.  And if nothing is, the output is near enough.              *)
LEMMA SteersToCurve ==
    ASSUME Sound(rule), NEW m, Numbered(m), NEW x \in Int
    PROVE  /\ WorthWriting(m, Target(m, x)) => Target(m, x) = Wanted(x)
           /\ ~WorthWriting(m, Target(m, x)) =>
                  /\ m.applied \in Int
                  /\ Wanted(x) <= m.applied \/ Wanted(x) - m.applied < rule.deadband
<1>1. Wanted(x) \in Int /\ rule.deadband \in Nat
  BY WantedType, EvaluationAssumption DEF Sound, ValidRule
<1>2. m.applied = Unset => ~HeldBack(m, x)
  BY DEF HeldBack
<1>3. CASE HeldBack(m, x)
  <2>1. /\ Target(m, x) = m.applied /\ m.applied # Unset
        /\ m.applied \in Int /\ Wanted(x) < m.applied
    BY <1>3 DEF Target, HeldBack, Numbered, Number
  <2> QED BY <1>1, <2>1 DEF WorthWriting
<1>4. CASE ~HeldBack(m, x)
  <2>1. Target(m, x) = Wanted(x)
    BY <1>4 DEF Target
  <2>2. ASSUME ~WorthWriting(m, Wanted(x))
        PROVE  m.applied \in Int /\ (Wanted(x) <= m.applied \/ Wanted(x) - m.applied < rule.deadband)
    <3>1. m.applied # Unset /\ m.applied \in Int
      BY <2>2 DEF WorthWriting, Numbered, Number
    <3>2. ~(Distance(Wanted(x), m.applied) >= rule.deadband) \/ Wanted(x) = m.applied
      BY <2>2 DEF WorthWriting
    <3> QED BY <1>1, <3>1, <3>2 DEF Distance
  <2> QED BY <2>1, <2>2
<1> QED BY <1>3, <1>4

(* A decision that does not follow the curve forgets what steered.          *)
LEMMA DecideCool ==
    ASSUME CoolInv, ~job.busy, NEW verdict, NEW duty, NEW write \in BOOLEAN, NEW n, Numbered(n),
           n.applied = memory.applied, steered' \in Number,
           write => /\ duty \in TargetMin .. TargetMax
                    /\ steered' # Unset => duty = Wanted(steered'),
           ~write /\ steered' # Unset =>
               n.applied \in Int /\ (Wanted(steered') <= n.applied
                                     \/ Wanted(steered') - n.applied < rule.deadband),
           n.applied # Unset \/ write \/ steered' = Unset,
           rule' = rule, channel' = channel, doubt' = doubt,
           Decide(verdict, duty, write, n)
    PROVE  CoolInv'
<1>1. /\ Held = memory /\ Trusted(memory) /\ Sound(rule) /\ channel \in Int
      /\ job.busy \in BOOLEAN
  BY DEF CoolInv, Held
<1>2. Sound(rule') /\ channel' \in Int
  BY <1>1
<1>3. \A x : Wanted(x)' = Wanted(x)
  BY DEF Wanted
<1>4. Trusted(n)'
  BY <1>1 DEF Trusted
<1>5. CASE write
  <2>1. job' = [busy |-> TRUE, duty |-> duty, verdict |-> verdict, memory |-> n]
    BY <1>5 DEF Decide
  <2>2. job'.busy = TRUE /\ job'.duty = duty /\ job'.memory = n
    BY <2>1
  <2>3. Held' = n
    BY <2>2 DEF Held
  <2>4. steered' # Unset => job'.duty = Wanted(steered)'
    BY <1>5, <2>2 DEF Wanted
  <2>5. NeverTooSlow'
    BY <2>2 DEF NeverTooSlow
  <2>6. Trusted(Held)'
    BY <1>4, <2>3 DEF Trusted
  <2> QED BY <1>2, <1>5, <2>2, <2>3, <2>4, <2>5, <2>6 DEF CoolInv
<1>6. CASE ~write
  <2>1. memory' = n /\ status' = verdict /\ job' = job
    BY <1>6 DEF Decide
  <2>2. Held' = n
    BY <2>1 DEF Held
  <2>3. NeverTooSlow'
    <3> SUFFICES ASSUME steered' # Unset, ~doubt'
                 PROVE  channel' >= Wanted(steered)' \/ Wanted(steered)' - channel' < rule'.deadband
      BY DEF NeverTooSlow
    <3>1. n.applied \in Int /\ (Wanted(steered') <= n.applied
                                \/ Wanted(steered') - n.applied < rule.deadband)
      BY <1>6
    <3>2. Wanted(steered)' = Wanted(steered')
      BY DEF Wanted
    <3>3. steered' \in Int
      BY DEF Number
    <3>4. Wanted(steered') \in Int /\ rule.deadband \in Nat
      BY <1>1, <3>3, WantedType, EvaluationAssumption DEF Sound, ValidRule
    <3>5. n.applied <= channel
      BY <1>1, <1>6 DEF Trusted
    <3> HIDE DEF Wanted
    <3> QED BY <1>1, <3>1, <3>2, <3>4, <3>5
  <2>4. Trusted(Held)'
    BY <1>4, <2>2 DEF Trusted
  <2> QED BY <1>1, <1>2, <2>1, <2>2, <2>3, <2>4 DEF CoolInv
<1> QED BY <1>5, <1>6

-----------------------------------------------------------------------------
(* Its steps *)

LEMMA EvaluateCool ==
    ASSUME CoolInv, NEW lag, NEW value \in Number, NEW gauge, Evaluate(lag, value, gauge)
    PROVE  CoolInv'
<1> DEFINE m == Observed(lag, value, gauge)
           x == SourceOf(m, value)
           gate == IF x = Unset THEN "unavailable" ELSE GateOf(m, gauge)
<1>1. /\ ~job.busy /\ job.busy \in BOOLEAN /\ Held = memory /\ Numbered(memory) /\ Sound(rule)
      /\ rule' = rule /\ channel' = channel /\ doubt' = doubt
  BY DEF Evaluate, CoolInv, Held
<1>2. Numbered(m) /\ m.applied = memory.applied
  BY <1>1, ObservedNumbers
<1>3. \/ gate = "open" /\ Steer(m, x)
      \/ gate = "closed" /\ StandDown(m)
      \/ gate = "unavailable" /\ FallBack(m)
  BY Zenon DEF Evaluate
<1>4. TargetMin \in Int /\ TargetMax \in Int /\ TargetMin <= TargetMax
  BY EvaluationAssumption
<1>5. gate = "open" => x # Unset
  BY Zenon
<1>6. gate = "closed" => rule.when # Unset
  BY DEF GateOf
<1>7. x \in Number
  BY <1>2 DEF SourceOf, Numbered, Number
<1> HIDE DEF m, x, gate
<1>8. CASE gate = "open" /\ Steer(m, x)
  <2> DEFINE duty == Target(m, x)
             write == WorthWriting(m, duty)
             verdict == IF write THEN "applied" ELSE "held"
             n == Rearmed(m, x)
  <2>1. x \in Int
    BY <1>5, <1>7, <1>8 DEF Number
  <2>2. Decide(verdict, duty, write, n) /\ steered' = x
    BY <1>8, Zenon DEF Steer
  <2>3. write \in BOOLEAN
    BY Zenon DEF WorthWriting
  <2>4. n = m \/ n = [m EXCEPT !.armed = x]
    BY Zenon DEF Rearmed
  <2>5. Numbered(n) /\ n.applied = m.applied
    <3>1. Numbered([m EXCEPT !.armed = x]) /\ [m EXCEPT !.armed = x].applied = m.applied
      BY <1>2, NumbersKept, Zenon
    <3> HIDE DEF n
    <3> QED BY <1>2, <2>4, <3>1, Zenon
  <2>6. Wanted(x) \in TargetMin .. TargetMax
    BY <1>1, <2>1, WantedType
  <2>7. /\ write => duty = Wanted(x)
        /\ ~write => /\ m.applied \in Int
                     /\ Wanted(x) <= m.applied \/ Wanted(x) - m.applied < rule.deadband
    BY <1>1, <1>2, <2>1, SteersToCurve
  <2>8. n.applied # Unset \/ write
    BY <2>5 DEF WorthWriting
  <2> HIDE DEF duty, write, verdict, n
  <2> QED BY <1>1, <1>2, <1>7, <2>2, <2>3, <2>5, <2>6, <2>7, <2>8, DecideCool
<1>9. CASE gate = "closed" /\ StandDown(m)
  <2> DEFINE percent == PolicyDuty(rule.when.otherwise, SafeDuty)
             duty == Bounded(TargetMin, percent, TargetMax)
             write == m.applied # duty
             n == Disarmed(m)
  <2>1. percent \in Int
    BY <1>1, <1>6, <1>9, PolicyDutyType DEF Sound, ValidRule, ValidWhen
  <2>2. duty \in TargetMin .. TargetMax
    <3> HIDE DEF percent
    <3> QED BY <1>4, <2>1, BoundedType
  <2>3. Decide("gated", duty, write, n) /\ steered' = Unset /\ write \in BOOLEAN
    BY <1>9, Zenon DEF StandDown
  <2>4. Numbered(n) /\ n.applied = m.applied
    BY <1>2, NumbersKept, Zenon DEF Disarmed
  <2> HIDE DEF percent, duty, write, n
  <2> QED BY <1>1, <1>2, <2>2, <2>3, <2>4, DecideCool DEF Number
<1>10. CASE gate = "unavailable" /\ FallBack(m)
  <2> DEFINE percent == PolicyDuty(rule.onMissing, SafeDuty)
             duty == Bounded(TargetMin, percent, TargetMax)
             write == m.applied # duty
             never == FALSE
  <2>1. percent \in Int
    BY <1>1, PolicyDutyType DEF Sound, ValidRule, ValidPolicy
  <2>2. duty \in TargetMin .. TargetMax
    <3> HIDE DEF percent
    <3> QED BY <1>4, <2>1, BoundedType
  <2>3. /\ steered' = Unset
        /\ \/ Decide("fallback", m.applied, never, m)
           \/ Decide("fallback", duty, write, m)
    BY <1>10, Zenon DEF FallBack
  <2>4. write \in BOOLEAN /\ never \in BOOLEAN /\ ~never
    BY Zenon
  <2> HIDE DEF percent, duty, write, never
  <2>5. CASE Decide("fallback", m.applied, never, m)
    BY <1>1, <1>2, <2>3, <2>4, <2>5, DecideCool DEF Number
  <2>6. CASE Decide("fallback", duty, write, m)
    BY <1>1, <1>2, <2>2, <2>3, <2>4, <2>6, DecideCool DEF Number
  <2> QED BY <2>3, <2>5, <2>6
<1> QED BY <1>3, <1>8, <1>9, <1>10

(* An answer after which the output is in doubt, or unknown to the rule.    *)
LEMMA AnswerCool ==
    ASSUME CoolInv, job.busy, NEW m, Numbered(m), NEW verdict,
           verdict \notin {"applied", "held"}, channel' \in Int, doubt' \/ m.applied = Unset, Remember(m, verdict)
    PROVE  CoolInv'
<1>1. job'.busy = FALSE /\ memory' = m /\ status' = verdict /\ rule' = rule /\ steered' = steered
  BY DEF Remember, NoJob
<1>2. Held' = m
  BY <1>1 DEF Held
<1>3. NeverTooSlow'
  BY <1>1 DEF NeverTooSlow
<1>4. Trusted(Held)'
  BY <1>2 DEF Trusted
<1> QED BY <1>1, <1>2, <1>3, <1>4 DEF CoolInv

LEMMA PolicyCool ==
    ASSUME CoolInv, job.busy, NEW m, NEW places, Numbered(m), places \subseteq Int,
           RunPolicy(m, places)
    PROVE  CoolInv'
<1>1. PICK out \in PolicyOutcomes(m, places) :
          channel' = out[2] /\ doubt' = TRUE /\ Remember(out[1], "error")
  BY DEF RunPolicy
<1> DEFINE percent == PolicyDuty(rule.onFailure, SafeDuty)
           duty == Granted(percent)
           given == [m EXCEPT !.applied = duty]
           lost == [m EXCEPT !.applied = Unset]
<1>2. \/ out \in {m} \X places
      \/ out = <<given, duty>>
      \/ out \in {lost} \X (places \cup {duty})
      \/ out \in {m} \X (places \cup {duty} \cup FailSafe)
  BY <1>1, Zenon DEF PolicyOutcomes
<1>3. duty \in Int
  <2>1. percent \in Int
    BY PolicyDutyType DEF CoolInv, Sound, ValidRule, ValidPolicy
  <2> HIDE DEF percent
  <2> QED BY <2>1, GrantedType
<1>4. Numbered(given) /\ Numbered(lost)
  <2>1. Unset \in Number /\ duty \in Number
    BY <1>3 DEF Number
  <2> HIDE DEF duty
  <2> QED BY <2>1, NumbersKept, Zenon
<1> HIDE DEF given, lost, duty
<1>5. FailSafe \subseteq Int
  BY GrantedType, EvaluationAssumption DEF FailSafe
<1>6. out[1] \in {m, given, lost} /\ out[2] \in Int
  <2>1. out = <<given, duty>> => out[1] = given /\ out[2] = duty
    OBVIOUS
  <2>2. ASSUME NEW n, NEW T, T \subseteq Int, out \in {n} \X T
        PROVE  out[1] = n /\ out[2] \in Int
    BY <2>2
  <2>3. places \cup {duty} \subseteq Int /\ places \cup {duty} \cup FailSafe \subseteq Int
    BY <1>3, <1>5
  <2> QED BY <1>2, <1>3, <2>1, <2>2, <2>3
<1>7. Numbered(out[1])
  BY <1>4, <1>6
<1> QED BY <1>1, <1>6, <1>7, AnswerCool

LEMMA ConfirmedCool ==
    ASSUME CoolInv, Confirmed
    PROVE  CoolInv'
<1> DEFINE duty == Granted(job.duty)
           m == [job.memory EXCEPT !.applied = duty, !.unconfirmed = 0]
<1>1. /\ job.busy /\ channel' = duty /\ doubt' = FALSE /\ Remember(m, job.verdict)
  BY Zenon DEF Confirmed
<1>2. /\ Held = job.memory /\ Numbered(job.memory) /\ job.duty \in Int /\ job.duty <= TargetMax
      /\ steered # Unset => job.duty = Wanted(steered)
  BY <1>1, EvaluationAssumption DEF CoolInv, Held
<1>3. duty \in Int /\ duty >= job.duty /\ duty <= TargetMax
  BY <1>2, GrantedType
<1> HIDE DEF duty
<1>4. Numbered(m) /\ m.applied = duty
  <2>1. duty \in Number
    BY <1>3 DEF Number
  <2>2. PICK S : Fits(job.memory, S, {duty, 0})
    BY <1>2, Roomy, Zenon DEF Numbered
  <2>3. LET n == [job.memory EXCEPT !.applied = duty, !.unconfirmed = 0] IN
        n \in Record(S) /\ n.input = job.memory.input /\ n.applied = duty
    BY <2>2 DEF Fits, Record
  <2>4. Whole(m) /\ m.input = job.memory.input /\ m.applied = duty
    BY <2>3, Zenon DEF Whole
  <2> HIDE DEF m
  <2> QED BY <1>2, <2>1, <2>4 DEF Numbered
<1> HIDE DEF m
<1>5. job'.busy = FALSE /\ memory' = m /\ rule' = rule /\ steered' = steered
  BY <1>1 DEF Remember, NoJob
<1>6. Held' = m
  BY <1>5 DEF Held
<1>7. Trusted(Held)'
  BY <1>1, <1>3, <1>4, <1>6 DEF Trusted
<1>8. NeverTooSlow'
  <2>1. steered' # Unset => Wanted(steered)' = job.duty
    BY <1>2, <1>5 DEF Wanted
  <2>2. steered' # Unset => channel' >= Wanted(steered)'
    BY <1>1, <1>2, <1>3, <2>1
  <2> QED BY <2>2 DEF NeverTooSlow
<1> QED BY <1>1, <1>3, <1>4, <1>5, <1>6, <1>7, <1>8 DEF CoolInv

LEMMA UncertainCool ==
    ASSUME CoolInv, Unconfirmed \/ Failed
    PROVE  CoolInv'
<1>1. job.busy
  BY DEF Unconfirmed, Failed
<1>2. Numbered(job.memory) /\ channel \in Int /\ job.duty \in Int
  BY <1>1, EvaluationAssumption DEF CoolInv, Held
<1>3. Granted(job.duty) \in Int /\ FailSafe \subseteq Int
  BY <1>2, GrantedType, EvaluationAssumption DEF FailSafe
<1>4. CASE Unconfirmed
  <2> DEFINE forgot == Forgotten(job.memory, Granted(job.duty))
             count == job.memory.unconfirmed + 1
             places == {channel, Granted(job.duty)}
  <2>1. \/ RunPolicy([forgot EXCEPT !.unconfirmed = 0], places)
        \/ /\ channel' \in places
           /\ Remember([forgot EXCEPT !.unconfirmed = count], "unconfirmed")
    BY <1>4, Zenon DEF Unconfirmed
  <2>2. Numbered(forgot) /\ forgot.applied = Unset
    BY <1>2, NumbersKept, Zenon DEF Forgotten, Number
  <2>3. places \subseteq Int
    BY <1>2, <1>3
  <2> HIDE DEF forgot, count, places
  <2>4. ASSUME NEW v
        PROVE  Numbered([forgot EXCEPT !.unconfirmed = v])
               /\ [forgot EXCEPT !.unconfirmed = v].applied = Unset
    BY <2>2, NumbersKept, Zenon
  <2>5. CASE RunPolicy([forgot EXCEPT !.unconfirmed = 0], places)
    BY <1>1, <2>3, <2>4, <2>5, PolicyCool, Zenon
  <2>6. CASE /\ channel' \in places
             /\ Remember([forgot EXCEPT !.unconfirmed = count], "unconfirmed")
    <3> DEFINE n == [forgot EXCEPT !.unconfirmed = count]
    <3>1. Numbered(n) /\ n.applied = Unset /\ Remember(n, "unconfirmed")
      BY <2>4, <2>6, Zenon
    <3> HIDE DEF n
    <3>2. channel' \in Int /\ "unconfirmed" \notin {"applied", "held"}
      BY <2>3, <2>6
    <3> QED BY <1>1, <3>1, <3>2, AnswerCool
  <2> QED BY <2>1, <2>5, <2>6
<1>5. CASE Failed
  <2> DEFINE places == {channel, Granted(job.duty)} \cup FailSafe
  <2>1. RunPolicy(job.memory, places)
    BY <1>5, Zenon DEF Failed
  <2>2. places \subseteq Int
    BY <1>2, <1>3
  <2> HIDE DEF places
  <2> QED BY <1>1, <1>2, <2>1, <2>2, PolicyCool
<1> QED BY <1>4, <1>5

(* Full speed is no slower than anything a rule of this output wants.       *)
LEMMA ForcedCool ==
    ASSUME CoolInv, Forced
    PROVE  CoolInv'
<1>1. /\ channel' = TargetMax /\ TargetMax \in Int
      /\ rule' = rule /\ memory' = memory /\ status' = status /\ job' = job
      /\ steered' = steered /\ doubt' = doubt
  BY EvaluationAssumption DEF Forced, history
<1>2. Held' = Held
  BY <1>1 DEF Held
<1>3. Trusted(Held)'
  <2>1. ~doubt /\ Held.applied # Unset => Held.applied <= TargetMax
    BY DEF CoolInv, Trusted
  <2>2. Held.applied # Unset => Held.applied \in Int
    BY DEF CoolInv, Numbered, Number
  <2> QED BY <1>1, <1>2, <2>1, <2>2 DEF Trusted
<1>4. Wanted(steered)' = Wanted(steered)
  BY <1>1 DEF Wanted
<1>5. steered # Unset => Wanted(steered) \in TargetMin .. TargetMax
  BY WantedType DEF CoolInv, Number
<1>6. NeverTooSlow'
  BY <1>1, <1>4, <1>5, EvaluationAssumption DEF NeverTooSlow
<1> QED BY <1>1, <1>2, <1>3, <1>4, <1>6 DEF CoolInv

LEMMA EditCool ==
    ASSUME CoolInv, NEW new \in Savable(Drafts), Edit(new)
    PROVE  CoolInv'
<1>1. /\ job' = job /\ memory' = Reconciled(memory, new) /\ rule' = new /\ steered' = Unset
      /\ channel' = channel /\ doubt' = doubt
  BY DEF Edit
<1>2. Sound(new)
  BY SoundRules
<1>3. NeverTooSlow'
  BY <1>1 DEF NeverTooSlow
<1>4. Numbered(Held') /\ Trusted(Held)'
  <2>1. CASE job.busy
    <3>1. Held' = Held
      BY <1>1, <2>1 DEF Held
    <3> QED BY <1>1, <3>1 DEF CoolInv, Trusted
  <2>2. CASE ~job.busy
    <3> DEFINE n == Reconciled(memory, new)
               moved == SourceChanged(new)
               applied == IF rule.enabled # new.enabled THEN Unset ELSE memory.applied
               armed == IF rule.enabled # new.enabled \/ moved \/ ControlChanged(new)
                        THEN Unset ELSE memory.armed
               input == IF moved THEN Unset ELSE memory.input
               inputAge == IF moved THEN MaxAge ELSE memory.inputAge
               condition == IF rule.when # new.when THEN Unset ELSE memory.condition
               conditionAge == IF rule.when # new.when THEN MaxAge ELSE memory.conditionAge
    <3>1. n = [memory EXCEPT !.applied = applied, !.armed = armed,
                             !.input = input, !.inputAge = inputAge,
                             !.condition = condition, !.conditionAge = conditionAge]
      BY Zenon DEF Reconciled
    <3>2. /\ applied = Unset \/ applied = memory.applied
          /\ input = Unset \/ input = memory.input
      BY Zenon
    <3>3. Numbered(memory) /\ Trusted(memory) /\ Held = memory
      BY <2>2 DEF CoolInv, Held
    <3> HIDE DEF applied, armed, input, inputAge, condition, conditionAge, n
    <3>4. PICK S : Fits(memory, S, {applied, armed, input, inputAge, condition, conditionAge})
      BY <3>3, Roomy, Zenon DEF Numbered
    <3>5. /\ memory \in Record(S) /\ applied \in S /\ armed \in S /\ input \in S
          /\ inputAge \in S /\ condition \in S /\ conditionAge \in S
      BY <3>4 DEF Fits
    <3>6. LET k == [memory EXCEPT !.applied = applied, !.armed = armed,
                                  !.input = input, !.inputAge = inputAge,
                                  !.condition = condition, !.conditionAge = conditionAge] IN
          k \in Record(S) /\ k.applied = applied /\ k.input = input
      BY <3>5 DEF Record
    <3>7. Whole(n) /\ n.applied = applied /\ n.input = input
      BY <3>1, <3>6, Zenon DEF Whole
    <3>8. Held' = n
      BY <1>1, <2>2 DEF Held, n
    <3>9. Numbered(n)
      BY <3>2, <3>3, <3>7 DEF Numbered, Number
    <3>10. ~doubt' /\ n.applied # Unset => n.applied <= channel' /\ n.applied <= TargetMax
      BY <1>1, <3>2, <3>3, <3>7 DEF Trusted
    <3> QED BY <3>8, <3>9, <3>10 DEF Trusted
  <2> QED BY <2>1, <2>2
<1> QED BY <1>1, <1>2, <1>3, <1>4 DEF CoolInv, Number

LEMMA StepCool == ASSUME CoolInv, [Next]_vars PROVE CoolInv'
<1>1. CASE Evaluation
  <2>1. PICK lag \in 1 .. MaxLag : EvaluateReadings(lag)
    BY <1>1 DEF Evaluation
  <2>2. PICK readings \in [rule.sensors -> Temps \cup {Unset}],
             gauge \in {Unset} \cup (IF rule.when = Unset THEN {} ELSE Temps) :
            Evaluate(lag, Reduced(rule.aggregate, readings), gauge)
    BY <2>1, Zenon DEF EvaluateReadings
  <2>3. Reduced(rule.aggregate, readings) \in Temps \cup {Unset}
    BY ReducedWithin, EvaluationAssumption DEF CoolInv, Sound
  <2>4. Reduced(rule.aggregate, readings) \in Number
    BY <2>3, EvaluationAssumption DEF Number
  <2> QED BY <2>2, <2>4, EvaluateCool
<1>2. CASE Confirmed
  BY <1>2, ConfirmedCool
<1>3. CASE Unconfirmed \/ Failed
  BY <1>3, UncertainCool
<1>4. CASE Forced
  BY <1>4, ForcedCool
<1>5. CASE UNCHANGED vars
  BY <1>5 DEF vars, history, CoolInv, Held, Trusted, NeverTooSlow, Wanted
<1>6. ASSUME NEW new \in Savable(Drafts), Edit(new) PROVE CoolInv'
  BY <1>6, EditCool
<1> QED BY <1>1, <1>2, <1>3, <1>4, <1>5, <1>6 DEF Next

LEMMA InitCool == Init => CoolInv
<1> SUFFICES ASSUME Init PROVE CoolInv
  OBVIOUS
<1>1. /\ job = NoJob /\ memory = FreshMemory /\ status = "idle" /\ steered = Unset
      /\ channel = TargetMin
  BY DEF Init
<1>2. job.busy = FALSE
  BY <1>1 DEF NoJob
<1>3. memory \in Record({Unset, MaxAge, 0})
  BY <1>1 DEF FreshMemory, Record
<1>4. memory.input = Unset /\ memory.applied = Unset
  BY <1>1 DEF FreshMemory
<1>5. Sound(rule)
  BY SoundRules DEF Init
<1>6. TargetMin \in Int
  BY EvaluationAssumption
<1> QED BY <1>1, <1>2, <1>3, <1>4, <1>5, <1>6
        DEF CoolInv, Held, Numbered, Whole, Number, Trusted, NeverTooSlow

(* For curves of any length, any sensors, any limits and deadbands: between *)
(* two points a curve keeps between their outputs, and as long as the last  *)
(* write is not in doubt, no hysteresis, deadband, unconfirmed write, edit  *)
(* or forced full speed leaves an output a deadband slower than its curve   *)
(* asks for while the rule calls it applied or held.                        *)
THEOREM CoolingStaysOnCurve == Spec => []CoolingFollowsCurve
<1>1. Init => CoolInv
  BY InitCool
<1>2. CoolInv /\ [Next]_vars => CoolInv'
  BY StepCool
<1>3. CoolInv => CoolingFollowsCurve
  <2> SUFFICES ASSUME CoolInv PROVE CoolingFollowsCurve
    OBVIOUS
  <2>1. ASSUME NEW x \in Temps
        PROVE  \E k, n \in DOMAIN rule.curve : Between(rule.curve, x, k, n)
    BY CurveBetween, EvaluationAssumption DEF CoolInv, Sound, ValidRule
  <2>2. CurveStaysBetween
    BY <2>1, Zenon DEF CurveStaysBetween, Between
  <2> QED BY <2>2 DEF CoolInv, CoolingFollowsCurve
<1> QED BY <1>1, <1>2, <1>3, PTL DEF Spec

-----------------------------------------------------------------------------
(* Types *)

Verdicts == {"applied", "gated", "fallback"}
Statuses == {"idle", "disabled", "applied", "held", "gated", "fallback", "unconfirmed", "error"}
Readings == Temps \cup {Unset}

TypeInv == TypeOK /\ job.busy \in BOOLEAN

(* What every change of a memory leaves one.                                *)
LEMMA MemoryKept ==
    ASSUME NEW m \in Memory
    PROVE  /\ \A v \in Duties \cup {Unset} : [m EXCEPT !.applied = v] \in Memory
           /\ \A v \in Readings : [m EXCEPT !.armed = v] \in Memory
           /\ \A v \in Readings, u \in 0 .. MaxAge :
                  /\ [m EXCEPT !.input = v, !.inputAge = u] \in Memory
                  /\ [m EXCEPT !.condition = v, !.conditionAge = u] \in Memory
           /\ \A v, u \in 0 .. MaxAge : [m EXCEPT !.inputAge = v, !.conditionAge = u] \in Memory
           /\ \A v \in 0 .. MaxUnconfirmed - 1 : [m EXCEPT !.unconfirmed = v] \in Memory
           /\ \A v \in Duties \cup {Unset}, u \in 0 .. MaxUnconfirmed - 1 :
                  [m EXCEPT !.applied = v, !.unconfirmed = u] \in Memory
  BY DEF Memory, Readings

LEMMA MemoryNumbers == ASSUME NEW m \in Memory PROVE Numbered(m)
<1>1. m \in Record(Duties \cup Readings \cup (0 .. MaxAge) \cup (0 .. MaxUnconfirmed - 1))
  BY DEF Memory, Readings, Record
<1>2. m.input \in Readings /\ m.applied \in Duties \cup {Unset}
  BY DEF Memory, Readings
<1>3. Readings \subseteq Number /\ Duties \cup {Unset} \subseteq Number
  <2>1. TargetMin \in Int /\ TargetMax \in Int /\ Temps \subseteq Int
    BY EvaluationAssumption
  <2>2. Duties \subseteq Int
    BY <2>1 DEF Duties
  <2> QED BY <2>1, <2>2 DEF Readings, Number
<1> QED BY <1>1, <1>2, <1>3, Zenon DEF Numbered, Whole

LEMMA ObservedType ==
    ASSUME memory \in Memory, NEW lag \in 1 .. MaxLag,
           NEW value \in Readings, NEW gauge \in Readings
    PROVE  Observed(lag, value, gauge) \in Memory
<1> DEFINE aged == Aged(memory, lag)
           read == WithSource(aged, value)
<1>1. memory.inputAge \in 0 .. MaxAge /\ memory.conditionAge \in 0 .. MaxAge
  BY DEF Memory
<1>2. Older(memory.inputAge, lag) \in 0 .. MaxAge /\ Older(memory.conditionAge, lag) \in 0 .. MaxAge
  BY <1>1, OlderType
<1>3. aged \in Memory
  BY <1>2, MemoryKept, Zenon DEF Aged
<1>4. 0 \in 0 .. MaxAge
  BY EvaluationAssumption
<1> HIDE DEF aged
<1>5. read \in Memory
  BY <1>3, <1>4, MemoryKept, Zenon DEF WithSource
<1> HIDE DEF read
<1>6. WithCondition(read, gauge) \in Memory
  BY <1>4, <1>5, MemoryKept, Zenon DEF WithCondition
<1> QED BY <1>5, <1>6, Zenon DEF Observed, aged, read

(* A policy that validation has let through, within the range of the target.*)
LEMMA PolicyInRange ==
    ASSUME NEW action, action.kind = "fixed" => Percent(action.percent)
    PROVE  Bounded(TargetMin, PolicyDuty(action, SafeDuty), TargetMax) \in Duties
<1> DEFINE y == PolicyDuty(action, SafeDuty)
<1>1. y \in Int
  BY PolicyDutyType
<1>2. TargetMin \in Int /\ TargetMax \in Int /\ TargetMin <= TargetMax
  BY EvaluationAssumption
<1> HIDE DEF y
<1>3. Bounded(TargetMin, y, TargetMax) \in TargetMin .. TargetMax
  BY <1>1, <1>2, BoundedType
<1> QED BY <1>3 DEF y, Duties

LEMMA GrantedInRange ==
    ASSUME NEW duty \in Duties
    PROVE  Granted(duty) \in Duties
  BY EvaluationAssumption DEF Granted, Duties

(* A decision: a write, within the range, or an immediate verdict.          *)
LEMMA DecideType ==
    ASSUME TypeInv, ~job.busy, NEW n \in Memory, NEW verdict, NEW duty, NEW write \in BOOLEAN,
           write => duty \in Duties /\ verdict \in Verdicts, verdict \in Statuses,
           Decide(verdict, duty, write, n)
    PROVE  /\ memory' \in Memory /\ status' \in Statuses /\ job'.busy \in BOOLEAN
           /\ job'.busy => /\ job'.duty \in Duties /\ job'.memory \in Memory
                           /\ job'.verdict \in Verdicts
<1>1. memory \in Memory /\ status \in Statuses /\ job.busy \in BOOLEAN
  BY DEF TypeInv, TypeOK, Statuses
<1>2. CASE write
  <2>1. /\ job' = [busy |-> TRUE, duty |-> duty, verdict |-> verdict, memory |-> n]
        /\ memory' = memory /\ status' = status
    BY <1>2 DEF Decide
  <2>2. job'.busy = TRUE /\ job'.duty = duty /\ job'.verdict = verdict /\ job'.memory = n
    BY <2>1
  <2> QED BY <1>1, <1>2, <2>1, <2>2
<1>3. CASE ~write
  <2>1. memory' = n /\ status' = verdict /\ job' = job
    BY <1>3 DEF Decide
  <2> QED BY <1>1, <2>1
<1> QED BY <1>2, <1>3

LEMMA EvaluateType ==
    ASSUME TypeInv, NEW lag \in 1 .. MaxLag, NEW value \in Readings, NEW gauge \in Readings,
           Evaluate(lag, value, gauge)
    PROVE  TypeInv'
<1> DEFINE m == Observed(lag, value, gauge)
           x == SourceOf(m, value)
           gate == IF x = Unset THEN "unavailable" ELSE GateOf(m, gauge)
           Decided == /\ memory' \in Memory /\ status' \in Statuses /\ job'.busy \in BOOLEAN
                      /\ job'.busy => /\ job'.duty \in Duties /\ job'.memory \in Memory
                                      /\ job'.verdict \in Verdicts
                      /\ steered' \in Readings
<1>1. /\ ~job.busy /\ memory \in Memory /\ blind \in Ages /\ Sound(rule)
      /\ rule \in RulesOf(Drafts) \cup Savable(Drafts)
      /\ rule' = rule /\ channel' = channel /\ edits' = edits
  BY SoundRules DEF Evaluate, TypeInv, TypeOK, Ages
<1>2. m \in Memory
  BY <1>1, ObservedType
<1>3. \/ gate = "open" /\ Steer(m, x)
      \/ gate = "closed" /\ StandDown(m)
      \/ gate = "unavailable" /\ FallBack(m)
  BY Zenon DEF Evaluate
<1>4. /\ gate = "open" => x # Unset
      /\ gate = "closed" => rule.when # Unset
  BY DEF GateOf
<1>5. x \in Readings
  BY <1>2 DEF SourceOf, Memory, Readings
<1>6. Numbered(m)
  BY <1>2, MemoryNumbers
<1> HIDE DEF m, x, gate
<1>7. ASSUME gate = "open", Steer(m, x) PROVE Decided
  <2> DEFINE duty == Target(m, x)
             write == WorthWriting(m, duty)
             verdict == IF write THEN "applied" ELSE "held"
             n == Rearmed(m, x)
  <2>1. x \in Int
    BY <1>4, <1>5, <1>7, EvaluationAssumption DEF Readings
  <2>2. Decide(verdict, duty, write, n) /\ steered' = x
    BY <1>7, Zenon DEF Steer
  <2>3. write \in BOOLEAN
    BY Zenon DEF WorthWriting
  <2>4. n \in Memory
    BY <1>2, <1>5, MemoryKept, Zenon DEF Rearmed
  <2>5. write => duty \in Duties
    BY <1>1, <1>6, <2>1, SteersToCurve, WantedType, Zenon DEF Duties
  <2>6. verdict \in Statuses /\ (write => verdict \in Verdicts)
    BY DEF verdict, Statuses, Verdicts
  <2> HIDE DEF duty, write, verdict, n
  <2> QED BY <1>1, <1>5, <2>2, <2>3, <2>4, <2>5, <2>6, DecideType
<1>8. ASSUME gate = "closed", StandDown(m) PROVE Decided
  <2> DEFINE duty == Bounded(TargetMin, PolicyDuty(rule.when.otherwise, SafeDuty), TargetMax)
             write == m.applied # duty
             n == Disarmed(m)
  <2>1. duty \in Duties
    BY <1>1, <1>4, <1>8, PolicyInRange DEF Sound, ValidRule, ValidWhen
  <2>2. Decide("gated", duty, write, n) /\ steered' = Unset /\ write \in BOOLEAN
    BY <1>8, Zenon DEF StandDown
  <2>3. n \in Memory
    BY <1>2, MemoryKept, Zenon DEF Disarmed, Readings
  <2>4. "gated" \in Statuses /\ "gated" \in Verdicts /\ Unset \in Readings
    BY DEF Statuses, Verdicts, Readings
  <2> HIDE DEF duty, write, n
  <2> QED BY <1>1, <2>1, <2>2, <2>3, <2>4, DecideType
<1>9. ASSUME gate = "unavailable", FallBack(m) PROVE Decided
  <2> DEFINE duty == Bounded(TargetMin, PolicyDuty(rule.onMissing, SafeDuty), TargetMax)
             write == m.applied # duty
             never == FALSE
  <2>1. duty \in Duties
    BY <1>1, PolicyInRange DEF Sound, ValidRule, ValidPolicy
  <2>2. /\ steered' = Unset
        /\ \/ Decide("fallback", m.applied, never, m)
           \/ Decide("fallback", duty, write, m)
    BY <1>9, Zenon DEF FallBack
  <2>3. write \in BOOLEAN /\ never \in BOOLEAN /\ ~never
    BY Zenon
  <2>4. "fallback" \in Statuses /\ "fallback" \in Verdicts /\ Unset \in Readings
    BY DEF Statuses, Verdicts, Readings
  <2> HIDE DEF duty, write, never
  <2>5. CASE Decide("fallback", m.applied, never, m)
    BY <1>1, <1>2, <2>2, <2>3, <2>4, <2>5, DecideType
  <2>6. CASE Decide("fallback", duty, write, m)
    BY <1>1, <1>2, <2>1, <2>2, <2>3, <2>4, <2>6, DecideType
  <2> QED BY <2>2, <2>5, <2>6
<1>10. Decided
  BY <1>3, <1>7, <1>8, <1>9
<1>11. blind' \in Ages
  <2>1. blind' = Seen(lag, value, gauge)
    BY Zenon DEF Evaluate, Seen
  <2>2. Older(blind.source, lag) \in 0 .. MaxAge /\ Older(blind.gate, lag) \in 0 .. MaxAge
    BY <1>1, OlderType DEF Ages
  <2>3. 0 \in 0 .. MaxAge
    BY EvaluationAssumption
  <2> QED BY <2>1, <2>2, <2>3 DEF Seen, Ages
<1>12. channel' \in Duties /\ edits' \in 0 .. MaxEdits /\ rule' \in RulesOf(Drafts) \cup Savable(Drafts)
  BY <1>1 DEF TypeInv, TypeOK
<1> QED BY <1>10, <1>11, <1>12 DEF TypeInv, TypeOK, Verdicts, Statuses, Readings, Ages

(* An answer: the copy, with another output or count, becomes the memory.   *)
LEMMA AnswerType ==
    ASSUME TypeInv, NEW m \in Memory, NEW verdict \in Statuses, channel' \in Duties,
           Remember(m, verdict)
    PROVE  TypeInv'
<1>1. /\ job'.busy = FALSE /\ memory' = m /\ status' = verdict
      /\ UNCHANGED <<rule, steered, blind, edits>>
  BY DEF Remember, NoJob
<1>2. /\ rule' \in RulesOf(Drafts) \cup Savable(Drafts)
      /\ steered' \in Temps \cup {Unset} /\ edits' \in 0 .. MaxEdits
      /\ blind' \in Ages
  BY <1>1 DEF TypeInv, TypeOK, Ages
<1> QED BY <1>1, <1>2 DEF TypeInv, TypeOK, Statuses, Ages

LEMMA PolicyType ==
    ASSUME TypeInv, NEW m \in Memory, NEW places, places \subseteq Duties, RunPolicy(m, places)
    PROVE  TypeInv'
<1>1. PICK out \in PolicyOutcomes(m, places) : channel' = out[2] /\ Remember(out[1], "error")
  BY DEF RunPolicy
<1> DEFINE asked == PolicyDuty(rule.onFailure, SafeDuty)
           duty == Granted(asked)
           given == [m EXCEPT !.applied = duty]
           lost == [m EXCEPT !.applied = Unset]
<1>2. \/ out \in {m} \X places
      \/ /\ Accepted(asked)
         /\ \/ out = <<given, duty>>
            \/ out \in {lost} \X (places \cup {duty})
            \/ out \in {m} \X (places \cup {duty} \cup FailSafe)
  BY <1>1, Zenon DEF PolicyOutcomes
<1>3. Accepted(asked) => duty \in Duties
  <2> HIDE DEF asked
  <2> QED BY GrantedInRange DEF Accepted, Duties
<1>4. FailSafe \subseteq Duties
  BY GrantedInRange DEF FailSafe, Accepted, Duties
<1>5. lost \in Memory /\ (Accepted(asked) => given \in Memory)
  <2> HIDE DEF duty
  <2> QED BY <1>3, MemoryKept, Zenon
<1> HIDE DEF given, lost, duty, asked
<1>6. out[1] \in Memory /\ out[2] \in Duties
  <2>1. ASSUME NEW n \in Memory, NEW T, T \subseteq Duties, out \in {n} \X T
        PROVE  out[1] \in Memory /\ out[2] \in Duties
    BY <2>1
  <2>2. CASE out \in {m} \X places
    BY <2>1, <2>2
  <2>3. CASE Accepted(asked) /\ out = <<given, duty>>
    BY <1>3, <1>5, <2>3
  <2>4. CASE Accepted(asked) /\ out \in {lost} \X (places \cup {duty})
    <3>1. places \cup {duty} \subseteq Duties
      BY <1>3, <2>4
    <3> QED BY <1>5, <2>1, <2>4, <3>1
  <2>5. CASE Accepted(asked) /\ out \in {m} \X (places \cup {duty} \cup FailSafe)
    <3>1. places \cup {duty} \cup FailSafe \subseteq Duties
      BY <1>3, <1>4, <2>5
    <3> QED BY <2>1, <2>5, <3>1
  <2> QED BY <1>2, <2>2, <2>3, <2>4, <2>5
<1>7. "error" \in Statuses
  BY DEF Statuses
<1> QED BY <1>1, <1>6, <1>7, AnswerType

LEMMA AnswersType ==
    ASSUME TypeInv, Confirmed \/ Unconfirmed \/ Failed
    PROVE  TypeInv'
<1>1. job.busy
  BY DEF Confirmed, Unconfirmed, Failed
<1>2. /\ job.memory \in Memory /\ job.duty \in Duties /\ job.verdict \in Verdicts
      /\ channel \in Duties /\ Granted(job.duty) \in Duties
  <2>1. /\ job.memory \in Memory /\ job.duty \in Duties /\ job.verdict \in Verdicts
        /\ channel \in Duties
    BY <1>1 DEF TypeInv, TypeOK, Verdicts
  <2> QED BY <2>1, GrantedInRange
<1>3. MaxUnconfirmed \in Nat \ {0} /\ 0 \in 0 .. MaxUnconfirmed - 1
  BY EvaluationAssumption
<1>4. Verdicts \subseteq Statuses
  BY DEF Verdicts, Statuses
<1>5. CASE Confirmed
  <2> DEFINE m == [job.memory EXCEPT !.applied = Granted(job.duty), !.unconfirmed = 0]
  <2>1. Remember(m, job.verdict) /\ channel' = Granted(job.duty)
    BY <1>5, Zenon DEF Confirmed
  <2>2. m \in Memory
    BY <1>2, <1>3, MemoryKept, Zenon
  <2> HIDE DEF m
  <2> QED BY <1>2, <1>4, <2>1, <2>2, AnswerType
<1>6. CASE Unconfirmed
  <2> DEFINE forgot == Forgotten(job.memory, Granted(job.duty))
             count == job.memory.unconfirmed + 1
             places == {channel, Granted(job.duty)}
  <2>1. \/ RunPolicy([forgot EXCEPT !.unconfirmed = 0], places)
        \/ /\ ~(count >= MaxUnconfirmed) /\ channel' \in places
           /\ Remember([forgot EXCEPT !.unconfirmed = count], "unconfirmed")
    BY <1>6, Zenon DEF Unconfirmed
  <2>2. forgot \in Memory
    BY <1>2, MemoryKept, Zenon DEF Forgotten
  <2>3. count \in Nat /\ (~(count >= MaxUnconfirmed) => count \in 0 .. MaxUnconfirmed - 1)
    BY <1>2, <1>3 DEF Memory
  <2>4. places \subseteq Duties /\ "unconfirmed" \in Statuses
    BY <1>2 DEF Statuses
  <2> HIDE DEF forgot, count, places
  <2>5. CASE RunPolicy([forgot EXCEPT !.unconfirmed = 0], places)
    <3>1. [forgot EXCEPT !.unconfirmed = 0] \in Memory
      BY <1>3, <2>2, MemoryKept, Zenon
    <3> QED BY <2>4, <2>5, <3>1, PolicyType, Zenon
  <2>6. CASE /\ ~(count >= MaxUnconfirmed) /\ channel' \in places
             /\ Remember([forgot EXCEPT !.unconfirmed = count], "unconfirmed")
    <3>1. [forgot EXCEPT !.unconfirmed = count] \in Memory
      BY <2>2, <2>3, <2>6, MemoryKept, Zenon
    <3>2. channel' \in Duties
      BY <2>4, <2>6
    <3> QED BY <2>4, <2>6, <3>1, <3>2, AnswerType, Zenon
  <2> QED BY <2>1, <2>5, <2>6
<1>7. CASE Failed
  <2> DEFINE places == {channel, Granted(job.duty)} \cup FailSafe
  <2>1. RunPolicy(job.memory, places)
    BY <1>7, Zenon DEF Failed
  <2>2. places \subseteq Duties
    <3>1. FailSafe \subseteq Duties
      BY GrantedInRange DEF FailSafe, Accepted, Duties
    <3> QED BY <1>2, <3>1
  <2> HIDE DEF places
  <2> QED BY <1>2, <2>1, <2>2, PolicyType
<1> QED BY <1>5, <1>6, <1>7

LEMMA EditType ==
    ASSUME TypeInv, NEW new \in Savable(Drafts), Edit(new)
    PROVE  TypeInv'
<1>1. /\ job' = job /\ memory' = Reconciled(memory, new) /\ rule' = new /\ steered' = Unset
      /\ channel' = channel /\ edits < MaxEdits /\ edits' = edits + 1
      /\ status' = (IF new.enabled THEN status ELSE "disabled")
      /\ blind' = [source |-> IF SourceChanged(new) THEN MaxAge ELSE blind.source,
                   gate |-> IF rule.when # new.when THEN MaxAge ELSE blind.gate]
  BY DEF Edit
<1>2. /\ memory \in Memory /\ blind \in Ages /\ edits \in 0 .. MaxEdits
      /\ MaxAge \in 0 .. MaxAge /\ MaxEdits \in Nat
  BY EvaluationAssumption DEF TypeInv, TypeOK, Ages
<1>3. memory' \in Memory
  <2> DEFINE moved == SourceChanged(new)
             applied == IF rule.enabled # new.enabled THEN Unset ELSE memory.applied
             armed == IF rule.enabled # new.enabled \/ moved \/ ControlChanged(new)
                      THEN Unset ELSE memory.armed
             input == IF moved THEN Unset ELSE memory.input
             inputAge == IF moved THEN MaxAge ELSE memory.inputAge
             condition == IF rule.when # new.when THEN Unset ELSE memory.condition
             conditionAge == IF rule.when # new.when THEN MaxAge ELSE memory.conditionAge
  <2>1. memory' = [memory EXCEPT !.applied = applied, !.armed = armed,
                                 !.input = input, !.inputAge = inputAge,
                                 !.condition = condition, !.conditionAge = conditionAge]
    BY <1>1, Zenon DEF Reconciled
  <2> HIDE DEF moved
  <2>2. /\ applied \in Duties \cup {Unset} /\ armed \in Temps \cup {Unset}
        /\ input \in Temps \cup {Unset} /\ condition \in Temps \cup {Unset}
        /\ inputAge \in 0 .. MaxAge /\ conditionAge \in 0 .. MaxAge
    <3>1. /\ memory.applied \in Duties \cup {Unset} /\ memory.armed \in Temps \cup {Unset}
          /\ memory.input \in Temps \cup {Unset} /\ memory.condition \in Temps \cup {Unset}
          /\ memory.inputAge \in 0 .. MaxAge /\ memory.conditionAge \in 0 .. MaxAge
      BY <1>2 DEF Memory
    <3>2. Unset \in Duties \cup {Unset} /\ Unset \in Temps \cup {Unset}
      BY Zenon
    <3> QED BY <1>2, <3>1, <3>2, Zenon
  <2> HIDE DEF applied, armed, input, inputAge, condition, conditionAge
  <2> QED BY <1>2, <2>1, <2>2 DEF Memory
<1>4. blind' \in Ages
  BY <1>1, <1>2 DEF Ages
<1>5. edits' \in 0 .. MaxEdits
  BY <1>1, <1>2
<1>6. status' \in Statuses
  BY <1>1 DEF TypeInv, TypeOK, Statuses
<1>7. /\ job'.busy \in BOOLEAN /\ channel' \in Duties
      /\ job'.busy => /\ job'.duty \in Duties /\ job'.memory \in Memory
                      /\ job'.verdict \in Verdicts
  BY <1>1 DEF TypeInv, TypeOK, Verdicts
<1> QED BY <1>1, <1>3, <1>4, <1>5, <1>6, <1>7 DEF TypeInv, TypeOK, Statuses, Verdicts, Ages

LEMMA StepType == ASSUME TypeInv, [Next]_vars PROVE TypeInv'
<1>1. CASE Evaluation
  <2>1. PICK lag \in 1 .. MaxLag : EvaluateReadings(lag)
    BY <1>1 DEF Evaluation
  <2>2. PICK readings \in [rule.sensors -> Temps \cup {Unset}],
             gauge \in {Unset} \cup (IF rule.when = Unset THEN {} ELSE Temps) :
            Evaluate(lag, Reduced(rule.aggregate, readings), gauge)
    BY <2>1, Zenon DEF EvaluateReadings
  <2>3. Sound(rule)
    BY SoundRules DEF TypeInv, TypeOK
  <2>4. Reduced(rule.aggregate, readings) \in Readings
    BY <2>3, ReducedWithin, EvaluationAssumption DEF Sound, Readings
  <2>5. gauge \in Readings
    BY <2>2 DEF Readings
  <2> QED BY <2>2, <2>4, <2>5, EvaluateType
<1>2. CASE Confirmed \/ Unconfirmed \/ Failed
  BY <1>2, AnswersType
<1>3. CASE Forced
  <2>1. /\ channel' = TargetMax
        /\ UNCHANGED <<rule, memory, status, job, steered, blind, edits>>
    BY <1>3 DEF Forced, history
  <2>2. TargetMax \in Duties
    BY EvaluationAssumption DEF Duties
  <2> QED BY <2>1, <2>2 DEF TypeInv, TypeOK
<1>4. CASE UNCHANGED vars
  BY <1>4 DEF vars, history, TypeInv, TypeOK
<1>5. ASSUME NEW new \in Savable(Drafts), Edit(new) PROVE TypeInv'
  BY <1>5, EditType
<1> QED BY <1>1, <1>2, <1>3, <1>4, <1>5 DEF Next

LEMMA InitType == Init => TypeInv
<1> SUFFICES ASSUME Init PROVE TypeInv
  OBVIOUS
<1>1. /\ job.busy = FALSE /\ memory = FreshMemory /\ status = "idle" /\ channel = TargetMin
      /\ steered = Unset /\ blind = [source |-> MaxAge, gate |-> MaxAge] /\ edits = 0
      /\ rule \in RulesOf(Drafts)
  BY DEF Init, NoJob
<1>2. memory \in Memory
  BY <1>1, EvaluationAssumption DEF FreshMemory, Memory
<1>3. TargetMin \in Duties /\ blind \in Ages /\ 0 \in 0 .. MaxEdits
  BY <1>1, EvaluationAssumption DEF Duties, Ages
<1> QED BY <1>1, <1>2, <1>3 DEF TypeInv, TypeOK, Ages

(* Rules of any shape, any readings and any answers: what a rule asks of    *)
(* its output and what the output is at lie in the range of the target,     *)
(* whatever the limits of the rule, its curve, its policies or the average  *)
(* of its sensors say.                                                      *)
THEOREM TypeCorrect == Spec => []TypeOK
<1>1. Init => TypeInv
  BY InitType
<1>2. TypeInv /\ [Next]_vars => TypeInv'
  BY StepType
<1>3. TypeInv => TypeOK
  BY DEF TypeInv
<1> QED BY <1>1, <1>2, <1>3, PTL DEF Spec
=============================================================================
