------------------------------ MODULE CuesProofs ------------------------------
(***************************************************************************)
(* Lemmas about what the planners of news and stories compute: the folds   *)
(* of the community modules, which tlapm can only unfold, a sum, the words *)
(* of a segment put in lines, and their times, for any words and times.    *)
(*                                                                         *)
(* A fold over a sequence is a function on the sets of positions 1..k      *)
(* (Walked); where there is such a function (WalkExists), the one the      *)
(* module chooses unfolds too, along its steps.  The groups such a fold    *)
(* makes of words are the words, cut at some bounds (Tiles), and so make   *)
(* the words again when they are put together.                             *)
(***************************************************************************)
EXTENDS NewsPlans, StoryPlans, FiniteSetTheorems, SequenceTheorems, WellFoundedInduction,
        TLAPS

-----------------------------------------------------------------------------
(* Numbers, folds and sums.                                                *)

\* A nonempty set of natural numbers has a least element.
LEMMA LeastUnder ==
  ASSUME NEW R, IsWellFoundedOn(R, Nat), \A x, y \in Nat : <<y, x>> \in R <=> y < x,
         NEW T, T \subseteq Nat, T # {}
  PROVE  \E x \in T : \A y \in T : x <= y
<1>1. PICK x \in T : \A y \in T : ~ (<<y, x>> \in R)
  <2>1. \A U \in SUBSET Nat : U # {} => \E x \in U : \A y \in U : ~ (<<y, x>> \in R)
    BY WFMin
  <2> QED
    BY <2>1
<1>2. \A y \in T : ~ (y < x) => x <= y
  OBVIOUS
<1>3. ASSUME NEW y \in T PROVE ~ (y < x)
  <2>1. x \in Nat /\ y \in Nat /\ ~ (<<y, x>> \in R)
    BY <1>1
  <2> QED
    BY <2>1, Zenon
<1> QED
  BY <1>2, <1>3

\* A nonempty set of natural numbers has a least.
LEMMA LeastNumber ==
  ASSUME NEW T, T \subseteq Nat, T # {}
  PROVE  \E x \in T : \A y \in T : x <= y
<1>1. IsWellFoundedOn(OpToRel(<, Nat), Nat)
  BY NatLessThanWellFounded
<1>2. \A x, y \in Nat : <<y, x>> \in OpToRel(<, Nat) <=> y < x
  BY DEF OpToRel
<1> QED
  BY <1>1, <1>2, LeastUnder, Zenon

\* What holds of nothing, and of one more wherever it holds, holds of all.
LEMMA Stairs ==
  ASSUME NEW n \in Nat, NEW S, 0 \in S, \A k \in 0..(n - 1) : k \in S => k + 1 \in S
  PROVE  \A k \in 0..n : k \in S
<1> DEFINE Bad == {k \in 0..n : k \notin S}
<1> SUFFICES ASSUME Bad # {} PROVE FALSE
  OBVIOUS
<1>1. PICK k \in Bad : \A j \in Bad : k <= j
  <2>1. Bad \subseteq Nat
    OBVIOUS
  <2> HIDE DEF Bad
  <2> QED
    BY <2>1, LeastNumber, Zenon
<1>2. k # 0 /\ k - 1 \in 0..(n - 1) /\ k - 1 \notin Bad
  BY <1>1
<1>3. k - 1 \in S /\ (k - 1) + 1 = k
  BY <1>2
<1> QED
  BY <1>1, <1>2, <1>3

\* Max and Min of two, and of the positions up to one.
LEMMA MaxOfTwo ==
  ASSUME NEW x \in Int, NEW y \in Int
  PROVE  Max({x, y}) = IF x >= y THEN x ELSE y
<1>1. PICK z : z = IF x >= y THEN x ELSE y
  OBVIOUS
<1>2. z \in {x, y} /\ z >= x /\ z >= y
  BY <1>1
<1>3. \A w \in {x, y} : w >= x /\ w >= y => w = z
  BY <1>1
<1> QED
  BY <1>1, <1>2, <1>3 DEF Max

\* The least of two numbers.
LEMMA MinOfTwo ==
  ASSUME NEW x \in Int, NEW y \in Int
  PROVE  Min({x, y}) = IF x <= y THEN x ELSE y
<1>1. PICK z : z = IF x <= y THEN x ELSE y
  OBVIOUS
<1>2. z \in {x, y} /\ z <= x /\ z <= y
  BY <1>1
<1>3. \A w \in {x, y} : w <= x /\ w <= y => w = z
  BY <1>1
<1> QED
  BY <1>1, <1>2, <1>3 DEF Min

\* The greatest of the positions up to one, and those before it.
LEMMA MaxUpTo ==
  ASSUME NEW k \in Nat, k > 0
  PROVE  Max(1..k) = k /\ (1..k) \ {k} = 1..(k - 1) /\ 1..k # {}
<1>1. k \in 1..k /\ \A y \in 1..k : k >= y
  OBVIOUS
<1>2. \A x \in 1..k : (\A y \in 1..k : x >= y) => x = k
  OBVIOUS
<1>3. Max(1..k) = k
  BY <1>1, <1>2 DEF Max
<1> QED
  BY <1>1, <1>3

\* Min is the least.
LEMMA MinIn ==
  ASSUME NEW T, T \subseteq Nat, T # {}
  PROVE  Min(T) \in T /\ \A y \in T : Min(T) <= y
BY LeastNumber DEF Min

\* A nonempty finite set of natural numbers has a greatest.
LEMMA MaxIn ==
  ASSUME NEW T, T \subseteq Nat, IsFiniteSet(T), T # {}
  PROVE  Max(T) \in T /\ \A y \in T : Max(T) >= y
<1> DEFINE Above(x) == {y \in T : y > x}
           C == {Cardinality(Above(x)) : x \in T}
<1>1. \A x \in T : IsFiniteSet(Above(x)) /\ Cardinality(Above(x)) \in Nat
  <2> SUFFICES ASSUME NEW x \in T PROVE IsFiniteSet(Above(x)) /\ Cardinality(Above(x)) \in Nat
    OBVIOUS
  <2>1. Above(x) \in SUBSET T
    OBVIOUS
  <2> HIDE DEF Above
  <2> QED
    BY <2>1, FS_Subset, FS_CardinalityType
<1>2. PICK c \in C : \A d \in C : c <= d
  <2>1. C \subseteq Nat /\ C # {}
    BY <1>1
  <2> HIDE DEF C
  <2> QED
    BY <2>1, LeastNumber, Zenon
<1>3. PICK x \in T : c = Cardinality(Above(x))
  BY <1>2
<1>4. ASSUME NEW y \in T, ~(x >= y) PROVE FALSE
  <2>1. Above(y) \subseteq Above(x) /\ y \in Above(x) /\ y \notin Above(y)
    <3>1. x \in Nat /\ y \in Nat /\ y > x /\ ~(y > y)
      BY <1>4
    <3>2. \A z \in Nat : z > y => z > x
      BY <3>1
    <3> QED
      BY <3>1, <3>2
  <2>2. Cardinality(Above(y)) < Cardinality(Above(x))
    <3>1. Above(y) # Above(x)
      BY <2>1
    <3> HIDE DEF Above
    <3> QED
      BY <1>1, <2>1, <3>1, FS_Subset
  <2>3. Cardinality(Above(y)) \in C
    OBVIOUS
  <2> HIDE DEF Above, C
  <2> QED
    BY <1>1, <1>2, <1>3, <2>2, <2>3
<1> QED
  BY <1>4 DEF Max
\* What a fold is of the subsets of a set, of which pick gives the element to take last;
\* and what a sum is of them.
Recurs(g, S, pick, base, step) ==
  \A s \in SUBSET S : g[s] = IF s = {} THEN base ELSE step[pick[s]][g[s \ {pick[s]}]]
Picked(s) == CHOOSE x \in s : TRUE
AddsUp(g, f, S) ==
  \A s \in SUBSET S :
    g[s] = (IF s = {} THEN 0 ELSE f[Picked(s)] + g[s \ {Picked(s)}]) /\ g[s] \in Nat

\* There is such a function on the subsets of a finite set.
LEMMA FoldExists ==
  ASSUME NEW S, IsFiniteSet(S), NEW pick, \A s \in SUBSET S : s # {} => pick[s] \in s,
         NEW X, NEW base \in X, NEW step \in [S -> [X -> X]]
  PROVE  \E g \in [SUBSET S -> X] : Recurs(g, S, pick, base, step)
<1> DEFINE Next1(g, s) == IF s = {} THEN base ELSE step[pick[s]][g[s \ {pick[s]}]]
           Upto(n) == \E g \in [SUBSET S -> X] :
                        \A s \in SUBSET S : Cardinality(s) <= n => g[s] = Next1(g, s)
           Good == {n \in Nat : Upto(n)}
<1>1. \A s \in SUBSET S : Cardinality(s) \in Nat /\ (Cardinality(s) = 0 <=> s = {})
  BY FS_Subset, FS_CardinalityType, FS_EmptySet
<1>2. 0 \in Good
  <2>1. PICK g : g = [s \in SUBSET S |-> base]
    OBVIOUS
  <2>2. g \in [SUBSET S -> X] /\ \A s \in SUBSET S : g[s] = base
    BY <2>1
  <2>3. \A s \in SUBSET S : Cardinality(s) <= 0 => s = {}
    BY <1>1
  <2>4. \A s \in SUBSET S : Cardinality(s) <= 0 => g[s] = Next1(g, s)
    BY <2>2, <2>3
  <2> HIDE DEF Next1
  <2> QED
    BY <2>2, <2>4, Zenon
<1>3. ASSUME NEW n \in Nat, n \in Good PROVE n + 1 \in Good
  <2>1. PICK g \in [SUBSET S -> X] :
          \A s \in SUBSET S : Cardinality(s) <= n => g[s] = Next1(g, s)
    BY <1>3
  <2>2. PICK h : h = [s \in SUBSET S |-> Next1(g, s)]
    OBVIOUS
  <2>3. h \in [SUBSET S -> X] /\ \A s \in SUBSET S : h[s] = Next1(g, s)
    <3>1. ASSUME NEW s \in SUBSET S PROVE Next1(g, s) \in X
      <4>1. CASE s = {}
        BY <4>1
      <4>2. CASE s # {}
        <5>1. pick[s] \in S /\ s \ {pick[s]} \in SUBSET S
          BY <4>2
        <5>2. g[s \ {pick[s]}] \in X /\ step[pick[s]] \in [X -> X]
          BY <5>1
        <5> QED
          BY <4>2, <5>2
      <4> QED
        BY <4>1, <4>2
    <3> HIDE DEF Next1
    <3> QED
      BY <2>2, <3>1
  <2>4. ASSUME NEW s \in SUBSET S, Cardinality(s) <= n + 1 PROVE h[s] = Next1(h, s)
    <3>1. CASE s = {}
      BY <2>3, <3>1
    <3>2. CASE s # {}
      <4>1. PICK y \in s : y = pick[s]
        BY <3>2
      <4>2. PICK r \in SUBSET S : r = s \ {y}
        OBVIOUS
      <4>3. Cardinality(r) = Cardinality(s) - 1
        <5>1. IsFiniteSet(s)
          BY FS_Subset
        <5> QED
          BY <4>2, <5>1, FS_RemoveElement
      <4>4. Cardinality(r) <= n
        BY <1>1, <2>4, <4>3
      <4>5. g[r] = Next1(g, r) /\ h[r] = Next1(g, r)
        BY <2>1, <2>3, <4>4
      <4>6. h[s] = Next1(g, s)
        BY <2>3
      <4> QED
        BY <3>2, <4>1, <4>2, <4>5, <4>6
    <3> QED
      BY <3>1, <3>2
  <2>5. Upto(n + 1)
    <3>1. n + 1 \in Nat
      OBVIOUS
    <3> HIDE DEF Next1
    <3> QED
      BY <2>3, <2>4, Zenon
  <2> HIDE DEF Upto
  <2> QED
    BY <2>5
<1>4. IsFiniteSet(S) /\ Cardinality(S) \in Nat
  BY FS_CardinalityType
<1>5. \A k \in 0..Cardinality(S) : k \in Good
  <2>1. PICK m \in Nat : m = Cardinality(S)
    BY <1>4
  <2>2. \A k \in 0..(m - 1) : k \in Good => k + 1 \in Good
    <3> HIDE DEF Good
    <3> QED
      BY <1>3
  <2>3. \A k \in 0..m : k \in Good
    <3> HIDE DEF Good
    <3> QED
      BY <1>2, <2>2, Stairs
  <2> HIDE DEF Good
  <2> QED
    BY <2>1, <2>3
<1>6. Cardinality(S) \in Good
  <2> HIDE DEF Good
  <2> QED
    BY <1>4, <1>5
<1>7. PICK g \in [SUBSET S -> X] :
        \A s \in SUBSET S : Cardinality(s) <= Cardinality(S) => g[s] = Next1(g, s)
  BY <1>6
<1>8. \A s \in SUBSET S : Cardinality(s) <= Cardinality(S)
  BY FS_Subset
<1> QED
  BY <1>7, <1>8 DEF Recurs

\* Of a fold that takes the last first: the values along the way.
Walked(g, n, base, step) ==
  \A s \in SUBSET (1..n) : g[s] = IF s = {} THEN base ELSE step[Max(s)][g[s \ {Max(s)}]]

\* There are such values.
LEMMA WalkExists ==
  ASSUME NEW n \in Nat, NEW X, NEW base \in X, NEW step \in [1..n -> [X -> X]]
  PROVE  \E g \in [SUBSET (1..n) -> X] : Walked(g, n, base, step)
<1>1. PICK pick : pick = [s \in SUBSET (1..n) |-> Max(s)]
  OBVIOUS
<1>2. IsFiniteSet(1..n)
  BY FS_Interval
<1>3. ASSUME NEW s \in SUBSET (1..n), s # {} PROVE pick[s] \in s
  <2>1. IsFiniteSet(s)
    BY <1>2, FS_Subset
  <2>2. s \subseteq Nat
    OBVIOUS
  <2> QED
    BY <1>1, <1>3, <2>1, <2>2, MaxIn
<1>4. PICK g \in [SUBSET (1..n) -> X] : Recurs(g, 1..n, pick, base, step)
  <2>1. PICK S : S = 1..n
    OBVIOUS
  <2>2. IsFiniteSet(S) /\ (\A s \in SUBSET S : s # {} => pick[s] \in s)
        /\ step \in [S -> [X -> X]]
    BY <1>2, <1>3, <2>1
  <2>3. \E g \in [SUBSET S -> X] : Recurs(g, S, pick, base, step)
    BY <2>2, FoldExists
  <2> QED
    BY <2>1, <2>3
<1>5. \A s \in SUBSET (1..n) : pick[s] = Max(s)
  BY <1>1
<1>6. \A s \in SUBSET (1..n) :
        g[s] = IF s = {} THEN base ELSE step[Max(s)][g[s \ {Max(s)}]]
  BY <1>4, <1>5 DEF Recurs
<1> QED
  BY <1>6 DEF Walked

\* A sequence with its positions, and one more at its end.
LEMMA SeqShape ==
  ASSUME NEW X, NEW s \in Seq(X)
  PROVE  /\ Len(s) \in Nat /\ DOMAIN s = 1..Len(s) /\ \A i \in 1..Len(s) : s[i] \in X
         /\ (s = <<>> <=> Len(s) = 0)
OBVIOUS

\* What Append makes of a sequence.
LEMMA Appended ==
  ASSUME NEW X, NEW s \in Seq(X), NEW e \in X
  PROVE  /\ Append(s, e) \in Seq(X) /\ Len(Append(s, e)) = Len(s) + 1
         /\ DOMAIN Append(s, e) = 1..(Len(s) + 1)
         /\ \A i \in 1..Len(s) : Append(s, e)[i] = s[i]
         /\ Append(s, e)[Len(s) + 1] = e
OBVIOUS

\* The sum of a function on a finite set.
LEMMA SumSteps ==
  ASSUME NEW S, IsFiniteSet(S), NEW f \in [S -> Nat]
  PROVE  \E g : SumFunction(f) = g[S] /\ AddsUp(g, f, S)
<1> DEFINE Steps(g) ==
      [s \in SUBSET S |-> IF s = {} THEN 0
                          ELSE f[CHOOSE x \in s : TRUE] + g[s \ {CHOOSE x \in s : TRUE}]]
<1>1. SumFunction(f) = (CHOOSE g : g = Steps(g))[S]
  <2>1. DOMAIN f = S
    OBVIOUS
  <2> QED
    BY <2>1 DEF SumFunction, SumFunctionOnSet, FoldFunctionOnSet, MapThenFoldSet
<1>2. PICK pick : pick = [s \in SUBSET S |-> CHOOSE x \in s : TRUE]
  OBVIOUS
<1>3. PICK step : step = [x \in S |-> [t \in Nat |-> f[x] + t]]
  OBVIOUS
<1>4. step \in [S -> [Nat -> Nat]]
  BY <1>3
<1>5. PICK g \in [SUBSET S -> Nat] : Recurs(g, S, pick, 0, step)
  <2>1. \A s \in SUBSET S : s # {} => pick[s] \in s
    BY <1>2
  <2>2. 0 \in Nat
    OBVIOUS
  <2>3. PICK X : X = Nat
    OBVIOUS
  <2>4. step \in [S -> [X -> X]] /\ 0 \in X
    BY <1>4, <2>3
  <2>5. \E g \in [SUBSET S -> X] : Recurs(g, S, pick, 0, step)
    BY <2>1, <2>4, FoldExists
  <2> QED
    BY <2>3, <2>5
<1>6. ASSUME NEW s \in SUBSET S
      PROVE  g[s] = IF s = {} THEN 0
                    ELSE f[CHOOSE x \in s : TRUE] + g[s \ {CHOOSE x \in s : TRUE}]
  <2>1. CASE s = {}
    BY <1>5, <2>1 DEF Recurs
  <2>2. CASE s # {}
    <3>1. PICK x \in s : x = (CHOOSE y \in s : TRUE)
      BY <2>2
    <3>2. x \in S /\ s \ {x} \in SUBSET S /\ pick[s] = x
      BY <1>2, <3>1
    <3>3. g[s] = step[x][g[s \ {x}]] /\ g[s \ {x}] \in Nat
      BY <1>5, <2>2, <3>2 DEF Recurs
    <3> QED
      BY <1>3, <2>2, <3>1, <3>2, <3>3
  <2> QED
    BY <2>1, <2>2
<1>7. g = Steps(g)
  BY <1>5, <1>6
<1>8. PICK h : h = (CHOOSE k : k = Steps(k))
  OBVIOUS
<1>9. h = Steps(h)
  <2> HIDE DEF Steps
  <2> QED
    BY <1>7, <1>8
<1>10. \A s \in SUBSET S :
        h[s] = IF s = {} THEN 0
               ELSE f[CHOOSE x \in s : TRUE] + h[s \ {CHOOSE x \in s : TRUE}]
  BY <1>9
<1> DEFINE Same == {n \in Nat : \A s \in SUBSET S : Cardinality(s) = n => h[s] \in Nat}
<1>11. \A s \in SUBSET S : Cardinality(s) \in Nat /\ (Cardinality(s) = 0 <=> s = {})
  BY FS_Subset, FS_CardinalityType, FS_EmptySet
<1>12. 0 \in Same
  BY <1>10, <1>11
<1>13. ASSUME NEW n \in Nat, n \in Same PROVE n + 1 \in Same
  <2> SUFFICES ASSUME NEW s \in SUBSET S, Cardinality(s) = n + 1 PROVE h[s] \in Nat
    OBVIOUS
  <2>1. s # {}
    BY <1>11
  <2>2. PICK x \in s : x = (CHOOSE y \in s : TRUE)
    BY <2>1
  <2>3. PICK r \in SUBSET S : r = s \ {x}
    OBVIOUS
  <2>4. Cardinality(r) = n
    <3>1. IsFiniteSet(s)
      BY FS_Subset
    <3>2. Cardinality(r) = Cardinality(s) - 1
      BY <2>3, <3>1, FS_RemoveElement
    <3>3. Cardinality(s) = n + 1
      OBVIOUS
    <3> HIDE DEF Same
    <3> QED
      BY <3>2, <3>3
  <2>5. h[r] \in Nat
    BY <1>13, <2>4
  <2>6. h[s] = f[x] + h[r] /\ f[x] \in Nat
    BY <1>10, <2>1, <2>2, <2>3
  <2> QED
    BY <2>5, <2>6
<1>14. ASSUME NEW s \in SUBSET S PROVE h[s] \in Nat
  <2>1. PICK n \in Nat : n = Cardinality(s)
    BY <1>11
  <2>2. \A k \in 0..n : k \in Same
    <3> HIDE DEF Same
    <3> QED
      BY <1>12, <1>13, Stairs
  <2>3. n \in Same
    BY <2>2
  <2> QED
    BY <2>1, <2>3
<1>15. SumFunction(f) = h[S]
  <2> HIDE DEF Steps
  <2> QED
    BY <1>1, <1>8
<1> HIDE DEF Same, Steps
<1>16. AddsUp(h, f, S)
  BY <1>10, <1>14, Zenon DEF AddsUp, Picked
<1> QED
  BY <1>15, <1>16

\* A sum of natural numbers is one.
LEMMA SumIsNat ==
  ASSUME NEW S, IsFiniteSet(S), NEW f \in [S -> Nat]
  PROVE  SumFunction(f) \in Nat /\ (S = {} => SumFunction(f) = 0)
<1>1. PICK g : SumFunction(f) = g[S] /\ AddsUp(g, f, S)
  BY SumSteps
<1>2. S \in SUBSET S
  OBVIOUS
<1> QED
  BY <1>1, <1>2 DEF AddsUp

\* The sum over one position.
LEMMA SumOfOne ==
  ASSUME NEW x, NEW n \in Nat
  PROVE  SumFunction([i \in {x} |-> n]) = n
<1>1. PICK S, f : S = {x} /\ f = [i \in S |-> n]
  OBVIOUS
<1>2. IsFiniteSet(S) /\ f \in [S -> Nat]
  BY <1>1, FS_Singleton
<1>3. PICK g : SumFunction(f) = g[S] /\ AddsUp(g, f, S)
  BY <1>2, SumSteps
<1>4. Picked(S) = x /\ S \ {x} = {} /\ S # {}
  BY <1>1 DEF Picked
<1>5. g[{}] = 0
  BY <1>3 DEF AddsUp
<1>6. g[S] = f[x] + g[{}]
  <2>1. S \in SUBSET S
    OBVIOUS
  <2> QED
    BY <1>3, <1>4, <2>1 DEF AddsUp
<1> QED
  BY <1>1, <1>3, <1>5, <1>6

-----------------------------------------------------------------------------
(* Words put together in groups.                                           *)

\* Of some positions, the last is one of them.
LEMMA LastOf ==
  ASSUME NEW n \in Nat, NEW s, s \subseteq 1..n, s # {}
  PROVE  Max(s) \in s
<1>1. IsFiniteSet(s)
  <2>1. PICK t : t = 1..n /\ IsFiniteSet(t)
    BY FS_Interval
  <2> QED
    BY <2>1, FS_Subset
<1>2. s \subseteq Nat
  OBVIOUS
<1> QED
  BY <1>1, <1>2, MaxIn

\* What a walk begins with and every step keeps, it has throughout.
LEMMA WalkStays ==
  ASSUME NEW n \in Nat, NEW h, NEW X, h[0] \in X,
         \A k \in 1..n : h[k - 1] \in X => h[k] \in X
  PROVE  \A k \in 0..n : h[k] \in X
<1> DEFINE S == {k \in 0..n : h[k] \in X}
<1>1. 0 \in S
  OBVIOUS
<1>2. ASSUME NEW k \in 0..(n - 1), k \in S PROVE k + 1 \in S
  <2>1. k + 1 \in 1..n /\ (k + 1) - 1 = k
    OBVIOUS
  <2> QED
    BY <1>2, <2>1
<1>3. \A k \in 0..n : k \in S
  <2> HIDE DEF S
  <2> QED
    BY <1>1, <1>2, Stairs
<1> QED
  BY <1>3

\* The positions up to one, in the set of all.
LEMMA UpTo ==
  ASSUME NEW n \in Nat
  PROVE  /\ 1..0 = {} /\ 0 \in 0..n /\ n \in 0..n
         /\ \A k \in 1..n :
              /\ Max(1..k) = k /\ (1..k) \ {k} = 1..(k - 1) /\ 1..k # {}
              /\ 1..k \in SUBSET (1..n) /\ k \in 0..n /\ k - 1 \in 0..n
<1>1. ASSUME NEW k \in 1..n
      PROVE  /\ Max(1..k) = k /\ (1..k) \ {k} = 1..(k - 1) /\ 1..k # {}
             /\ 1..k \in SUBSET (1..n) /\ k \in 0..n /\ k - 1 \in 0..n
  <2>1. Max(1..k) = k /\ (1..k) \ {k} = 1..(k - 1) /\ 1..k # {}
    BY MaxUpTo
  <2>2. 1..k \in SUBSET (1..n) /\ k \in 0..n /\ k - 1 \in 0..n
    OBVIOUS
  <2> QED
    BY <2>1, <2>2
<1>2. 1..0 = {} /\ 0 \in 0..n /\ n \in 0..n
  OBVIOUS
<1> QED
  BY <1>1, <1>2

\* A count that begins with nothing, along the numbers it adds.
Counts(h, n, d) ==
  h[0] = 0 /\ (\A k \in 0..n : h[k] \in Nat) /\ \A k \in 1..n : h[k] = h[k - 1] + d[k]

\* Two counts of the same numbers agree.
LEMMA CountsAgree ==
  ASSUME NEW n \in Nat, NEW m \in Nat, n <= m, NEW g, NEW h, NEW d, NEW e,
         Counts(g, m, d), Counts(h, n, e), \A k \in 1..n : d[k] = e[k]
  PROVE  g[n] = h[n]
<1> DEFINE S == {k \in 0..n : g[k] = h[k]}
<1>1. 0 \in S
  BY DEF Counts
<1>2. ASSUME NEW k \in 0..(n - 1), k \in S PROVE k + 1 \in S
  <2>1. k + 1 \in 1..n /\ (k + 1) - 1 = k /\ k + 1 \in 1..m
    OBVIOUS
  <2>2. g[k + 1] = g[k] + d[k + 1] /\ h[k + 1] = h[k] + e[k + 1]
    BY <2>1 DEF Counts
  <2> QED
    BY <1>2, <2>1, <2>2
<1>3. \A k \in 0..n : k \in S
  <2> HIDE DEF S
  <2> QED
    BY <1>1, <1>2, Stairs
<1> QED
  BY <1>3

\* One step of a count.
LEMMA CountsStep ==
  ASSUME NEW n \in Nat, NEW h, NEW d, Counts(h, n, d), NEW i \in 0..(n - 1)
  PROVE  h[i] \in Nat /\ h[i + 1] \in Nat /\ h[i + 1] = h[i] + d[i + 1]
<1>1. i + 1 \in 1..n /\ (i + 1) - 1 = i /\ i \in 0..n /\ i + 1 \in 0..n
  OBVIOUS
<1>2. h[i] \in Nat /\ h[i + 1] \in Nat
  BY <1>1 DEF Counts
<1>3. \A k \in 1..n : h[k] = h[k - 1] + d[k]
  BY DEF Counts
<1>4. h[i + 1] = h[(i + 1) - 1] + d[i + 1]
  BY <1>1, <1>3
<1> QED
  BY <1>1, <1>2, <1>4

\* A count of natural numbers never falls.
LEMMA CountsRise ==
  ASSUME NEW n \in Nat, NEW h, NEW d, Counts(h, n, d), \A i \in 1..n : d[i] \in Nat,
         NEW k \in 0..n, NEW l \in k..n
  PROVE  h[k] \in Nat /\ h[l] \in Nat /\ h[k] <= h[l]
<1>1. l \in 0..n /\ k \in Nat
  OBVIOUS
<1>2. h[k] \in Nat /\ h[l] \in Nat
  BY <1>1 DEF Counts
<1> DEFINE S == {i \in 0..n : i >= k => h[k] <= h[i]}
<1>3. 0 \in S
  <2>1. k = 0 \/ ~(0 >= k)
    BY <1>1
  <2> QED
    BY <1>2, <2>1
<1>4. ASSUME NEW i \in 0..(n - 1), i \in S PROVE i + 1 \in S
  <2>1. i + 1 \in 0..n /\ i + 1 \in 1..n
    OBVIOUS
  <2>2. h[i] \in Nat /\ h[i + 1] \in Nat /\ h[i + 1] = h[i] + d[i + 1]
    BY CountsStep
  <2>3. h[i] <= h[i + 1]
    BY <2>1, <2>2
  <2>4. CASE i >= k
    <3>1. h[k] <= h[i]
      BY <1>4, <2>4
    <3>2. h[k] <= h[i + 1]
      BY <1>2, <2>2, <2>3, <3>1
    <3> QED
      BY <2>1, <3>2
  <2>5. CASE ~(i >= k)
    <3>1. i + 1 = k \/ ~(i + 1 >= k)
      BY <1>1, <2>5
    <3> QED
      BY <1>2, <2>1, <3>1
  <2> QED
    BY <2>4, <2>5
<1>5. \A i \in 0..n : i \in S
  <2> HIDE DEF S
  <2> QED
    BY <1>3, <1>4, Stairs
<1>6. l \in S
  <2> HIDE DEF S
  <2> QED
    BY <1>1, <1>5
<1> QED
  BY <1>2, <1>6

\* The groups are the words up to the k-th, cut at the bounds b.
Tiles(groups, words, b, k, Fine) ==
  /\ groups \in Seq(Seq(Nat))
  /\ b \in [0..Len(groups) -> 0..k] /\ b[0] = 0 /\ b[Len(groups)] = k
  /\ \A i \in 1..Len(groups) :
       b[i - 1] <= b[i] /\ groups[i] = SubSeq(words, b[i - 1] + 1, b[i]) /\ groups[i] \in Fine

\* A piece of the words.
LEMMA Piece ==
  ASSUME NEW words \in Seq(Nat), NEW k \in 0..Len(words), NEW l \in k..Len(words)
  PROVE  /\ SubSeq(words, k + 1, l) \in Seq(Nat) /\ Len(SubSeq(words, k + 1, l)) = l - k
         /\ \A i \in 1..(l - k) : SubSeq(words, k + 1, l)[i] = words[k + i]
<1>1. k \in Nat /\ l \in Nat /\ k <= l /\ l <= Len(words) /\ Len(words) \in Nat
  BY LenProperties
<1>2. PICK from \in Int : from = k + 1
  BY <1>1
<1>3. PICK p : p = SubSeq(words, from, l)
  OBVIOUS
<1>4. \A i \in from..l : words[i] \in Nat
  BY <1>1, <1>2
<1>5. l \in Int
  BY <1>1
<1>6. /\ p \in Seq(Nat) /\ Len(p) = IF from <= l THEN l - from + 1 ELSE 0
      /\ \A i \in 1..(l - from + 1) : p[i] = words[from + i - 1]
  BY <1>3, <1>4, <1>5, SubSeqProperties
<1>7. Len(p) = l - k
  BY <1>1, <1>2, <1>6
<1>8. ASSUME NEW i \in 1..(l - k) PROVE p[i] = words[k + i]
  <2>1. i \in 1..(l - from + 1) /\ from + i - 1 = k + i
    BY <1>1, <1>2
  <2> QED
    BY <1>6, <2>1
<1> QED
  BY <1>2, <1>3, <1>6, <1>7, <1>8

\* A piece and the word after it.
LEMMA PieceGrows ==
  ASSUME NEW words \in Seq(Nat), NEW k \in 0..Len(words), NEW l \in k..Len(words), l < Len(words)
  PROVE  Append(SubSeq(words, k + 1, l), words[l + 1]) = SubSeq(words, k + 1, l + 1)
<1>1. Len(words) \in Nat /\ k \in Nat /\ l \in Nat /\ k <= l /\ l + 1 \in k..Len(words)
      /\ words[l + 1] \in Nat
  BY LenProperties
<1>2. PICK p : p = SubSeq(words, k + 1, l)
  OBVIOUS
<1>3. PICK q : q = SubSeq(words, k + 1, l + 1)
  OBVIOUS
<1>4. p \in Seq(Nat) /\ Len(p) = l - k /\ \A i \in 1..(l - k) : p[i] = words[k + i]
  BY <1>2, Piece
<1>5. q \in Seq(Nat) /\ Len(q) = (l + 1) - k /\ \A i \in 1..((l + 1) - k) : q[i] = words[k + i]
  BY <1>1, <1>3, Piece
<1>6. PICK r : r = Append(p, words[l + 1])
  OBVIOUS
<1>7. /\ r \in Seq(Nat) /\ Len(r) = Len(p) + 1 /\ \A i \in 1..Len(p) : r[i] = p[i]
      /\ r[Len(p) + 1] = words[l + 1]
  BY <1>1, <1>4, <1>6, AppendProperties
<1>8. \A i \in 1..Len(r) : r[i] = q[i]
  <2> SUFFICES ASSUME NEW i \in 1..Len(r) PROVE r[i] = q[i]
    OBVIOUS
  <2>1. CASE i <= l - k
    BY <1>1, <1>4, <1>5, <1>7, <2>1
  <2>2. CASE i = l - k + 1
    <3>1. k + i = l + 1 /\ i \in 1..((l + 1) - k) /\ i = Len(p) + 1
      BY <1>1, <1>4, <2>2
    <3> QED
      BY <1>5, <1>7, <3>1
  <2> QED
    BY <1>1, <1>4, <1>7, <2>1, <2>2
<1>9. Len(r) = Len(q)
  BY <1>1, <1>4, <1>5, <1>7
<1>10. r = q
  BY <1>5, <1>7, <1>8, <1>9, SeqEqual
<1> QED
  BY <1>2, <1>3, <1>6, <1>10

\* One group more.
LEMMA TilesMore ==
  ASSUME NEW words \in Seq(Nat), NEW Fine, NEW groups, NEW b, NEW k \in 0..Len(words),
         Tiles(groups, words, b, k, Fine), NEW l \in k..Len(words),
         SubSeq(words, k + 1, l) \in Fine
  PROVE  \E c : Tiles(Append(groups, SubSeq(words, k + 1, l)), words, c, l, Fine)
<1>1. PICK m \in Nat : m = Len(groups)
  BY DEF Tiles
<1>2. PICK e : e = SubSeq(words, k + 1, l)
  OBVIOUS
<1>3. e \in Seq(Nat) /\ groups \in Seq(Seq(Nat)) /\ l \in Nat /\ k \in Nat /\ k <= l
  BY <1>2, Piece, LenProperties DEF Tiles
<1>4. PICK r : r = Append(groups, e)
  OBVIOUS
<1>5. r \in Seq(Seq(Nat)) /\ Len(r) = m + 1 /\ r[m + 1] = e /\ \A i \in 1..m : r[i] = groups[i]
  <2>1. PICK X : X = Seq(Nat)
    OBVIOUS
  <2>2. groups \in Seq(X) /\ e \in X
    BY <1>3, <2>1
  <2>3. r \in Seq(X) /\ Len(r) = m + 1 /\ r[m + 1] = e /\ \A i \in 1..m : r[i] = groups[i]
    BY <1>1, <1>4, <2>2, AppendProperties
  <2> QED
    BY <2>1, <2>3
<1>6. PICK c : c = [i \in 0..(m + 1) |-> IF i <= m THEN b[i] ELSE l]
  OBVIOUS
<1>7. b \in [0..m -> 0..k] /\ b[0] = 0 /\ b[m] = k
  BY <1>1 DEF Tiles
<1>8. c \in [0..(m + 1) -> 0..l] /\ c[0] = 0 /\ c[m + 1] = l /\ c[m] = k
      /\ \A i \in 0..m : c[i] = b[i]
  <2>1. \A i \in 0..m : i \in 0..(m + 1) /\ i <= m /\ b[i] \in 0..l
    BY <1>3, <1>7
  <2>2. m + 1 \in 0..(m + 1) /\ ~(m + 1 <= m) /\ l \in 0..l /\ \A i \in 0..(m + 1) : i <= m => i \in 0..m
    BY <1>3
  <2>3. 0 \in 0..m /\ m \in 0..m
    OBVIOUS
  <2> QED
    BY <1>6, <1>7, <2>1, <2>2, <2>3
<1>9. ASSUME NEW i \in 1..(m + 1)
      PROVE  c[i - 1] <= c[i] /\ r[i] = SubSeq(words, c[i - 1] + 1, c[i]) /\ r[i] \in Fine
  <2>1. CASE i = m + 1
    <3>1. c[i - 1] = k /\ c[i] = l
      BY <1>8, <2>1
    <3> QED
      BY <1>2, <1>3, <1>5, <2>1, <3>1
  <2>2. CASE i \in 1..m
    <3>1. c[i - 1] = b[i - 1] /\ c[i] = b[i]
      BY <1>8, <2>2
    <3>2. b[i - 1] <= b[i] /\ groups[i] = SubSeq(words, b[i - 1] + 1, b[i]) /\ groups[i] \in Fine
      BY <1>1, <2>2 DEF Tiles
    <3> QED
      BY <1>5, <2>2, <3>1, <3>2
  <2> QED
    BY <2>1, <2>2
<1>10. Tiles(r, words, c, l, Fine)
  BY <1>5, <1>8, <1>9 DEF Tiles
<1> QED
  BY <1>2, <1>4, <1>10

\* A word more in the last group.
LEMMA TilesWider ==
  ASSUME NEW words \in Seq(Nat), NEW Fine, NEW groups, NEW b, NEW k \in 0..Len(words),
         Tiles(groups, words, b, k, Fine), k < Len(words), groups # <<>>,
         Append(groups[Len(groups)], words[k + 1]) \in Fine
  PROVE  \E c : Tiles([groups EXCEPT ![Len(groups)] = Append(groups[Len(groups)], words[k + 1])],
                      words, c, k + 1, Fine)
<1>1. PICK m \in Nat : m = Len(groups)
  BY DEF Tiles
<1>2. groups \in Seq(Seq(Nat)) /\ m > 0 /\ m \in 1..m /\ k \in Nat
  BY <1>1, EmptySeq, LenProperties DEF Tiles
<1>3. b \in [0..m -> 0..k] /\ b[0] = 0 /\ b[m] = k
  BY <1>1 DEF Tiles
<1>4. b[m - 1] <= k /\ groups[m] = SubSeq(words, b[m - 1] + 1, k) /\ b[m - 1] \in 0..k
  <2>1. m - 1 \in 0..m
    BY <1>2
  <2> QED
    BY <1>1, <1>2, <1>3, <2>1 DEF Tiles
<1>5. PICK e : e = Append(groups[m], words[k + 1])
  OBVIOUS
<1>6. e = SubSeq(words, b[m - 1] + 1, k + 1) /\ e \in Seq(Nat)
  <2>1. b[m - 1] \in 0..Len(words) /\ k \in b[m - 1]..Len(words)
        /\ k + 1 \in b[m - 1]..Len(words)
    <3>1. PICK n \in Nat : n = Len(words)
      BY LenProperties
    <3>2. k \in 0..n /\ k < n
      BY <3>1
    <3>3. PICK x \in Nat : x = b[m - 1] /\ x <= k
      BY <1>2, <1>4
    <3>4. x \in 0..n /\ k \in x..n /\ k + 1 \in x..n
      BY <1>2, <3>2, <3>3
    <3> QED
      BY <3>1, <3>3, <3>4
  <2>2. Append(SubSeq(words, b[m - 1] + 1, k), words[k + 1]) = SubSeq(words, b[m - 1] + 1, k + 1)
    BY <2>1, PieceGrows
  <2>3. SubSeq(words, b[m - 1] + 1, k + 1) \in Seq(Nat)
    BY <2>1, Piece
  <2> QED
    BY <1>4, <1>5, <2>2, <2>3
<1>7. PICK r : r = [groups EXCEPT ![m] = e]
  OBVIOUS
<1>8. r \in Seq(Seq(Nat)) /\ Len(r) = m /\ r[m] = e /\ \A i \in 1..m : i # m => r[i] = groups[i]
  <2>1. PICK X : X = Seq(Nat)
    OBVIOUS
  <2>2. groups \in Seq(X) /\ e \in X /\ m \in 1..Len(groups)
    BY <1>1, <1>2, <1>6, <2>1
  <2>3. r \in Seq(X) /\ Len(r) = m
    BY <1>1, <1>7, <2>2, ExceptSeq
  <2>4. DOMAIN groups = 1..m
    BY <1>1, <2>2, LenProperties
  <2> QED
    BY <1>2, <1>7, <2>1, <2>3, <2>4
<1>9. PICK c : c = [i \in 0..m |-> IF i = m THEN k + 1 ELSE b[i]]
  OBVIOUS
<1>10. c \in [0..m -> 0..(k + 1)] /\ c[0] = 0 /\ c[m] = k + 1 /\ c[m - 1] = b[m - 1]
       /\ \A i \in 0..m : i # m => c[i] = b[i]
  <2>1. \A i \in 0..m : b[i] \in 0..(k + 1)
    BY <1>2, <1>3
  <2>2. 0 \in 0..m /\ m \in 0..m /\ m - 1 \in 0..m /\ m - 1 # m /\ 0 # m /\ k + 1 \in 0..(k + 1)
    BY <1>2
  <2> QED
    BY <1>3, <1>9, <2>1, <2>2
<1>11. ASSUME NEW i \in 1..m
       PROVE  c[i - 1] <= c[i] /\ r[i] = SubSeq(words, c[i - 1] + 1, c[i]) /\ r[i] \in Fine
  <2>1. CASE i = m
    <3>1. c[m - 1] <= c[m]
      BY <1>2, <1>4, <1>10
    <3>2. r[m] = SubSeq(words, c[m - 1] + 1, c[m])
      BY <1>6, <1>8, <1>10
    <3>3. r[m] \in Fine
      BY <1>1, <1>5, <1>8
    <3> QED
      BY <2>1, <3>1, <3>2, <3>3
  <2>2. CASE i # m
    <3>1. i - 1 \in 0..m /\ i \in 0..m /\ i - 1 # m
      OBVIOUS
    <3>2. c[i - 1] = b[i - 1] /\ c[i] = b[i]
      BY <1>10, <2>2, <3>1
    <3>3. b[i - 1] <= b[i] /\ groups[i] = SubSeq(words, b[i - 1] + 1, b[i]) /\ groups[i] \in Fine
      BY <1>1 DEF Tiles
    <3> QED
      BY <1>8, <2>2, <3>2, <3>3
  <2> QED
    BY <2>1, <2>2
<1>12. Tiles(r, words, c, k + 1, Fine)
  BY <1>8, <1>10, <1>11 DEF Tiles
<1> QED
  BY <1>1, <1>5, <1>7, <1>12

\* A word begins a group, or goes into the last where that stays fine.
Grows(g, h, w, Fine) ==
  \/ h = Append(g, <<w>>)
  \/ /\ g # <<>>
     /\ g[Len(g)] \in Seq(Nat) /\ g[Len(g)] \in Fine => Append(g[Len(g)], w) \in Fine
     /\ h = [g EXCEPT ![Len(g)] = Append(g[Len(g)], w)]

\* Grown so word by word, the groups are the words, cut.
LEMMA GroupsTile ==
  ASSUME NEW words \in Seq(Nat), NEW Fine, \A w \in Nat : <<w>> \in Fine,
         NEW h, h[0] = <<>>, \A k \in 1..Len(words) : Grows(h[k - 1], h[k], words[k], Fine)
  PROVE  \E b : Tiles(h[Len(words)], words, b, Len(words), Fine)
<1>1. PICK n \in Nat : n = Len(words)
  BY LenProperties
<1> DEFINE S == {k \in 0..n : \E b : Tiles(h[k], words, b, k, Fine)}
<1>2. 0 \in S
  <2>1. PICK b : b = [i \in {0} |-> 0]
    OBVIOUS
  <2>2. PICK g : g = <<>>
    OBVIOUS
  <2>3. g \in Seq(Seq(Nat)) /\ Len(g) = 0 /\ 0..0 = {0}
    BY <2>2
  <2>4. b \in [0..Len(g) -> 0..0] /\ b[0] = 0 /\ b[Len(g)] = 0 /\ \A i \in 1..Len(g) : FALSE
    BY <2>1, <2>3
  <2>5. Tiles(g, words, b, 0, Fine)
    BY <2>3, <2>4 DEF Tiles
  <2> QED
    BY <2>2, <2>5
<1>3. ASSUME NEW k \in 0..(n - 1), k \in S PROVE k + 1 \in S
  <2>1. k + 1 \in 1..n /\ (k + 1) - 1 = k /\ k \in 0..Len(words) /\ k < Len(words)
        /\ k + 1 \in k..Len(words) /\ words[k + 1] \in Nat /\ k + 1 \in 0..n
    BY <1>1
  <2>2. PICK g : g = h[k]
    OBVIOUS
  <2>3. PICK b : Tiles(g, words, b, k, Fine)
    BY <1>3, <2>2
  <2>4. CASE h[k + 1] = Append(g, <<words[k + 1]>>)
    <3>1. SubSeq(words, k + 1, k + 1) = <<words[k + 1]>>
      <4>1. PICK p : p = SubSeq(words, k + 1, k + 1)
        OBVIOUS
      <4>2. p \in Seq(Nat) /\ Len(p) = (k + 1) - k
            /\ \A i \in 1..((k + 1) - k) : p[i] = words[k + i]
        BY <2>1, <4>1, Piece
      <4>3. Len(p) = 1 /\ p[1] = words[k + 1]
        <5>1. (k + 1) - k = 1 /\ 1 \in 1..1
          OBVIOUS
        <5> QED
          BY <4>2, <5>1
      <4>4. PICK q : q = <<words[k + 1]>>
        OBVIOUS
      <4>5. q \in Seq(Nat) /\ Len(q) = 1 /\ q[1] = words[k + 1]
        BY <2>1, <4>4
      <4>6. p = q
        BY <4>2, <4>3, <4>5, SeqEqual
      <4> QED
        BY <4>1, <4>4, <4>6
    <3>2. \E c : Tiles(Append(g, SubSeq(words, k + 1, k + 1)), words, c, k + 1, Fine)
      <4>1. SubSeq(words, k + 1, k + 1) \in Fine
        BY <2>1, <3>1
      <4> QED
        BY <2>1, <2>3, <4>1, TilesMore
    <3> QED
      BY <2>1, <2>4, <3>1, <3>2
  <2>5. CASE /\ g # <<>>
             /\ g[Len(g)] \in Seq(Nat) /\ g[Len(g)] \in Fine
                  => Append(g[Len(g)], words[k + 1]) \in Fine
             /\ h[k + 1] = [g EXCEPT ![Len(g)] = Append(g[Len(g)], words[k + 1])]
    <3>1. Len(g) \in 1..Len(g) /\ g \in Seq(Seq(Nat))
      BY <2>3, <2>5, EmptySeq, LenProperties DEF Tiles
    <3>2. g[Len(g)] \in Seq(Nat) /\ g[Len(g)] \in Fine
      BY <2>3, <3>1 DEF Tiles
    <3>3. Append(g[Len(g)], words[k + 1]) \in Fine
      BY <2>5, <3>2
    <3>4. \E c : Tiles([g EXCEPT ![Len(g)] = Append(g[Len(g)], words[k + 1])],
                       words, c, k + 1, Fine)
      BY <2>1, <2>3, <2>5, <3>3, TilesWider
    <3> QED
      BY <2>1, <2>5, <3>4
  <2>6. Grows(g, h[k + 1], words[k + 1], Fine)
    BY <1>1, <2>1, <2>2
  <2> QED
    BY <2>4, <2>5, <2>6 DEF Grows
<1>4. \A k \in 0..n : k \in S
  <2> HIDE DEF S
  <2> QED
    BY <1>2, <1>3, Stairs
<1>5. n \in S
  <2>1. n \in 0..n
    OBVIOUS
  <2> HIDE DEF S
  <2> QED
    BY <1>4, <2>1
<1> QED
  BY <1>1, <1>5

\* Put together again, the groups are the words.
LEMMA TilesFlatten ==
  ASSUME NEW words \in Seq(Nat), NEW Fine, NEW groups, NEW b, groups # <<>>,
         Tiles(groups, words, b, Len(words), Fine)
  PROVE  FlattenSeq(groups) = words
<1>1. PICK m \in Nat : m = Len(groups)
  BY DEF Tiles
<1>2. PICK n \in Nat : n = Len(words)
  BY LenProperties
<1>3. groups \in Seq(Seq(Nat)) /\ m > 0
  BY <1>1, EmptySeq DEF Tiles
<1>4. b \in [0..m -> 0..n] /\ b[0] = 0 /\ b[m] = n
      /\ \A i \in 1..m : b[i - 1] <= b[i] /\ groups[i] = SubSeq(words, b[i - 1] + 1, b[i])
  BY <1>1, <1>2 DEF Tiles
<1> DEFINE Steps(f) == [i \in 1..Len(groups) |-> IF i = 1 THEN groups[i] ELSE f[i - 1] \o groups[i]]
<1>5. FlattenSeq(groups) = (CHOOSE f : f = Steps(f))[m]
  BY <1>1, <1>3 DEF FlattenSeq
<1>6. PICK g : g = [i \in 1..m |-> SubSeq(words, 1, b[i])]
  OBVIOUS
<1>7. ASSUME NEW i \in 1..m
      PROVE  g[i] = IF i = 1 THEN groups[i] ELSE g[i - 1] \o groups[i]
  <2>1. CASE i = 1
    <3>1. 1 \in 1..m /\ 1 - 1 = 0 /\ b[1 - 1] + 1 = 1
      BY <1>3, <1>4
    <3>2. groups[1] = SubSeq(words, b[1 - 1] + 1, b[1])
      BY <1>4, <3>1
    <3> QED
      BY <1>6, <2>1, <3>1, <3>2
  <2>2. CASE i # 1
    <3>1. i - 1 \in 1..m /\ i - 1 \in 0..m /\ i \in 0..m
      BY <2>2
    <3>2. b[i - 1] \in 0..n /\ b[i] \in b[i - 1]..n /\ b[i - 1] \in (1 - 1)..n
      BY <1>4, <3>1
    <3>3. SubSeq(words, 1, b[i - 1]) \o SubSeq(words, b[i - 1] + 1, b[i]) = SubSeq(words, 1, b[i])
      <4>1. 1 \in 1..Len(words) + 1
        BY <1>2
      <4> QED
        BY <1>2, <3>2, <4>1, ConcatAdjacentSubSeq
    <3> QED
      BY <1>4, <1>6, <2>2, <3>1, <3>3
  <2> QED
    BY <2>1, <2>2
<1>8. g = Steps(g)
  BY <1>1, <1>6, <1>7
<1>9. PICK f : f = (CHOOSE k : k = Steps(k))
  OBVIOUS
<1>10. f = Steps(f)
  <2> HIDE DEF Steps
  <2> QED
    BY <1>8, <1>9
<1>11. \A i \in 1..m : f[i] = IF i = 1 THEN groups[i] ELSE f[i - 1] \o groups[i]
  BY <1>1, <1>10
<1> DEFINE S == {k \in 0..m : k # 0 => f[k] = g[k]}
<1>12. 0 \in S
  OBVIOUS
<1>13. ASSUME NEW k \in 0..(m - 1), k \in S PROVE k + 1 \in S
  <2>1. k + 1 \in 1..m /\ (k + 1) - 1 = k /\ k + 1 \in 0..m
    OBVIOUS
  <2>2. f[k + 1] = g[k + 1]
    <3>1. CASE k = 0
      BY <1>7, <1>11, <2>1, <3>1
    <3>2. CASE k # 0
      BY <1>7, <1>11, <1>13, <2>1, <3>2
    <3> QED
      BY <3>1, <3>2
  <2> QED
    BY <2>1, <2>2
<1>14. \A k \in 0..m : k \in S
  <2> HIDE DEF S
  <2> QED
    BY <1>12, <1>13, Stairs
<1>15. f[m] = g[m]
  <2>1. m \in S
    <3>1. m \in 0..m
      OBVIOUS
    <3> HIDE DEF S
    <3> QED
      BY <1>14, <3>1
  <2> QED
    BY <1>3, <2>1
<1>16. SubSeq(words, 1, b[m]) = words
  BY <1>2, <1>4, SubSeqFull
<1>17. FlattenSeq(groups) = f[m]
  <2> HIDE DEF Steps
  <2> QED
    BY <1>5, <1>9
<1>18. m \in 1..m
  BY <1>3
<1> QED
  BY <1>6, <1>15, <1>16, <1>17, <1>18

\* A product grows with its factor.
LEMMA TimesGrows ==
  ASSUME NEW d \in Nat, NEW x \in Int, NEW y \in Int, x <= y
  PROVE  d * x <= d * y
<1>1. PICK e \in Nat : y = x + e
  <2>1. y - x \in Nat /\ y = x + (y - x)
    OBVIOUS
  <2> QED
    BY <2>1
<1>2. d * y = d * x + d * e /\ d * e \in Nat /\ d * x \in Int
  BY <1>1
<1> QED
  BY <1>2

\* What a quotient is.
LEMMA QuotientOf ==
  ASSUME NEW a \in Nat, NEW d \in Nat \ {0}
  PROVE  /\ a \div d \in Nat /\ d * (a \div d) <= a /\ a < d * (a \div d) + d
OBVIOUS

\* Where a and b are at most c times d apart, their quotients are at most c apart.
LEMMA QuotientsApart ==
  ASSUME NEW a \in Nat, NEW b \in Nat, NEW d \in Nat \ {0}, NEW c \in Nat, b <= a + d * c
  PROVE  b \div d <= (a \div d) + c
<1>1. PICK q \in Nat : q = a \div d /\ d * q <= a /\ a < d * q + d
  BY QuotientOf
<1>2. PICK r \in Nat : r = b \div d /\ d * r <= b /\ b < d * r + d
  BY QuotientOf
<1>3. ASSUME r >= q + c + 1 PROVE FALSE
  <2>1. d * (q + c + 1) <= d * r
    BY <1>3, TimesGrows
  <2>2. d * (q + c + 1) = d * q + d * c + d
    OBVIOUS
  <2>3. PICK x, y, z \in Nat : x = d * q /\ y = d * c /\ z = d * r
    OBVIOUS
  <2>4. x + y + d <= z /\ z <= b /\ b <= a + y /\ a < x + d
    BY <1>1, <1>2, <2>1, <2>2, <2>3
  <2> QED
    BY <2>3, <2>4
<1> QED
  BY <1>1, <1>2, <1>3

-----------------------------------------------------------------------------
(* The cues of a news narration.                                           *)

\* The fold that counts the characters.
LEMMA CharsWalk ==
  ASSUME NEW words \in Seq(Nat), NEW n \in Nat, n = Len(words),
         NEW d, d = [k \in 1..n |-> 1 + words[k]]
  PROVE  \E h : Counts(h, n, d) /\ Chars(words) = h[n] - 1
<1> DEFINE Steps(g) ==
      [s \in SUBSET (DOMAIN words) |-> IF s = {} THEN 0 ELSE g[s \ {Max(s)}] + 1 + words[Max(s)]]
<1>1. Chars(words) = (CHOOSE g : g = Steps(g))[DOMAIN words] - 1
  BY DEF Chars, FoldLeft, MapThenFoldSet
<1>2. DOMAIN words = 1..n /\ \A k \in 1..n : words[k] \in Nat
  BY LenProperties
<1>3. PICK step : step = [k \in 1..n |-> [x \in Nat |-> x + 1 + words[k]]]
  OBVIOUS
<1>4. PICK g \in [SUBSET (1..n) -> Nat] : Walked(g, n, 0, step)
  <2>1. PICK X : X = Nat
    OBVIOUS
  <2>2. step \in [1..n -> [X -> X]] /\ 0 \in X
    <3>1. \A k \in 1..n : [x \in Nat |-> x + 1 + words[k]] \in [Nat -> Nat]
      BY <1>2
    <3> QED
      BY <1>3, <2>1, <3>1
  <2>3. \E g \in [SUBSET (1..n) -> X] : Walked(g, n, 0, step)
    BY <2>2, WalkExists
  <2> QED
    BY <2>1, <2>3
<1>5. ASSUME NEW s \in SUBSET (1..n)
      PROVE  g[s] = IF s = {} THEN 0 ELSE g[s \ {Max(s)}] + 1 + words[Max(s)]
  <2>1. CASE s = {}
    BY <1>4, <2>1 DEF Walked
  <2>2. CASE s # {}
    <3>1. PICK x \in s : x = Max(s)
      BY <2>2, LastOf
    <3>2. s \ {x} \in SUBSET (1..n) /\ x \in 1..n
      OBVIOUS
    <3>3. g[s] = step[x][g[s \ {x}]] /\ g[s \ {x}] \in Nat
      BY <1>4, <2>2, <3>1, <3>2 DEF Walked
    <3> QED
      BY <1>3, <2>2, <3>1, <3>2, <3>3
  <2> QED
    BY <2>1, <2>2
<1>6. g = Steps(g)
  BY <1>2, <1>4, <1>5
<1>7. PICK f : f = (CHOOSE k : k = Steps(k))
  OBVIOUS
<1>8. f = Steps(f)
  <2> HIDE DEF Steps
  <2> QED
    BY <1>6, <1>7
<1>9. \A s \in SUBSET (1..n) : f[s] = IF s = {} THEN 0 ELSE f[s \ {Max(s)}] + 1 + words[Max(s)]
  BY <1>2, <1>8
<1>10. PICK h : h = [k \in 0..n |-> f[1..k]]
  OBVIOUS
<1> HIDE DEF Steps
<1>11. h[0] = 0 /\ \A k \in 1..n : h[k] = h[k - 1] + 1 + words[k]
  <2>1. h[0] = 0
    <3>1. 1..0 = {} /\ 0 \in 0..n /\ {} \in SUBSET (1..n)
      BY UpTo
    <3> QED
      BY <1>9, <1>10, <3>1
  <2>2. ASSUME NEW k \in 1..n PROVE h[k] = h[k - 1] + 1 + words[k]
    <3>1. Max(1..k) = k /\ (1..k) \ {k} = 1..(k - 1) /\ 1..k # {}
          /\ 1..k \in SUBSET (1..n) /\ k \in 0..n /\ k - 1 \in 0..n
      BY UpTo
    <3>2. h[k] = f[1..k] /\ h[k - 1] = f[1..(k - 1)]
      BY <1>10, <3>1
    <3> QED
      BY <1>9, <3>1, <3>2
  <2> QED
    BY <2>1, <2>2
<1>12. \A k \in 0..n : h[k] \in Nat
  <2>1. PICK X : X = Nat
    OBVIOUS
  <2>2. h[0] \in X /\ \A k \in 1..n : h[k - 1] \in X => h[k] \in X
    BY <1>2, <1>11, <2>1
  <2>3. \A k \in 0..n : h[k] \in X
    BY <2>2, WalkStays
  <2> QED
    BY <2>1, <2>3
<1>13. \A k \in 1..n : h[k] = h[k - 1] + d[k]
  <2> SUFFICES ASSUME NEW k \in 1..n PROVE h[k] = h[k - 1] + d[k]
    OBVIOUS
  <2>1. k - 1 \in 0..n /\ d[k] = 1 + words[k]
    OBVIOUS
  <2>2. h[k - 1] \in Nat /\ words[k] \in Nat
    BY <1>2, <1>12, <2>1
  <2>3. h[k] = h[k - 1] + 1 + words[k]
    BY <1>11
  <2>4. PICK x, y \in Nat : x = h[k - 1] /\ y = words[k]
    BY <2>2
  <2>5. x + 1 + y = x + (1 + y)
    OBVIOUS
  <2> QED
    BY <2>1, <2>3, <2>4, <2>5
<1>14. Chars(words) = h[n] - 1
  <2>1. n \in 0..n
    OBVIOUS
  <2>2. h[n] = f[1..n]
    BY <1>10, <2>1
  <2> QED
    BY <1>1, <1>2, <1>7, <2>2
<1> QED
  BY <1>11, <1>12, <1>13, <1>14 DEF Counts

\* The characters of one word, and of one word more.
LEMMA CharsGrow ==
  ASSUME NEW words \in Seq(Nat), NEW w \in Nat
  PROVE  Chars(words) \in Int /\ Chars(<<w>>) = w /\ Chars(Append(words, w)) = Chars(words) + 1 + w
<1>1. PICK n \in Nat : n = Len(words)
  BY LenProperties
<1>2. PICK d : d = [k \in 1..n |-> 1 + words[k]]
  OBVIOUS
<1>3. PICK h : Counts(h, n, d) /\ Chars(words) = h[n] - 1
  BY <1>1, <1>2, CharsWalk
<1>4. h[n] \in Nat
  BY <1>3, UpTo DEF Counts
<1>5. Chars(<<w>>) = w
  <2>1. PICK s : s = <<w>>
    OBVIOUS
  <2>2. s \in Seq(Nat) /\ Len(s) = 1 /\ s[1] = w
    BY <2>1
  <2>3. PICK e : e = [k \in 1..1 |-> 1 + s[k]]
    OBVIOUS
  <2>4. PICK k : Counts(k, 1, e) /\ Chars(s) = k[1] - 1
    BY <2>2, <2>3, CharsWalk
  <2>5. k[1] = 0 + (1 + w)
    <3>1. 1 \in 1..1 /\ 1 - 1 = 0
      OBVIOUS
    <3> QED
      BY <2>2, <2>3, <2>4, <3>1 DEF Counts
  <2> QED
    BY <2>1, <2>4, <2>5
<1>6. Chars(Append(words, w)) = Chars(words) + 1 + w
  <2>1. PICK s : s = Append(words, w)
    OBVIOUS
  <2>2. s \in Seq(Nat) /\ Len(s) = n + 1 /\ s[n + 1] = w /\ \A i \in 1..n : s[i] = words[i]
    BY <1>1, <2>1, AppendProperties
  <2>3. PICK e : e = [k \in 1..(n + 1) |-> 1 + s[k]]
    OBVIOUS
  <2>4. PICK k : Counts(k, n + 1, e) /\ Chars(s) = k[n + 1] - 1
    <3>1. PICK m \in Nat : m = n + 1
      OBVIOUS
    <3>2. m = Len(s) /\ e = [k \in 1..m |-> 1 + s[k]]
      BY <2>2, <2>3, <3>1
    <3>3. \E k : Counts(k, m, e) /\ Chars(s) = k[m] - 1
      BY <2>2, <3>2, CharsWalk
    <3> QED
      BY <3>1, <3>3
  <2>5. ASSUME NEW i \in 1..n PROVE e[i] = d[i]
    <3>1. i \in 1..(n + 1)
      OBVIOUS
    <3> QED
      BY <1>2, <2>2, <2>3, <3>1
  <2>8. k[n] = h[n]
    <3>1. n <= n + 1 /\ n + 1 \in Nat
      OBVIOUS
    <3> QED
      BY <1>3, <2>4, <2>5, <3>1, CountsAgree
  <2>9. k[n + 1] = k[n] + (1 + w)
    <3>1. n + 1 \in 1..(n + 1) /\ (n + 1) - 1 = n
      OBVIOUS
    <3> QED
      BY <2>2, <2>3, <2>4, <3>1 DEF Counts
  <2>10. PICK x \in Nat : x = h[n]
    BY <1>4
  <2>11. PICK y : y = k[n + 1]
    OBVIOUS
  <2>12. y = x + (1 + w) /\ Chars(s) = y - 1 /\ Chars(words) = x - 1
    BY <1>3, <2>4, <2>8, <2>9, <2>10, <2>11
  <2>13. (x + (1 + w)) - 1 = (x - 1) + 1 + w
    OBVIOUS
  <2> QED
    BY <2>1, <2>12, <2>13
<1> QED
  BY <1>3, <1>4, <1>5, <1>6

\* One step of the fold that groups the words.
GroupStep(groups, w, limit) ==
  IF groups = <<>> \/ Breaks(groups[Len(groups)], w, limit) THEN Append(groups, <<w>>)
  ELSE [groups EXCEPT ![Len(groups)] = Append(@, w)]

\* A word joins the last group or begins one.
LEMMA GroupsTyped ==
  ASSUME NEW groups \in Seq(Seq(Nat)), NEW w \in Nat, NEW limit
  PROVE  GroupStep(groups, w, limit) \in Seq(Seq(Nat))
<1>1. PICK X : X = Seq(Nat)
  OBVIOUS
<1>2. groups \in Seq(X) /\ <<w>> \in X
  BY <1>1
<1>3. CASE groups = <<>> \/ Breaks(groups[Len(groups)], w, limit)
  <2>1. PICK e \in X : e = <<w>>
    BY <1>2
  <2>2. Append(groups, e) \in Seq(X)
    BY <1>2, AppendProperties
  <2>3. GroupStep(groups, w, limit) = Append(groups, e)
    BY <1>3, <2>1 DEF GroupStep
  <2> QED
    BY <1>1, <2>2, <2>3
<1>4. CASE ~(groups = <<>> \/ Breaks(groups[Len(groups)], w, limit))
  <2>1. PICK m \in 1..Len(groups) : m = Len(groups)
    BY <1>2, <1>4, EmptySeq, LenProperties
  <2>2. groups[m] \in X
    BY <1>2
  <2>3. PICK e \in X : e = Append(groups[m], w)
    BY <1>1, <2>2, AppendProperties
  <2>4. [groups EXCEPT ![m] = e] \in Seq(X)
    BY <1>2, ExceptSeq
  <2>5. GroupStep(groups, w, limit) = [groups EXCEPT ![m] = e]
    BY <1>4, <2>1, <2>3 DEF GroupStep
  <2> QED
    BY <1>1, <2>4, <2>5
<1> QED
  BY <1>3, <1>4

\* The fold that groups the words.
LEMMA WordGroupsWalk ==
  ASSUME NEW words \in Seq(Nat), NEW n \in Nat, n = Len(words), NEW limit
  PROVE  \E h : /\ h[0] = <<>> /\ WordGroups(words, limit) = h[n]
                /\ \A k \in 1..n : h[k] = GroupStep(h[k - 1], words[k], limit)
<1> DEFINE Steps(g) ==
      [s \in SUBSET (DOMAIN words) |->
         IF s = {} THEN <<>> ELSE GroupStep(g[s \ {Max(s)}], words[Max(s)], limit)]
<1>1. WordGroups(words, limit) = (CHOOSE g : g = Steps(g))[DOMAIN words]
  BY DEF WordGroups, GroupStep, FoldLeft, MapThenFoldSet
<1>2. DOMAIN words = 1..n /\ \A k \in 1..n : words[k] \in Nat
  BY LenProperties
<1>3. PICK X : X = Seq(Seq(Nat))
  OBVIOUS
<1>4. PICK step : step = [k \in 1..n |-> [x \in X |-> GroupStep(x, words[k], limit)]]
  OBVIOUS
<1>5. PICK g \in [SUBSET (1..n) -> X] : Walked(g, n, <<>>, step)
  <2>1. \A k \in 1..n, x \in X : GroupStep(x, words[k], limit) \in X
    BY <1>2, <1>3, GroupsTyped
  <2>2. step \in [1..n -> [X -> X]]
    BY <1>4, <2>1
  <2>3. <<>> \in X
    BY <1>3
  <2> QED
    BY <2>2, <2>3, WalkExists
<1>6. ASSUME NEW s \in SUBSET (1..n)
      PROVE  g[s] = IF s = {} THEN <<>> ELSE GroupStep(g[s \ {Max(s)}], words[Max(s)], limit)
  <2>1. CASE s = {}
    BY <1>5, <2>1 DEF Walked
  <2>2. CASE s # {}
    <3>1. PICK x \in s : x = Max(s)
      BY <2>2, LastOf
    <3>2. s \ {x} \in SUBSET (1..n) /\ x \in 1..n
      OBVIOUS
    <3>3. g[s] = step[x][g[s \ {x}]] /\ g[s \ {x}] \in X
      BY <1>5, <2>2, <3>1, <3>2 DEF Walked
    <3> QED
      BY <1>4, <2>2, <3>1, <3>2, <3>3
  <2> QED
    BY <2>1, <2>2
<1>7. g = Steps(g)
  BY <1>2, <1>5, <1>6
<1>8. PICK f : f = (CHOOSE k : k = Steps(k))
  OBVIOUS
<1>9. f = Steps(f)
  <2> HIDE DEF Steps
  <2> QED
    BY <1>7, <1>8
<1>10. \A s \in SUBSET (1..n) :
         f[s] = IF s = {} THEN <<>> ELSE GroupStep(f[s \ {Max(s)}], words[Max(s)], limit)
  BY <1>2, <1>9
<1> HIDE DEF Steps
<1>11. PICK h : h = [k \in 0..n |-> f[1..k]]
  OBVIOUS
<1>12. h[0] = <<>>
  <2>1. 1..0 = {} /\ 0 \in 0..n /\ {} \in SUBSET (1..n)
    BY UpTo
  <2> QED
    BY <1>10, <1>11, <2>1
<1>13. ASSUME NEW k \in 1..n PROVE h[k] = GroupStep(h[k - 1], words[k], limit)
  <2>1. Max(1..k) = k /\ (1..k) \ {k} = 1..(k - 1) /\ 1..k # {}
        /\ 1..k \in SUBSET (1..n) /\ k \in 0..n /\ k - 1 \in 0..n
    BY UpTo
  <2>2. h[k] = f[1..k] /\ h[k - 1] = f[1..(k - 1)]
    BY <1>11, <2>1
  <2> QED
    BY <1>10, <2>1, <2>2
<1>14. WordGroups(words, limit) = h[n]
  <2>1. n \in 0..n
    OBVIOUS
  <2>2. h[n] = f[1..n]
    BY <1>11, <2>1
  <2> QED
    BY <1>1, <1>2, <1>8, <2>2
<1> QED
  BY <1>12, <1>13, <1>14

\* A group that makes a cue: one word, or as many as there may be, in a line.
FineGroups(limit) == {g \in Seq(Nat) : Len(g) = 1 \/ (Len(g) <= limit /\ Chars(g) <= 42)}

\* The groups of the words are the words, cut at some bounds, each group fine.
LEMMA WordGroupsTile ==
  ASSUME NEW words \in Seq(Nat), NEW limit \in Nat
  PROVE  \E b : Tiles(WordGroups(words, limit), words, b, Len(words), FineGroups(limit))
<1>1. PICK n \in Nat : n = Len(words)
  BY LenProperties
<1>2. PICK h : /\ h[0] = <<>> /\ WordGroups(words, limit) = h[n]
               /\ \A k \in 1..n : h[k] = GroupStep(h[k - 1], words[k], limit)
  BY <1>1, WordGroupsWalk
<1>3. \A w \in Nat : <<w>> \in FineGroups(limit)
  BY DEF FineGroups
<1>4. ASSUME NEW k \in 1..n PROVE Grows(h[k - 1], h[k], words[k], FineGroups(limit))
  <2>1. PICK g, w : g = h[k - 1] /\ w = words[k]
    OBVIOUS
  <2>2. h[k] = GroupStep(g, w, limit) /\ w \in Nat
    BY <1>1, <1>2, <2>1, LenProperties
  <2>3. CASE g = <<>> \/ Breaks(g[Len(g)], w, limit)
    BY <2>1, <2>2, <2>3 DEF GroupStep, Grows
  <2>4. CASE g # <<>> /\ ~Breaks(g[Len(g)], w, limit)
    <3>1. h[k] = [g EXCEPT ![Len(g)] = Append(g[Len(g)], w)]
      BY <2>2, <2>4 DEF GroupStep
    <3>2. PICK e : e = g[Len(g)]
      OBVIOUS
    <3>3. ASSUME e \in Seq(Nat) PROVE Append(e, w) \in FineGroups(limit)
      <4>1. PICK x \in Int : x = Chars(e) /\ Chars(Append(e, w)) = x + 1 + w
        BY <2>2, <3>3, CharsGrow
      <4>2. ~(x + 1 + w > 42) /\ ~(Len(e) >= limit)
        BY <2>4, <3>2, <4>1 DEF Breaks, MaxCueChars
      <4>3. Append(e, w) \in Seq(Nat) /\ Len(Append(e, w)) = Len(e) + 1 /\ Len(e) \in Nat
        BY <2>2, <3>3
      <4>4. Len(e) + 1 <= limit /\ x + 1 + w <= 42
        BY <2>2, <4>2, <4>3
      <4> QED
        BY <4>1, <4>3, <4>4 DEF FineGroups
    <3> QED
      BY <2>1, <2>4, <3>1, <3>2, <3>3 DEF Grows
  <2> QED
    BY <2>3, <2>4
<1>5. \E b : Tiles(h[n], words, b, n, FineGroups(limit))
  <2>1. PICK Fine : Fine = FineGroups(limit)
    OBVIOUS
  <2>2. (\A w \in Nat : <<w>> \in Fine) /\ \A k \in 1..n : Grows(h[k - 1], h[k], words[k], Fine)
    BY <1>3, <1>4, <2>1
  <2>3. \E b : Tiles(h[n], words, b, n, Fine)
    BY <1>1, <1>2, <2>2, GroupsTile
  <2> QED
    BY <2>1, <2>3
<1> QED
  BY <1>1, <1>2, <1>5

\* When the first and the last word are over.
LEMMA WordEndsAtEnds ==
  ASSUME NEW start \in Nat, NEW ms \in Nat, NEW n \in Nat \ {0}
  PROVE  WordEnds(start, ms, 0, n) = start /\ WordEnds(start, ms, n, n) = start + ms
<1>1. 2 * n \in Nat \ {0} /\ n \in Nat
  OBVIOUS
<1>2. PICK d \in Nat \ {0} : d = 2 * n
  BY <1>1
<1>3. n \div d = 0
  <2>1. PICK q \in Nat : q = n \div d /\ d * q <= n
    BY <1>1, QuotientOf
  <2>2. q >= 1 => d * 1 <= d * q
    BY TimesGrows
  <2> QED
    BY <1>2, <2>1, <2>2
<1>4. 2 * 0 * ms + n = n
  OBVIOUS
<1>5. (2 * n * ms + n) \div d = ms
  <2>1. PICK a \in Nat : a = 2 * n * ms + n
    OBVIOUS
  <2>2. a = d * ms + n
    BY <1>2, <2>1
  <2>3. PICK q \in Nat : q = a \div d /\ d * q <= a /\ a < d * q + d
    BY QuotientOf
  <2>4. q >= ms + 1 => d * (ms + 1) <= d * q
    BY TimesGrows
  <2>5. q <= ms - 1 => d * q <= d * (ms - 1)
    BY TimesGrows
  <2>6. d * (ms + 1) = d * ms + d /\ d * (ms - 1) = d * ms - d /\ d * ms \in Nat /\ d * q \in Nat
    OBVIOUS
  <2>7. q = ms
    BY <1>2, <2>2, <2>3, <2>4, <2>5, <2>6
  <2> QED
    BY <2>1, <2>3, <2>7
<1>6. WordEnds(start, ms, 0, n) = start + (n \div d)
  BY <1>2, <1>4 DEF WordEnds
<1>7. WordEnds(start, ms, n, n) = start + ((2 * n * ms + n) \div d)
  BY <1>2 DEF WordEnds
<1> QED
  BY <1>3, <1>5, <1>6, <1>7

\* So many words, from the k-th to the l-th of n, are over in their order, and where they
\* are few enough for seven seconds they take no more.
Between(start, ms, n, k, l) ==
  /\ WordEnds(start, ms, k, n) \in Nat /\ WordEnds(start, ms, l, n) \in Nat
  /\ WordEnds(start, ms, k, n) <= WordEnds(start, ms, l, n)
  /\ (l - k) * ms <= 7000 * n => WordEnds(start, ms, l, n) <= WordEnds(start, ms, k, n) + 7000

\* A later word ends no earlier.
LEMMA WordEndsBetween ==
  ASSUME NEW start \in Nat, NEW ms \in Nat, NEW n \in Nat \ {0}, NEW k \in Nat, NEW l \in Nat,
         k <= l
  PROVE  Between(start, ms, n, k, l)
<1>1. PICK d \in Nat \ {0} : d = 2 * n
  OBVIOUS
<1>2. PICK a \in Nat : a = 2 * k * ms + n
  OBVIOUS
<1>3. PICK b \in Nat : b = 2 * l * ms + n
  OBVIOUS
<1>4. PICK e \in Nat : e = l - k
  OBVIOUS
<1>5. b = a + 2 * (e * ms)
  <2>1. l = k + e
    BY <1>4
  <2>2. 2 * (k + e) * ms + n = 2 * k * ms + n + 2 * (e * ms)
    OBVIOUS
  <2> QED
    BY <1>2, <1>3, <2>1, <2>2
<1>6. PICK p \in Nat : p = e * ms
  OBVIOUS
<1>7. a \div d \in Nat /\ b \div d \in Nat
  BY QuotientOf
<1>8. a \div d <= b \div d
  <2>1. a <= b + d * 0 /\ 0 \in Nat
    BY <1>5, <1>6
  <2>2. a \div d <= (b \div d) + 0
    BY <2>1, QuotientsApart
  <2> QED
    BY <1>7, <2>2
<1>9. ASSUME (l - k) * ms <= 7000 * n PROVE b \div d <= (a \div d) + 7000
  <2>1. p <= 7000 * n
    BY <1>4, <1>6, <1>9
  <2>2. b <= a + d * 7000 /\ 7000 \in Nat
    BY <1>1, <1>5, <1>6, <2>1
  <2> QED
    BY <2>2, QuotientsApart
<1>10. WordEnds(start, ms, k, n) = start + (a \div d) /\ WordEnds(start, ms, l, n) = start + (b \div d)
  BY <1>1, <1>2, <1>3 DEF WordEnds
<1> QED
  BY <1>7, <1>8, <1>9, <1>10 DEF Between

\* So many words of n fit seven seconds.
Fitting(limit, ms, n) ==
  limit \in Nat /\ \A g \in Nat : g <= limit /\ g > 1 => g * ms <= 7000 * n

\* As many words as the duration allows are not above seven seconds.
LEMMA LimitFits ==
  ASSUME NEW ms \in Nat \ {0}, NEW n \in Nat \ {0}
  PROVE  Fitting(WordsByDuration(ms, n), ms, n)
<1>1. PICK q \in Nat : q = (MaxCueMs * n) \div ms /\ ms * q <= 7000 * n
  <2>1. PICK a \in Nat : a = MaxCueMs * n /\ a = 7000 * n
    BY DEF MaxCueMs
  <2>2. a \div ms \in Nat /\ ms * (a \div ms) <= a
    BY QuotientOf
  <2> QED
    BY <2>1, <2>2
<1>2. PICK w \in Nat : w = WordsByDuration(ms, n) /\ (w <= 1 \/ w = q)
  <2>1. WordsByDuration(ms, n) \in {1, q}
    BY <1>1 DEF WordsByDuration, Most
  <2> QED
    BY <2>1
<1>3. ASSUME NEW g \in Nat, g <= w, g > 1 PROVE g * ms <= 7000 * n
  <2>1. w = q
    BY <1>2, <1>3
  <2>2. ms * g <= ms * q
    BY <1>3, <2>1, TimesGrows
  <2>3. g * ms = ms * g
    OBVIOUS
  <2> QED
    BY <1>1, <2>2, <2>3
<1> QED
  BY <1>2, <1>3 DEF Fitting

\* The words of some groups.
WordsIn(groups) == FoldLeft(LAMBDA sum, g : sum + Len(g), 0, groups)

\* The words of groups are counted one group at a time.
LEMMA LengthsWalk ==
  ASSUME NEW groups \in Seq(Seq(Nat)), NEW n \in Nat, n = Len(groups),
         NEW d, d = [k \in 1..n |-> Len(groups[k])]
  PROVE  \E h : Counts(h, n, d) /\ WordsIn(groups) = h[n]
<1> DEFINE Steps(g) ==
      [s \in SUBSET (DOMAIN groups) |-> IF s = {} THEN 0 ELSE g[s \ {Max(s)}] + Len(groups[Max(s)])]
<1>1. WordsIn(groups) = (CHOOSE g : g = Steps(g))[DOMAIN groups]
  BY DEF WordsIn, FoldLeft, MapThenFoldSet
<1>2. DOMAIN groups = 1..n /\ \A k \in 1..n : Len(groups[k]) \in Nat
  <2>1. \A k \in 1..n : groups[k] \in Seq(Nat)
    OBVIOUS
  <2> QED
    BY <2>1, LenProperties
<1>3. PICK step : step = [k \in 1..n |-> [x \in Nat |-> x + Len(groups[k])]]
  OBVIOUS
<1>4. PICK g \in [SUBSET (1..n) -> Nat] : Walked(g, n, 0, step)
  <2>1. PICK X : X = Nat
    OBVIOUS
  <2>2. step \in [1..n -> [X -> X]] /\ 0 \in X
    <3>1. \A k \in 1..n : [x \in Nat |-> x + Len(groups[k])] \in [Nat -> Nat]
      BY <1>2
    <3> QED
      BY <1>3, <2>1, <3>1
  <2>3. \E g \in [SUBSET (1..n) -> X] : Walked(g, n, 0, step)
    BY <2>2, WalkExists
  <2> QED
    BY <2>1, <2>3
<1>5. ASSUME NEW s \in SUBSET (1..n)
      PROVE  g[s] = IF s = {} THEN 0 ELSE g[s \ {Max(s)}] + Len(groups[Max(s)])
  <2>1. CASE s = {}
    BY <1>4, <2>1 DEF Walked
  <2>2. CASE s # {}
    <3>1. PICK x \in s : x = Max(s)
      BY <2>2, LastOf
    <3>2. s \ {x} \in SUBSET (1..n) /\ x \in 1..n
      OBVIOUS
    <3>3. g[s] = step[x][g[s \ {x}]] /\ g[s \ {x}] \in Nat
      BY <1>4, <2>2, <3>1, <3>2 DEF Walked
    <3> QED
      BY <1>3, <2>2, <3>1, <3>2, <3>3
  <2> QED
    BY <2>1, <2>2
<1>6. g = Steps(g)
  BY <1>2, <1>4, <1>5
<1>7. PICK f : f = (CHOOSE k : k = Steps(k))
  OBVIOUS
<1>8. f = Steps(f)
  <2> HIDE DEF Steps
  <2> QED
    BY <1>6, <1>7
<1>9. \A s \in SUBSET (1..n) : f[s] = IF s = {} THEN 0 ELSE f[s \ {Max(s)}] + Len(groups[Max(s)])
  BY <1>2, <1>8
<1> HIDE DEF Steps
<1>10. PICK h : h = [k \in 0..n |-> f[1..k]]
  OBVIOUS
<1>11. h[0] = 0
  <2>1. 1..0 = {} /\ 0 \in 0..n /\ {} \in SUBSET (1..n)
    BY UpTo
  <2> QED
    BY <1>9, <1>10, <2>1
<1>12. ASSUME NEW k \in 1..n PROVE h[k] = h[k - 1] + d[k]
  <2>1. Max(1..k) = k /\ (1..k) \ {k} = 1..(k - 1) /\ 1..k # {}
        /\ 1..k \in SUBSET (1..n) /\ k \in 0..n /\ k - 1 \in 0..n
    BY UpTo
  <2>2. h[k] = f[1..k] /\ h[k - 1] = f[1..(k - 1)] /\ d[k] = Len(groups[k])
    BY <1>10, <2>1
  <2> QED
    BY <1>9, <2>1, <2>2
<1>13. \A k \in 0..n : h[k] \in Nat
  <2>1. PICK X : X = Nat
    OBVIOUS
  <2>2. \A k \in 1..n : d[k] \in Nat
    BY <1>2
  <2>3. h[0] \in X /\ \A k \in 1..n : h[k - 1] \in X => h[k] \in X
    BY <1>11, <1>12, <2>1, <2>2
  <2>4. \A k \in 0..n : h[k] \in X
    BY <2>3, WalkStays
  <2> QED
    BY <2>1, <2>4
<1>14. WordsIn(groups) = h[n]
  <2>1. n \in 0..n
    OBVIOUS
  <2>2. h[n] = f[1..n]
    BY <1>10, <2>1
  <2> QED
    BY <1>1, <1>2, <1>7, <2>2
<1> QED
  BY <1>11, <1>12, <1>13, <1>14 DEF Counts

\* As many words are before a group as its bound says.
LEMMA LengthsBefore ==
  ASSUME NEW words \in Seq(Nat), NEW Fine, NEW groups, NEW b,
         Tiles(groups, words, b, Len(words), Fine), NEW i \in 0..Len(groups)
  PROVE  WordsIn(SubSeq(groups, 1, i)) = b[i]
<1>1. PICK m \in Nat : m = Len(groups)
  BY DEF Tiles
<1>2. PICK n \in Nat : n = Len(words)
  BY LenProperties
<1>3. groups \in Seq(Seq(Nat)) /\ b \in [0..m -> 0..n] /\ b[0] = 0
      /\ \A k \in 1..m : b[k - 1] <= b[k] /\ groups[k] = SubSeq(words, b[k - 1] + 1, b[k])
  BY <1>1, <1>2 DEF Tiles
<1>4. i \in 0..m /\ i \in Nat
  BY <1>1
<1>5. PICK p : p = SubSeq(groups, 1, i)
  OBVIOUS
<1>6. p \in Seq(Seq(Nat)) /\ Len(p) = i /\ \A k \in 1..i : p[k] = groups[k]
  <2>1. PICK X : X = Seq(Nat)
    OBVIOUS
  <2>2. \A k \in 1..i : groups[k] \in X /\ 1 + k - 1 = k
    BY <1>1, <1>3, <1>4, <2>1
  <2>3. p \in Seq(X) /\ Len(p) = (IF 1 <= i THEN i - 1 + 1 ELSE 0)
    BY <1>4, <1>5, <2>2, SubSeqProperties
  <2>4. \A k \in 1..(i - 1 + 1) : p[k] = groups[1 + k - 1]
    BY <1>4, <1>5, <2>2, SubSeqProperties
  <2> QED
    BY <1>4, <2>1, <2>2, <2>3, <2>4
<1>7. PICK d : d = [k \in 1..i |-> Len(p[k])]
  OBVIOUS
<1>8. PICK h : Counts(h, i, d) /\ WordsIn(p) = h[i]
  BY <1>4, <1>6, <1>7, LengthsWalk
<1>9. ASSUME NEW k \in 1..i PROVE b[k] = b[k - 1] + d[k] /\ b[k] \in Nat
  <2>1. k \in 1..m /\ k \in 0..m /\ k - 1 \in 0..m
    BY <1>4
  <2>2. PICK x, y \in 0..n : x = b[k - 1] /\ y = b[k] /\ x <= y
    BY <1>3, <2>1
  <2>3. x \in 0..Len(words) /\ y \in x..Len(words)
    BY <1>2, <2>2
  <2>4. Len(SubSeq(words, x + 1, y)) = y - x
    BY <2>3, Piece
  <2>5. d[k] = y - x
    BY <1>3, <1>6, <1>7, <2>1, <2>2, <2>4
  <2> QED
    BY <2>2, <2>5
<1>10. Counts(b, i, d)
  <2>1. \A k \in 0..i : b[k] \in Nat
    BY <1>3, <1>4
  <2> QED
    BY <1>3, <1>9, <2>1 DEF Counts
<1>11. h[i] = b[i]
  <2>1. i <= i
    BY <1>4
  <2> QED
    BY <1>4, <1>8, <1>10, <2>1, CountsAgree
<1> QED
  BY <1>5, <1>8, <1>11

\* The cues of a segment, of its groups.
CuesBy(groups, start, ms, n) ==
  [i \in DOMAIN groups |->
     [words |-> groups[i],
      start |-> WordEnds(start, ms, WordsIn(SubSeq(groups, 1, i - 1)), n),
      end |-> WordEnds(start, ms, WordsIn(SubSeq(groups, 1, (i + 1) - 1)), n)]]

\* The cues of a segment, by its groups.
LEMMA CuesAre ==
  ASSUME NEW segment, NEW start, NEW ms, NEW n, NEW groups,
         start = segment.start \div PerMs, ms = (segment.end - segment.start) \div PerMs,
         n = Len(segment.words), groups = WordGroups(segment.words, WordsByDuration(ms, n))
  PROVE  SegmentCues(segment) = CuesBy(groups, start, ms, n)
BY DEF SegmentCues, CuesBy, WordsIn, FoldLeft, MapThenFoldSet

\* Of a segment that lasts from one millisecond to a later one, with words.
LEMMA SegmentCovered ==
  ASSUME NEW segment, segment.words \in Seq(Nat), segment.words # <<>>,
         NEW start \in Nat, NEW ms \in Nat \ {0}, PerMs \in Nat \ {0},
         segment.start = start * PerMs, segment.end = (start + ms) * PerMs
  PROVE  Cover(SegmentCues(segment), segment)
<1>1. PICK words \in Seq(Nat) : words = segment.words
  OBVIOUS
<1>2. PICK n \in Nat \ {0} : n = Len(words)
  BY <1>1, EmptySeq
<1>3. segment.start \div PerMs = start /\ (segment.end - segment.start) \div PerMs = ms
  <2>1. PICK d \in Nat \ {0} : d = PerMs
    OBVIOUS
  <2>2. ASSUME NEW x \in Nat PROVE (x * d) \div d = x
    <3>1. PICK a \in Nat : a = d * x
      OBVIOUS
    <3>2. PICK q \in Nat : q = a \div d /\ d * q <= a /\ a < d * q + d
      BY QuotientOf
    <3>3. q >= x + 1 => d * (x + 1) <= d * q
      BY TimesGrows
    <3>4. q <= x - 1 => d * q <= d * (x - 1)
      BY TimesGrows
    <3>5. d * (x + 1) = d * x + d /\ d * (x - 1) = d * x - d /\ x * d = d * x /\ d * q \in Nat
      OBVIOUS
    <3>6. q = x
      BY <3>1, <3>2, <3>3, <3>4, <3>5
    <3> QED
      BY <3>1, <3>2, <3>5, <3>6
  <2>3. (start + ms) * d - start * d = ms * d
    OBVIOUS
  <2>4. segment.start = start * d /\ segment.end - segment.start = ms * d
    BY <2>1, <2>3
  <2>5. (start * d) \div d = start /\ (ms * d) \div d = ms
    BY <2>2
  <2> QED
    BY <2>1, <2>4, <2>5
<1>4. PICK limit \in Nat : limit = WordsByDuration(ms, n) /\ Fitting(limit, ms, n)
  <2>1. Fitting(WordsByDuration(ms, n), ms, n)
    BY LimitFits
  <2>2. WordsByDuration(ms, n) \in Nat
    BY <2>1 DEF Fitting
  <2> QED
    BY <2>1, <2>2
<1>5. PICK groups : groups = WordGroups(words, limit)
  OBVIOUS
<1>6. PICK b : Tiles(groups, words, b, n, FineGroups(limit))
  BY <1>2, <1>5, WordGroupsTile
<1>7. PICK m \in Nat : m = Len(groups) /\ groups \in Seq(Seq(Nat)) /\ DOMAIN groups = 1..m
  BY <1>6, LenProperties DEF Tiles
<1>8. b \in [0..m -> 0..n] /\ b[0] = 0 /\ b[m] = n
      /\ \A i \in 1..m : /\ b[i - 1] <= b[i] /\ groups[i] = SubSeq(words, b[i - 1] + 1, b[i])
                         /\ groups[i] \in FineGroups(limit)
  BY <1>6, <1>7 DEF Tiles
<1>9. m > 0 /\ groups # <<>>
  <2>1. m # 0
    BY <1>8
  <2> QED
    BY <1>7, <2>1
<1>10. PICK cues : cues = SegmentCues(segment)
  OBVIOUS
<1>11. cues = [i \in 1..m |->
                 [words |-> groups[i],
                  start |-> WordEnds(start, ms, WordsIn(SubSeq(groups, 1, i - 1)), n),
                  end |-> WordEnds(start, ms, WordsIn(SubSeq(groups, 1, (i + 1) - 1)), n)]]
  <2>1. cues = CuesBy(groups, start, ms, n)
    BY <1>1, <1>2, <1>3, <1>4, <1>5, <1>10, CuesAre
  <2> QED
    BY <1>7, <2>1 DEF CuesBy
<1>12. \A i \in 0..m : WordsIn(SubSeq(groups, 1, i)) = b[i]
  BY <1>2, <1>6, <1>7, LengthsBefore
<1>13. ASSUME NEW i \in 1..m
       PROVE  /\ cues[i].words = groups[i]
              /\ cues[i].start = WordEnds(start, ms, b[i - 1], n)
              /\ cues[i].end = WordEnds(start, ms, b[i], n)
  <2>1. i - 1 \in 0..m /\ i \in 0..m /\ (i + 1) - 1 = i
    OBVIOUS
  <2>2. WordsIn(SubSeq(groups, 1, i - 1)) = b[i - 1] /\ WordsIn(SubSeq(groups, 1, i)) = b[i]
    BY <1>12, <2>1
  <2> QED
    BY <1>11, <2>1, <2>2
<1>14. DOMAIN cues = 1..m /\ Len(cues) = m
  BY <1>11
<1>15. FlattenSeq([j \in DOMAIN cues |-> cues[j].words]) = words
  <2>1. [j \in DOMAIN cues |-> cues[j].words] = groups
    <3>1. PICK all : all = [j \in DOMAIN cues |-> cues[j].words]
      OBVIOUS
    <3>2. all = [j \in 1..m |-> groups[j]]
      BY <1>13, <1>14, <3>1
    <3>3. groups = [j \in 1..m |-> groups[j]]
      BY <1>7
    <3> QED
      BY <3>1, <3>2, <3>3
  <2> QED
    BY <1>2, <1>6, <1>9, <2>1, TilesFlatten
<1>16. cues[1].start = start /\ cues[m].end = start + ms
  <2>1. 1 \in 1..m /\ m \in 1..m /\ 1 - 1 = 0
    BY <1>9
  <2>2. WordEnds(start, ms, 0, n) = start /\ WordEnds(start, ms, n, n) = start + ms
    BY WordEndsAtEnds
  <2>3. cues[1].start = WordEnds(start, ms, b[1 - 1], n) /\ cues[m].end = WordEnds(start, ms, b[m], n)
    BY <1>13, <2>1
  <2> QED
    BY <1>8, <2>1, <2>2, <2>3
<1>17. ASSUME NEW j \in 1..m
       PROVE  /\ cues[j].start <= cues[j].end
              /\ j > 1 => cues[j].start = cues[j - 1].end
              /\ \/ Len(cues[j].words) = 1
                 \/ Chars(cues[j].words) <= 42 /\ cues[j].end - cues[j].start <= 7000
  <2>1. j - 1 \in 0..m /\ j \in 0..m
    OBVIOUS
  <2>2. PICK k, l \in 0..n : k = b[j - 1] /\ l = b[j] /\ k <= l
    BY <1>8, <2>1
  <2>3. cues[j].words = groups[j] /\ cues[j].start = WordEnds(start, ms, k, n)
        /\ cues[j].end = WordEnds(start, ms, l, n)
    BY <1>13, <2>2
  <2>4. Between(start, ms, n, k, l)
    <3>1. k \in Nat /\ l \in Nat /\ k <= l
      BY <2>2
    <3> QED
      BY <3>1, WordEndsBetween
  <2>5. j > 1 => cues[j].start = cues[j - 1].end
    <3> SUFFICES ASSUME j > 1 PROVE cues[j].start = cues[j - 1].end
      OBVIOUS
    <3>1. j - 1 \in 1..m
      OBVIOUS
    <3> QED
      BY <1>13, <2>2, <2>3, <3>1
  <2>6. Len(groups[j]) = l - k
    <3>1. k \in 0..Len(words) /\ l \in k..Len(words)
      BY <1>2, <2>2
    <3>2. Len(SubSeq(words, k + 1, l)) = l - k
      BY <3>1, Piece
    <3>3. groups[j] = SubSeq(words, k + 1, l)
      BY <1>8, <2>2
    <3> QED
      BY <3>2, <3>3
  <2>7. Len(groups[j]) = 1 \/ (Len(groups[j]) <= limit /\ Chars(groups[j]) <= 42)
    BY <1>8 DEF FineGroups
  <2>8. CASE Len(groups[j]) = 1
    BY <2>3, <2>4, <2>5, <2>8 DEF Between
  <2>9. CASE Len(groups[j]) # 1
    <3>1. PICK g \in Nat : g = l - k /\ g <= limit /\ g # 1
      BY <2>2, <2>6, <2>7, <2>9
    <3>2. g * ms <= 7000 * n
      <4>1. CASE g = 0
        BY <4>1
      <4>2. CASE g > 1
        BY <1>4, <3>1, <4>2 DEF Fitting
      <4> QED
        BY <3>1, <4>1, <4>2
    <3>3. WordEnds(start, ms, l, n) <= WordEnds(start, ms, k, n) + 7000
      BY <2>4, <3>1, <3>2 DEF Between
    <3>4. cues[j].start \in Nat /\ cues[j].end \in Nat
      BY <2>3, <2>4 DEF Between
    <3> QED
      BY <2>3, <2>4, <2>5, <2>7, <2>9, <3>3, <3>4 DEF Between
  <2> QED
    BY <2>8, <2>9
<1>18. Cover(cues, segment)
  BY <1>1, <1>14, <1>15, <1>16, <1>17 DEF Cover
<1> QED
  BY <1>10, <1>18

\* In whole milliseconds, as it is registered.
LEMMA RegisteredAt ==
  ASSUME NEW n, NEW i \in DOMAIN n, NEW x, NEW y, NEW w, n[i] = [start |-> x, end |-> y, words |-> w]
  PROVE  Registered(n)[i] = [start |-> Ms(x) * PerMs, end |-> Ms(y) * PerMs, words |-> w]
         /\ DOMAIN Registered(n) = DOMAIN n
BY DEF Registered

\* A number of milliseconds.
LEMMA MsTyped ==
  ASSUME NEW t \in Nat, PerMs \in Nat \ {0}
  PROVE  Ms(t) \in Nat
<1>1. PICK a \in Nat, d \in Nat \ {0} : a = 2 * t + PerMs /\ d = 2 * PerMs
  OBVIOUS
<1>2. a \div d \in Nat
  BY QuotientOf
<1> QED
  BY <1>1, <1>2 DEF Ms

-----------------------------------------------------------------------------
(* The cues of a story's narration.                                        *)

\* The fold that adds numbers up.
LEMMA SumWalk ==
  ASSUME NEW parts \in Seq(Nat), NEW n \in Nat, n = Len(parts)
  PROVE  \E h : Counts(h, n, parts) /\ Sum(parts) = h[n]
<1> DEFINE Steps(g) ==
      [s \in SUBSET (DOMAIN parts) |-> IF s = {} THEN 0 ELSE g[s \ {Max(s)}] + parts[Max(s)]]
<1>1. Sum(parts) = (CHOOSE g : g = Steps(g))[DOMAIN parts]
  BY DEF Sum, FoldLeft, MapThenFoldSet
<1>2. DOMAIN parts = 1..n /\ \A k \in 1..n : parts[k] \in Nat
  BY LenProperties
<1>3. PICK step : step = [k \in 1..n |-> [x \in Nat |-> x + parts[k]]]
  OBVIOUS
<1>4. PICK g \in [SUBSET (1..n) -> Nat] : Walked(g, n, 0, step)
  <2>1. PICK X : X = Nat
    OBVIOUS
  <2>2. step \in [1..n -> [X -> X]] /\ 0 \in X
    <3>1. \A k \in 1..n : [x \in Nat |-> x + parts[k]] \in [Nat -> Nat]
      BY <1>2
    <3> QED
      BY <1>3, <2>1, <3>1
  <2>3. \E g \in [SUBSET (1..n) -> X] : Walked(g, n, 0, step)
    BY <2>2, WalkExists
  <2> QED
    BY <2>1, <2>3
<1>5. ASSUME NEW s \in SUBSET (1..n)
      PROVE  g[s] = IF s = {} THEN 0 ELSE g[s \ {Max(s)}] + parts[Max(s)]
  <2>1. CASE s = {}
    BY <1>4, <2>1 DEF Walked
  <2>2. CASE s # {}
    <3>1. PICK x \in s : x = Max(s)
      BY <2>2, LastOf
    <3>2. s \ {x} \in SUBSET (1..n) /\ x \in 1..n
      OBVIOUS
    <3>3. g[s] = step[x][g[s \ {x}]] /\ g[s \ {x}] \in Nat
      BY <1>4, <2>2, <3>1, <3>2 DEF Walked
    <3> QED
      BY <1>3, <2>2, <3>1, <3>2, <3>3
  <2> QED
    BY <2>1, <2>2
<1>6. g = Steps(g)
  BY <1>2, <1>4, <1>5
<1>7. PICK f : f = (CHOOSE k : k = Steps(k))
  OBVIOUS
<1>8. f = Steps(f)
  <2> HIDE DEF Steps
  <2> QED
    BY <1>6, <1>7
<1>9. \A s \in SUBSET (1..n) : f[s] = IF s = {} THEN 0 ELSE f[s \ {Max(s)}] + parts[Max(s)]
  BY <1>2, <1>8
<1> HIDE DEF Steps
<1>10. PICK h : h = [k \in 0..n |-> f[1..k]]
  OBVIOUS
<1>11. h[0] = 0
  <2>1. 1..0 = {} /\ 0 \in 0..n /\ {} \in SUBSET (1..n)
    BY UpTo
  <2> QED
    BY <1>9, <1>10, <2>1
<1>12. ASSUME NEW k \in 1..n PROVE h[k] = h[k - 1] + parts[k]
  <2>1. Max(1..k) = k /\ (1..k) \ {k} = 1..(k - 1) /\ 1..k # {}
        /\ 1..k \in SUBSET (1..n) /\ k \in 0..n /\ k - 1 \in 0..n
    BY UpTo
  <2>2. h[k] = f[1..k] /\ h[k - 1] = f[1..(k - 1)]
    BY <1>10, <2>1
  <2> QED
    BY <1>9, <2>1, <2>2
<1>13. \A k \in 0..n : h[k] \in Nat
  <2>1. PICK X : X = Nat
    OBVIOUS
  <2>2. h[0] \in X /\ \A k \in 1..n : h[k - 1] \in X => h[k] \in X
    BY <1>2, <1>11, <1>12, <2>1
  <2>3. \A k \in 0..n : h[k] \in X
    BY <2>2, WalkStays
  <2> QED
    BY <2>1, <2>3
<1>14. Sum(parts) = h[n]
  <2>1. n \in 0..n
    OBVIOUS
  <2>2. h[n] = f[1..n]
    BY <1>10, <2>1
  <2> QED
    BY <1>1, <1>2, <1>7, <2>2
<1> QED
  BY <1>11, <1>12, <1>13, <1>14 DEF Counts

\* The characters of a line of one word, and of one word more.
LEMMA LineGrows ==
  ASSUME NEW words \in Seq(Nat), NEW w \in Nat
  PROVE  /\ LineChars(words) \in Int /\ LineChars(<<w>>) = w
         /\ LineChars(Append(words, w)) = LineChars(words) + 1 + w
<1>1. PICK n \in Nat : n = Len(words)
  BY LenProperties
<1>2. PICK h : Counts(h, n, words) /\ Sum(words) = h[n]
  BY <1>1, SumWalk
<1>3. PICK x \in Nat : x = h[n] /\ LineChars(words) = x + n - 1
  BY <1>1, <1>2, UpTo DEF Counts, LineChars
<1>4. LineChars(<<w>>) = w
  <2>1. PICK s : s = <<w>>
    OBVIOUS
  <2>2. s \in Seq(Nat) /\ Len(s) = 1 /\ s[1] = w
    BY <2>1
  <2>3. PICK k : Counts(k, 1, s) /\ Sum(s) = k[1]
    BY <2>2, SumWalk
  <2>4. k[1] = 0 + w
    <3>1. 1 \in 1..1 /\ 1 - 1 = 0
      OBVIOUS
    <3> QED
      BY <2>2, <2>3, <3>1 DEF Counts
  <2> QED
    BY <2>1, <2>2, <2>3, <2>4 DEF LineChars
<1>5. LineChars(Append(words, w)) = LineChars(words) + 1 + w
  <2>1. PICK s : s = Append(words, w)
    OBVIOUS
  <2>2. PICK m \in Nat : m = n + 1
    OBVIOUS
  <2>3. s \in Seq(Nat) /\ Len(s) = m /\ s[m] = w /\ \A i \in 1..n : s[i] = words[i]
    BY <1>1, <2>1, <2>2, AppendProperties
  <2>4. PICK k : Counts(k, m, s) /\ Sum(s) = k[m]
    BY <2>3, SumWalk
  <2>5. k[n] = h[n]
    <3>1. n <= m
      BY <2>2
    <3> QED
      BY <1>2, <2>3, <2>4, <3>1, CountsAgree
  <2>6. k[m] = k[n] + w
    <3>1. m \in 1..m /\ m - 1 = n
      BY <2>2
    <3> QED
      BY <2>3, <2>4, <3>1 DEF Counts
  <2>7. PICK y : y = Sum(s)
    OBVIOUS
  <2>8. y = x + w
    BY <1>3, <2>4, <2>5, <2>6, <2>7
  <2>9. LineChars(s) = y + m - 1
    BY <2>3, <2>7 DEF LineChars
  <2>10. (x + w) + m - 1 = (x + n - 1) + 1 + w
    BY <2>2
  <2> QED
    BY <1>3, <2>1, <2>8, <2>9, <2>10
<1> QED
  BY <1>3, <1>4, <1>5

\* A part of a line is no longer than the line.
LEMMA LinePart ==
  ASSUME NEW words \in Seq(Nat), NEW k \in 0..Len(words), NEW l \in k..Len(words)
  PROVE  LineChars(SubSeq(words, k + 1, l)) <= LineChars(words)
<1>1. PICK n \in Nat : n = Len(words)
  BY LenProperties
<1>2. k \in Nat /\ l \in Nat /\ k <= l /\ l <= n
  BY <1>1
<1>3. PICK h : Counts(h, n, words) /\ Sum(words) = h[n]
  BY <1>1, SumWalk
<1>4. \A i \in 1..n : words[i] \in Nat
  BY <1>1, LenProperties
<1>5. \A i \in k..n : h[i] - h[k] \in Nat
  <2> SUFFICES ASSUME NEW i \in k..n PROVE h[i] - h[k] \in Nat
    OBVIOUS
  <2>1. k \in 0..n
    BY <1>2
  <2>2. h[k] \in Nat /\ h[i] \in Nat /\ h[k] <= h[i]
    BY <1>3, <1>4, <2>1, CountsRise
  <2> QED
    BY <2>2
<1>6. PICK p : p = SubSeq(words, k + 1, l)
  OBVIOUS
<1>7. PICK m \in Nat : m = l - k
  BY <1>2
<1>8. p \in Seq(Nat) /\ Len(p) = m /\ \A i \in 1..m : p[i] = words[k + i]
  BY <1>6, <1>7, Piece
<1>9. PICK g : Counts(g, m, p) /\ Sum(p) = g[m]
  BY <1>8, SumWalk
<1>10. PICK e : e = [i \in 0..m |-> h[k + i] - h[k]]
  OBVIOUS
<1>11. Counts(e, m, p)
  <2>1. \A i \in 0..m : k + i \in k..n
    BY <1>2, <1>7
  <2>2. \A i \in 0..m : e[i] \in Nat
    BY <1>5, <1>10, <2>1
  <2>3. e[0] = 0
    <3>1. 0 \in 0..m /\ k + 0 = k /\ k \in 0..n
      BY <1>2
    <3>2. h[k] \in Nat
      BY <1>3, <3>1 DEF Counts
    <3> QED
      BY <1>10, <3>1, <3>2
  <2>4. ASSUME NEW i \in 1..m PROVE e[i] = e[i - 1] + p[i]
    <3>1. PICK a : a = k + (i - 1)
      OBVIOUS
    <3>2. a \in 0..(n - 1) /\ a + 1 = k + i /\ i \in 0..m /\ i - 1 \in 0..m /\ k \in 0..n
      BY <1>2, <1>7, <3>1
    <3>3. h[a] \in Nat /\ h[a + 1] \in Nat /\ h[a + 1] = h[a] + words[a + 1]
      BY <1>3, <3>2, CountsStep
    <3>4. h[k] \in Nat /\ words[k + i] \in Nat
      BY <1>2, <1>3, <1>4, <1>7, <3>2 DEF Counts
    <3>5. e[i] = h[a + 1] - h[k] /\ e[i - 1] = h[a] - h[k] /\ p[i] = words[a + 1]
      BY <1>8, <1>10, <3>1, <3>2
    <3>6. PICK x, y, w \in Nat : x = h[a] /\ y = h[k] /\ w = words[a + 1]
      BY <3>2, <3>3, <3>4
    <3>7. (x + w) - y = (x - y) + w
      OBVIOUS
    <3> QED
      BY <3>3, <3>5, <3>6, <3>7
  <2> QED
    BY <2>2, <2>3, <2>4 DEF Counts
<1>12. g[m] = e[m]
  <2>1. m <= m
    OBVIOUS
  <2> QED
    BY <1>9, <1>11, <2>1, CountsAgree
<1>13. PICK x, y, z \in Nat : x = h[k] /\ y = h[l] /\ z = h[n] /\ y <= z
  <2>1. k \in 0..n /\ l \in 0..n /\ n \in l..n
    BY <1>2
  <2>2. h[k] \in Nat
    BY <1>3, <2>1 DEF Counts
  <2>3. h[l] \in Nat /\ h[n] \in Nat /\ h[l] <= h[n]
    BY <1>3, <1>4, <2>1, CountsRise
  <2> QED
    BY <2>2, <2>3
<1>14. PICK a : a = Sum(p)
  OBVIOUS
<1>15. a = y - x
  <2>1. m \in 0..m /\ k + m = l
    BY <1>2, <1>7
  <2>2. e[m] = y - x
    BY <1>10, <1>13, <2>1
  <2> QED
    BY <1>9, <1>12, <1>14, <2>2
<1>16. LineChars(p) = a + m - 1
  BY <1>8, <1>14 DEF LineChars
<1>17. PICK c : c = Sum(words)
  OBVIOUS
<1>18. LineChars(words) = c + n - 1
  BY <1>1, <1>17 DEF LineChars
<1>19. c = z
  BY <1>3, <1>13, <1>17
<1>20. a \in Int /\ c \in Int /\ a <= c /\ m <= n
  BY <1>2, <1>7, <1>13, <1>15, <1>19, SMTT(30)
<1>21. a + m - 1 <= c + n - 1
  BY <1>20
<1> QED
  BY <1>6, <1>16, <1>18, <1>21

\* One step of the fold that puts the words in chunks.
ChunkStep(chunks, w) ==
  IF chunks = <<>> \/ LineChars(chunks[Len(chunks)]) + 1 + w > 42 THEN Append(chunks, <<w>>)
  ELSE [chunks EXCEPT ![Len(chunks)] = Append(@, w)]

\* A word joins the last chunk or begins one.
LEMMA ChunksTyped ==
  ASSUME NEW chunks \in Seq(Seq(Nat)), NEW w \in Nat
  PROVE  ChunkStep(chunks, w) \in Seq(Seq(Nat))
<1>1. PICK X : X = Seq(Nat)
  OBVIOUS
<1>2. chunks \in Seq(X) /\ <<w>> \in X
  BY <1>1
<1>3. CASE chunks = <<>> \/ LineChars(chunks[Len(chunks)]) + 1 + w > 42
  <2>1. PICK e \in X : e = <<w>>
    BY <1>2
  <2>2. Append(chunks, e) \in Seq(X)
    BY <1>2, AppendProperties
  <2>3. ChunkStep(chunks, w) = Append(chunks, e)
    BY <1>3, <2>1 DEF ChunkStep
  <2> QED
    BY <1>1, <2>2, <2>3
<1>4. CASE ~(chunks = <<>> \/ LineChars(chunks[Len(chunks)]) + 1 + w > 42)
  <2>1. PICK m \in 1..Len(chunks) : m = Len(chunks)
    BY <1>2, <1>4, EmptySeq, LenProperties
  <2>2. chunks[m] \in X
    BY <1>2
  <2>3. PICK e \in X : e = Append(chunks[m], w)
    BY <1>1, <2>2, AppendProperties
  <2>4. [chunks EXCEPT ![m] = e] \in Seq(X)
    BY <1>2, ExceptSeq
  <2>5. ChunkStep(chunks, w) = [chunks EXCEPT ![m] = e]
    BY <1>4, <2>1, <2>3 DEF ChunkStep
  <2> QED
    BY <1>1, <2>4, <2>5
<1> QED
  BY <1>3, <1>4

\* The fold that puts the words in chunks.
LEMMA ChunksWalk ==
  ASSUME NEW words \in Seq(Nat), NEW n \in Nat, n = Len(words)
  PROVE  \E h : /\ h[0] = <<>> /\ Chunks(words) = h[n]
                /\ \A k \in 1..n : h[k] = ChunkStep(h[k - 1], words[k])
<1> DEFINE Steps(g) ==
      [s \in SUBSET (DOMAIN words) |->
         IF s = {} THEN <<>> ELSE ChunkStep(g[s \ {Max(s)}], words[Max(s)])]
<1>1. Chunks(words) = (CHOOSE g : g = Steps(g))[DOMAIN words]
  BY DEF Chunks, ChunkStep, FoldLeft, MapThenFoldSet
<1>2. DOMAIN words = 1..n /\ \A k \in 1..n : words[k] \in Nat
  BY LenProperties
<1>3. PICK X : X = Seq(Seq(Nat))
  OBVIOUS
<1>4. PICK step : step = [k \in 1..n |-> [x \in X |-> ChunkStep(x, words[k])]]
  OBVIOUS
<1>5. PICK g \in [SUBSET (1..n) -> X] : Walked(g, n, <<>>, step)
  <2>1. \A k \in 1..n, x \in X : ChunkStep(x, words[k]) \in X
    BY <1>2, <1>3, ChunksTyped
  <2>2. step \in [1..n -> [X -> X]]
    BY <1>4, <2>1
  <2>3. <<>> \in X
    BY <1>3
  <2> QED
    BY <2>2, <2>3, WalkExists
<1>6. ASSUME NEW s \in SUBSET (1..n)
      PROVE  g[s] = IF s = {} THEN <<>> ELSE ChunkStep(g[s \ {Max(s)}], words[Max(s)])
  <2>1. CASE s = {}
    BY <1>5, <2>1 DEF Walked
  <2>2. CASE s # {}
    <3>1. PICK x \in s : x = Max(s)
      BY <2>2, LastOf
    <3>2. s \ {x} \in SUBSET (1..n) /\ x \in 1..n
      OBVIOUS
    <3>3. g[s] = step[x][g[s \ {x}]] /\ g[s \ {x}] \in X
      BY <1>5, <2>2, <3>1, <3>2 DEF Walked
    <3> QED
      BY <1>4, <2>2, <3>1, <3>2, <3>3
  <2> QED
    BY <2>1, <2>2
<1>7. g = Steps(g)
  BY <1>2, <1>5, <1>6
<1>8. PICK f : f = (CHOOSE k : k = Steps(k))
  OBVIOUS
<1>9. f = Steps(f)
  <2> HIDE DEF Steps
  <2> QED
    BY <1>7, <1>8
<1>10. \A s \in SUBSET (1..n) :
         f[s] = IF s = {} THEN <<>> ELSE ChunkStep(f[s \ {Max(s)}], words[Max(s)])
  BY <1>2, <1>9
<1> HIDE DEF Steps
<1>11. PICK h : h = [k \in 0..n |-> f[1..k]]
  OBVIOUS
<1>12. h[0] = <<>>
  <2>1. 1..0 = {} /\ 0 \in 0..n /\ {} \in SUBSET (1..n)
    BY UpTo
  <2> QED
    BY <1>10, <1>11, <2>1
<1>13. ASSUME NEW k \in 1..n PROVE h[k] = ChunkStep(h[k - 1], words[k])
  <2>1. Max(1..k) = k /\ (1..k) \ {k} = 1..(k - 1) /\ 1..k # {}
        /\ 1..k \in SUBSET (1..n) /\ k \in 0..n /\ k - 1 \in 0..n
    BY UpTo
  <2>2. h[k] = f[1..k] /\ h[k - 1] = f[1..(k - 1)]
    BY <1>11, <2>1
  <2> QED
    BY <1>10, <2>1, <2>2
<1>14. Chunks(words) = h[n]
  <2>1. n \in 0..n
    OBVIOUS
  <2>2. h[n] = f[1..n]
    BY <1>11, <2>1
  <2> QED
    BY <1>1, <1>2, <1>8, <2>2
<1> QED
  BY <1>12, <1>13, <1>14

\* A chunk that makes a cue: one word, or a line of words.
Lines == {g \in Seq(Nat) : Len(g) > 1 => LineChars(g) <= 42}
FineChunks == {g \in Lines : g # <<>>}

\* The chunks of a story's words are the words, cut at some bounds, each chunk fine.
LEMMA ChunksTile ==
  ASSUME NEW words \in Seq(Nat)
  PROVE  \E b : Tiles(Chunks(words), words, b, Len(words), FineChunks)
<1>1. PICK n \in Nat : n = Len(words)
  BY LenProperties
<1>2. PICK h : /\ h[0] = <<>> /\ Chunks(words) = h[n]
               /\ \A k \in 1..n : h[k] = ChunkStep(h[k - 1], words[k])
  BY <1>1, ChunksWalk
<1>3. \A w \in Nat : <<w>> \in FineChunks
  BY DEF FineChunks, Lines
<1>4. ASSUME NEW k \in 1..n PROVE Grows(h[k - 1], h[k], words[k], FineChunks)
  <2>1. PICK g, w : g = h[k - 1] /\ w = words[k]
    OBVIOUS
  <2>2. h[k] = ChunkStep(g, w) /\ w \in Nat
    BY <1>1, <1>2, <2>1, LenProperties
  <2>3. CASE g = <<>> \/ LineChars(g[Len(g)]) + 1 + w > 42
    BY <2>1, <2>2, <2>3 DEF ChunkStep, Grows
  <2>4. CASE g # <<>> /\ ~(LineChars(g[Len(g)]) + 1 + w > 42)
    <3>1. h[k] = [g EXCEPT ![Len(g)] = Append(g[Len(g)], w)]
      BY <2>2, <2>4 DEF ChunkStep
    <3>2. PICK e : e = g[Len(g)]
      OBVIOUS
    <3>3. ASSUME e \in Seq(Nat) PROVE Append(e, w) \in FineChunks
      <4>1. PICK x \in Int : x = LineChars(e) /\ LineChars(Append(e, w)) = x + 1 + w
        BY <2>2, <3>3, LineGrows
      <4>2. ~(x + 1 + w > 42)
        BY <2>4, <3>2, <4>1
      <4>3. Append(e, w) \in Seq(Nat) /\ Append(e, w) # <<>>
        BY <2>2, <3>3
      <4>4. x + 1 + w <= 42
        BY <2>2, <4>2
      <4> QED
        BY <4>1, <4>3, <4>4 DEF FineChunks, Lines
    <3> QED
      BY <2>1, <2>4, <3>1, <3>2, <3>3 DEF Grows
  <2> QED
    BY <2>3, <2>4
<1>5. \E b : Tiles(h[n], words, b, n, FineChunks)
  <2>1. PICK Fine : Fine = FineChunks
    OBVIOUS
  <2>2. (\A w \in Nat : <<w>> \in Fine) /\ \A k \in 1..n : Grows(h[k - 1], h[k], words[k], Fine)
    BY <1>3, <1>4, <2>1
  <2>3. \E b : Tiles(h[n], words, b, n, Fine)
    BY <1>1, <1>2, <2>2, GroupsTile
  <2> QED
    BY <2>1, <2>3
<1> QED
  BY <1>1, <1>2, <1>5

\* The cues of a story.
StoryCueSet == [words : Seq(Nat), start : Nat, end : Nat]
WordsOf(cues) == [j \in DOMAIN cues |-> cues[j].words]

\* When the last of some cues ends, and when none has begun.
EndOf(cues, start) == IF cues = <<>> THEN start ELSE cues[Len(cues)].end
Linked(cues, start) ==
  \A j \in 1..Len(cues) :
    cues[j].start <= cues[j].end /\ cues[j].start = IF j = 1 THEN start ELSE cues[j - 1].end

\* The cues are the words up to the k-th, one after the other in lines and in time.
Covered(cues, words, k, start) ==
  /\ cues \in Seq(StoryCueSet) /\ Linked(cues, start)
  /\ \E c : Tiles(WordsOf(cues), words, c, k, Lines)

\* Some cues that are the words up to the k-th and last until e.
Reaches(cues, words, k, start, e) ==
  Covered(cues, words, k, start) /\ EndOf(cues, start) = e /\ cues # <<>>

\* A piece of the words as the next cue, until e.
Added(cues, piece, start, e) == Append(cues, Cue(piece, EndOf(cues, start), e))

\* One cue more.
LEMMA CueAdded ==
  ASSUME NEW words \in Seq(Nat), NEW k \in 0..Len(words), NEW l \in k..Len(words),
         NEW start \in Nat, NEW cues, Covered(cues, words, k, start),
         NEW line \in Lines, line = SubSeq(words, k + 1, l),
         NEW e \in Nat, EndOf(cues, start) <= e
  PROVE  Reaches(Added(cues, line, start, e), words, l, start, e)
<1> DEFINE r == Added(cues, line, start, e)
<1>1. PICK m \in Nat : m = Len(cues)
  BY LenProperties DEF Covered
<1>2. cues \in Seq(StoryCueSet) /\ DOMAIN cues = 1..m /\ Linked(cues, start)
      /\ \A j \in 1..m : cues[j] \in StoryCueSet
  BY <1>1, LenProperties DEF Covered
<1>3. PICK from \in Nat : from = EndOf(cues, start) /\ from <= e
  <2>1. CASE cues = <<>>
    BY <2>1 DEF EndOf
  <2>2. CASE cues # <<>>
    <3>1. m \in 1..m
      BY <1>1, <1>2, <2>2, EmptySeq
    <3>2. cues[m] \in StoryCueSet
      BY <1>2, <3>1
    <3>3. cues[m].end \in Nat
      BY <3>2 DEF StoryCueSet
    <3> QED
      BY <1>1, <2>2, <3>3 DEF EndOf
  <2> QED
    BY <2>1, <2>2
<1>4. PICK piece \in Seq(Nat) : piece = SubSeq(words, k + 1, l)
  BY Piece
<1>5. PICK cue : cue = Cue(piece, from, e)
  OBVIOUS
<1>6. cue \in StoryCueSet /\ cue.words = piece /\ cue.start = from /\ cue.end = e
  BY <1>5 DEF Cue, StoryCueSet
<1>7. r = Append(cues, cue)
  BY <1>3, <1>4, <1>5 DEF Added
<1> HIDE DEF r
<1>8. /\ r \in Seq(StoryCueSet) /\ Len(r) = m + 1 /\ DOMAIN r = 1..(m + 1) /\ r[m + 1] = cue
      /\ \A j \in 1..m : r[j] = cues[j]
  <2>1. PICK X : X = StoryCueSet
    OBVIOUS
  <2>2. cues \in Seq(X) /\ cue \in X
    BY <1>2, <1>6, <2>1
  <2>3. r \in Seq(X) /\ Len(r) = m + 1 /\ r[m + 1] = cue /\ \A j \in 1..m : r[j] = cues[j]
    BY <1>1, <1>7, <2>2, AppendProperties
  <2>4. DOMAIN r = 1..(m + 1)
    BY <2>3, LenProperties
  <2> QED
    BY <2>1, <2>3, <2>4
<1>9. r # <<>> /\ EndOf(r, start) = e
  <2>1. r # <<>>
    BY <1>8
  <2> QED
    BY <1>6, <1>8, <2>1 DEF EndOf
<1>10. Linked(r, start)
  <2> SUFFICES ASSUME NEW j \in 1..(m + 1)
               PROVE  /\ r[j].start <= r[j].end
                      /\ r[j].start = IF j = 1 THEN start ELSE r[j - 1].end
    BY <1>8 DEF Linked
  <2>1. CASE j = m + 1
    <3>1. r[j].start = from /\ r[j].end = e
      BY <1>6, <1>8, <2>1
    <3>2. CASE m = 0
      <4>1. cues = <<>>
        BY <1>1, <1>2, <3>2
      <4>2. from = start
        BY <1>3, <4>1 DEF EndOf
      <4> QED
        BY <1>3, <2>1, <3>1, <3>2, <4>2
    <3>3. CASE m # 0
      <4>1. cues # <<>> /\ m \in 1..m /\ j - 1 = m /\ j # 1
        BY <1>1, <2>1, <3>3
      <4>2. from = cues[m].end /\ r[m] = cues[m]
        BY <1>1, <1>3, <1>8, <4>1 DEF EndOf
      <4> QED
        BY <1>3, <3>1, <4>1, <4>2
    <3> QED
      BY <3>2, <3>3
  <2>2. CASE j \in 1..m
    <3>1. cues[j].start <= cues[j].end /\ cues[j].start = IF j = 1 THEN start ELSE cues[j - 1].end
      BY <1>1, <1>2, <2>2 DEF Linked
    <3>2. r[j] = cues[j] /\ (j # 1 => r[j - 1] = cues[j - 1])
      <4>1. j # 1 => j - 1 \in 1..m
        BY <2>2
      <4> QED
        BY <1>8, <2>2, <4>1
    <3> QED
      BY <3>1, <3>2
  <2>3. j = m + 1 \/ j \in 1..m
    OBVIOUS
  <2> QED
    BY <2>1, <2>2, <2>3
<1>11. WordsOf(r) = Append(WordsOf(cues), piece)
  <2>1. PICK ws : ws = WordsOf(cues)
    OBVIOUS
  <2>2. ws \in Seq(Seq(Nat))
    BY <2>1 DEF Covered, Tiles
  <2>3. ws = [j \in 1..m |-> cues[j].words]
    BY <1>2, <2>1 DEF WordsOf
  <2>4. Len(ws) = m
    BY <2>3
  <2>5. PICK vs : vs = WordsOf(r)
    OBVIOUS
  <2>6. vs = [j \in 1..(m + 1) |-> r[j].words]
    BY <1>8, <2>5 DEF WordsOf
  <2>7. PICK us : us = Append(ws, piece)
    OBVIOUS
  <2>8. us \in Seq(Seq(Nat)) /\ Len(us) = m + 1 /\ us[m + 1] = piece /\ \A j \in 1..m : us[j] = ws[j]
    <3>1. PICK X : X = Seq(Nat)
      OBVIOUS
    <3>2. ws \in Seq(X) /\ piece \in X
      BY <2>2, <3>1
    <3>3. us \in Seq(X) /\ Len(us) = m + 1 /\ us[m + 1] = piece /\ \A j \in 1..m : us[j] = ws[j]
      BY <2>4, <2>7, <3>2, AppendProperties, SMTT(30)
    <3> QED
      BY <3>1, <3>3
  <2>9. us = [j \in 1..(m + 1) |-> us[j]]
    BY <2>8
  <2>10. ASSUME NEW j \in 1..(m + 1) PROVE us[j] = vs[j]
    <3>1. CASE j = m + 1
      BY <1>6, <1>8, <2>6, <2>8, <3>1
    <3>2. CASE j \in 1..m
      BY <1>8, <2>3, <2>6, <2>8, <3>2
    <3> QED
      BY <3>1, <3>2
  <2>11. us = vs
    BY <2>6, <2>9, <2>10
  <2> QED
    BY <2>1, <2>5, <2>7, <2>11
<1>12. \E c : Tiles(WordsOf(r), words, c, l, Lines)
  <2>1. PICK c : Tiles(WordsOf(cues), words, c, k, Lines)
    BY DEF Covered
  <2>2. \E d : Tiles(Append(WordsOf(cues), SubSeq(words, k + 1, l)), words, d, l, Lines)
    BY <2>1, TilesMore
  <2> QED
    BY <1>4, <1>11, <2>2
<1> QED
  <2>1. Covered(r, words, l, start)
    BY <1>8, <1>10, <1>12 DEF Covered
  <2> QED
    BY <1>9, <2>1 DEF Reaches, r

\* A piece of a piece.
LEMMA PieceOfPiece ==
  ASSUME NEW words \in Seq(Nat), NEW k \in 0..Len(words), NEW l \in k..Len(words),
         NEW i \in 0..(l - k), NEW j \in i..(l - k)
  PROVE  SubSeq(SubSeq(words, k + 1, l), i + 1, j) = SubSeq(words, (k + i) + 1, k + j)
<1>1. PICK n \in Nat : n = Len(words)
  BY LenProperties
<1>2. k \in Nat /\ l \in Nat /\ i \in Nat /\ j \in Nat /\ k <= l /\ l <= n /\ i <= j /\ j <= l - k
  BY <1>1
<1>3. PICK p : p = SubSeq(words, k + 1, l)
  OBVIOUS
<1>4. p \in Seq(Nat) /\ Len(p) = l - k /\ \A x \in 1..(l - k) : p[x] = words[k + x]
  BY <1>3, Piece
<1>5. PICK q : q = SubSeq(p, i + 1, j)
  OBVIOUS
<1>6. q \in Seq(Nat) /\ Len(q) = j - i /\ \A x \in 1..(j - i) : q[x] = p[i + x]
  <2>1. i \in 0..Len(p) /\ j \in i..Len(p)
    BY <1>4
  <2> QED
    BY <1>4, <1>5, <2>1, Piece
<1>7. PICK r : r = SubSeq(words, (k + i) + 1, k + j)
  OBVIOUS
<1>8. r \in Seq(Nat) /\ Len(r) = (k + j) - (k + i)
      /\ \A x \in 1..((k + j) - (k + i)) : r[x] = words[(k + i) + x]
  <2>1. k + i \in 0..Len(words) /\ k + j \in (k + i)..Len(words)
    BY <1>1, <1>2
  <2> QED
    BY <1>7, <2>1, Piece
<1>9. (k + j) - (k + i) = j - i
  BY <1>2
<1>10. \A x \in 1..(j - i) : q[x] = r[x]
  <2> SUFFICES ASSUME NEW x \in 1..(j - i) PROVE q[x] = r[x]
    OBVIOUS
  <2>1. i + x \in 1..(l - k) /\ k + (i + x) = (k + i) + x
    BY <1>2
  <2>2. q[x] = p[i + x] /\ p[i + x] = words[k + (i + x)]
    BY <1>4, <1>6, <2>1
  <2>3. r[x] = words[(k + i) + x]
    BY <1>8, <1>9
  <2> QED
    BY <2>1, <2>2, <2>3
<1>11. q = r
  BY <1>6, <1>8, <1>9, <1>10, SeqEqual
<1> QED
  BY <1>3, <1>5, <1>7, <1>11

\* The cues of a chunk after those before it: one, or two halves.
Spoken(cues, chunk, from, e) ==
  cues \o (IF e > from + 7000 THEN Halved(chunk, from, e) ELSE <<Cue(chunk, from, e)>>)

\* One cue after others.
LEMMA OneSpoken ==
  ASSUME NEW X, NEW cues \in Seq(X), NEW cue \in X
  PROVE  cues \o <<cue>> = Append(cues, cue)
BY AppendIsConcat

\* Two cues after others.
LEMMA TwoSpoken ==
  ASSUME NEW X, NEW cues \in Seq(X), NEW c \in X, NEW d \in X,
         NEW v, v = <<c, d>>
  PROVE  cues \o v = Append(Append(cues, c), d)
<1>1. PICK t : t = Append(cues, c)
  OBVIOUS
<1>2. PICK u : u = Append(t, d)
  OBVIOUS
<1>4. PICK w : w = cues \o v
  OBVIOUS
<1>5. PICK n \in Nat : n = Len(cues)
  BY LenProperties
<1>6. t \in Seq(X) /\ Len(t) = n + 1 /\ t[n + 1] = c /\ \A i \in 1..n : t[i] = cues[i]
  BY <1>1, <1>5, AppendProperties
<1>7. PICK m \in Nat : m = n + 1
  OBVIOUS
<1>8. u \in Seq(X) /\ Len(u) = m + 1 /\ u[m + 1] = d /\ \A i \in 1..m : u[i] = t[i]
  <2>1. t \in Seq(X) /\ Len(t) = m
    BY <1>6, <1>7
  <2> QED
    BY <1>2, <2>1, AppendProperties
<1>9. v \in Seq(X) /\ Len(v) = 2 /\ v[1] = c /\ v[2] = d
  OBVIOUS
<1>10. w \in Seq(X) /\ Len(w) = n + 2
       /\ \A i \in 1..(n + 2) : w[i] = IF i <= n THEN cues[i] ELSE v[i - n]
  <2>1. w \in Seq(X) /\ Len(w) = Len(cues) + Len(v)
        /\ \A i \in 1..(Len(cues) + Len(v)) :
             w[i] = IF i <= Len(cues) THEN cues[i] ELSE v[i - Len(cues)]
    BY <1>4, <1>9, ConcatProperties
  <2> QED
    BY <1>5, <1>9, <2>1
<1>11. Len(u) = Len(w)
  BY <1>7, <1>8, <1>10
<1>12. ASSUME NEW i \in 1..(n + 2) PROVE u[i] = w[i]
  <2>1. CASE i = n + 2
    <3>1. i = m + 1 /\ ~(i <= n) /\ i - n = 2
      BY <1>7, <2>1
    <3> QED
      BY <1>8, <1>9, <1>10, <3>1
  <2>2. CASE i = n + 1
    <3>1. i \in 1..m /\ ~(i <= n) /\ i - n = 1
      BY <1>7, <2>2
    <3> QED
      BY <1>6, <1>8, <1>9, <1>10, <2>2, <3>1
  <2>3. CASE i \in 1..n
    <3>1. i \in 1..m /\ i <= n
      BY <1>7, <2>3
    <3> QED
      BY <1>6, <1>8, <1>10, <2>3, <3>1
  <2>4. i = n + 2 \/ i = n + 1 \/ i \in 1..n
    OBVIOUS
  <2> QED
    BY <2>1, <2>2, <2>3, <2>4
<1>13. u = w
  BY <1>8, <1>10, <1>11, <1>12, SeqEqual
<1> QED
  BY <1>1, <1>2, <1>4, <1>13

\* A chunk of words more, in one cue or in two.
LEMMA ChunkAdded ==
  ASSUME NEW words \in Seq(Nat), NEW k \in 0..Len(words), NEW l \in k..Len(words),
         NEW start \in Nat, NEW cues, Covered(cues, words, k, start),
         NEW chunk \in Lines, chunk = SubSeq(words, k + 1, l),
         NEW from \in Nat, from = EndOf(cues, start), NEW e \in Nat, from <= e
  PROVE  Reaches(Spoken(cues, chunk, from, e), words, l, start, e)
<1>1. PICK n \in Nat : n = Len(words)
  BY LenProperties
<1>2. k \in Nat /\ l \in Nat /\ k <= l /\ l <= n
  BY <1>1
<1>3. chunk \in Seq(Nat) /\ Len(chunk) = l - k /\ (Len(chunk) > 1 => LineChars(chunk) <= 42)
  BY Piece DEF Lines
<1>4. PICK X : X = StoryCueSet
  OBVIOUS
<1>5. cues \in Seq(X)
  BY <1>4 DEF Covered
<1>6. CASE ~(e > from + 7000)
  <2>1. PICK cue : cue = Cue(chunk, from, e)
    OBVIOUS
  <2>2. cue \in X
    BY <1>3, <1>4, <2>1 DEF Cue, StoryCueSet
  <2>3. PICK w : w = Append(cues, cue)
    OBVIOUS
  <2>4. Spoken(cues, chunk, from, e) = w
    <3>1. Spoken(cues, chunk, from, e) = cues \o <<cue>>
      BY <1>6, <2>1, SMTT(30) DEF Spoken
    <3>2. cues \o <<cue>> = w
      BY <1>5, <2>2, <2>3, OneSpoken
    <3> QED
      BY <3>1, <3>2
  <2>5. Added(cues, chunk, start, e) = w
    BY <2>1, <2>3 DEF Added
  <2>6. Reaches(Added(cues, chunk, start, e), words, l, start, e)
    BY CueAdded
  <2> QED
    BY <2>4, <2>5, <2>6
<1>7. CASE e > from + 7000
  <2>1. PICK half \in Nat : half = (Len(chunk) + 1) \div 2 /\ half <= l - k
    <3>1. PICK c \in Nat : c = l - k
      BY <1>2
    <3>2. (c + 1) \div 2 \in Nat /\ (c + 1) \div 2 <= c
      OBVIOUS
    <3> QED
      BY <1>3, <3>1, <3>2
  <2>2. PICK middle \in Nat : middle = from + (e - from + 1) \div 2 /\ from <= middle /\ middle <= e
    <3>1. PICK c \in Nat : e = from + c
      <4>1. e - from \in Nat /\ e = from + (e - from)
        OBVIOUS
      <4> QED
        BY <4>1
    <3>2. PICK d \in Nat : d = (c + 1) \div 2 /\ d <= c
      <4>1. c > 0
        BY <1>7, <3>1
      <4> QED
        BY <4>1
    <3>3. e - from = c
      BY <3>1
    <3>4. from + (e - from + 1) \div 2 = from + d
      BY <3>2, <3>3
    <3>5. from + d \in Nat /\ from <= from + d /\ from + d <= e
      BY <3>1, <3>2
    <3> QED
      BY <3>4, <3>5
  <2>3. PICK mid \in Nat : mid = k + half /\ mid \in k..Len(words) /\ mid \in 0..Len(words) /\ l \in mid..Len(words)
    BY <1>1, <1>2, <2>1
  <2>4. PICK p : p = SubSeq(chunk, 1, half)
    OBVIOUS
  <2>5. PICK q : q = SubSeq(chunk, half + 1, Len(chunk))
    OBVIOUS
  <2>6. p = SubSeq(words, k + 1, mid)
    <3>1. 0 \in 0..(l - k) /\ half \in 0..(l - k) /\ 0 + 1 = 1 /\ (k + 0) + 1 = k + 1
      BY <1>2, <2>1
    <3>2. SubSeq(SubSeq(words, k + 1, l), 0 + 1, half) = SubSeq(words, (k + 0) + 1, k + half)
      BY <3>1, PieceOfPiece
    <3> QED
      BY <2>3, <2>4, <3>1, <3>2
  <2>7. q = SubSeq(words, mid + 1, l)
    <3>1. half \in 0..(l - k) /\ l - k \in half..(l - k) /\ k + (l - k) = l
      BY <1>2, <2>1
    <3>2. SubSeq(SubSeq(words, k + 1, l), half + 1, l - k) = SubSeq(words, (k + half) + 1, k + (l - k))
      BY <3>1, PieceOfPiece
    <3> QED
      BY <1>3, <2>3, <2>5, <3>1, <3>2
  <2>8. ASSUME NEW i \in 0..Len(chunk), NEW j \in i..Len(chunk)
        PROVE  SubSeq(chunk, i + 1, j) \in Lines
    <3>1. PICK s : s = SubSeq(chunk, i + 1, j)
      OBVIOUS
    <3>2. s \in Seq(Nat) /\ Len(s) = j - i /\ LineChars(s) <= LineChars(chunk)
      BY <1>3, <3>1, Piece, LinePart
    <3>3. Len(s) > 1 => Len(chunk) > 1
      BY <1>2, <1>3, <3>2
    <3>4. LineChars(s) \in Int /\ LineChars(chunk) \in Int
      BY <1>3, <3>2, LineGrows
    <3>5. Len(s) > 1 => LineChars(s) <= 42
      <4>1. PICK x, y \in Int : x = LineChars(s) /\ y = LineChars(chunk)
        BY <3>4
      <4>2. x <= y /\ (Len(s) > 1 => y <= 42)
        BY <1>3, <3>2, <3>3, <4>1
      <4> QED
        BY <4>1, <4>2
    <3> QED
      BY <3>1, <3>2, <3>5 DEF Lines
  <2>9. p \in Lines /\ q \in Lines
    <3>1. 0 \in 0..Len(chunk) /\ half \in 0..Len(chunk) /\ Len(chunk) \in half..Len(chunk) /\ 0 + 1 = 1
      BY <1>2, <1>3, <2>1
    <3>2. SubSeq(chunk, 0 + 1, half) \in Lines
      BY <2>8, <3>1
    <3> QED
      BY <2>4, <2>5, <2>8, <3>1, <3>2
  <2>10. PICK c : c = Cue(p, from, middle)
    OBVIOUS
  <2>11. PICK d : d = Cue(q, middle, e)
    OBVIOUS
  <2>12. c \in X /\ d \in X
    BY <1>4, <2>9, <2>10, <2>11 DEF Cue, StoryCueSet, Lines
  <2>13. Halved(chunk, from, e) = <<c, d>>
    BY <2>1, <2>2, <2>4, <2>5, <2>10, <2>11 DEF Halved
  <2>14. PICK t : t = Append(cues, c)
    OBVIOUS
  <2>15. PICK w : w = Append(t, d)
    OBVIOUS
  <2>16. Spoken(cues, chunk, from, e) = w
    <3>1. PICK v : v = Halved(chunk, from, e)
      OBVIOUS
    <3>2. Spoken(cues, chunk, from, e) = cues \o v
      BY <1>7, <3>1 DEF Spoken
    <3>3. cues \o v = w
      BY <1>5, <2>12, <2>13, <2>14, <2>15, <3>1, TwoSpoken, SMTT(30)
    <3> QED
      BY <3>2, <3>3
  <2>17. Reaches(t, words, mid, start, middle)
    <3>1. Added(cues, p, start, middle) = t
      BY <2>10, <2>14 DEF Added
    <3>2. Reaches(Added(cues, p, start, middle), words, mid, start, middle)
      BY <2>2, <2>3, <2>6, <2>9, CueAdded
    <3> QED
      BY <3>1, <3>2
  <2>18. Covered(t, words, mid, start) /\ EndOf(t, start) = middle
    BY <2>17 DEF Reaches
  <2>19. Added(t, q, start, e) = w
    BY <2>11, <2>15, <2>18 DEF Added
  <2>20. Reaches(Added(t, q, start, e), words, l, start, e)
    BY <2>2, <2>3, <2>7, <2>9, <2>18, CueAdded
  <2> QED
    BY <2>16, <2>19, <2>20
<1> QED
  BY <1>6, <1>7

\* A segment of a narration that lasts some time.
StorySegment == [start : Nat, end : Nat, words : Seq(Nat) \ {<<>>}]

\* The last of some cues ends at some time.
LEMMA EndTyped ==
  ASSUME NEW cues \in Seq(StoryCueSet), NEW start \in Nat
  PROVE  EndOf(cues, start) \in Nat
<1>1. CASE cues = <<>>
  BY <1>1 DEF EndOf
<1>2. CASE cues # <<>>
  <2>1. PICK m \in Nat : m = Len(cues)
    BY LenProperties
  <2>2. m \in 1..m
    BY <1>2, <2>1, EmptySeq
  <2>3. cues[m] \in StoryCueSet
    BY <2>1, <2>2
  <2>4. cues[m].end \in Nat
    BY <2>3 DEF StoryCueSet
  <2> QED
    BY <1>2, <2>1, <2>4 DEF EndOf
<1> QED
  BY <1>1, <1>2

\* The cues of a chunk more.
LEMMA SpokenTyped ==
  ASSUME NEW cues \in Seq(StoryCueSet), NEW chunk \in Seq(Nat), NEW from \in Nat, NEW e \in Nat
  PROVE  Spoken(cues, chunk, from, e) \in Seq(StoryCueSet) /\ Spoken(cues, chunk, from, e) # <<>>
<1>1. PICK X : X = StoryCueSet
  OBVIOUS
<1>2. PICK w : w = Spoken(cues, chunk, from, e)
  OBVIOUS
<1>3. ASSUME NEW t \in Seq(X), NEW c \in X
      PROVE  Append(t, c) \in Seq(X) /\ Append(t, c) # <<>>
  <2>1. PICK u : u = Append(t, c)
    OBVIOUS
  <2>2. u \in Seq(X) /\ Len(u) = Len(t) + 1 /\ Len(t) \in Nat
    BY <2>1, AppendProperties, LenProperties
  <2>3. u # <<>>
    BY <2>2
  <2> QED
    BY <2>1, <2>2, <2>3
<1>4. CASE ~(e > from + 7000)
  <2>1. PICK cue : cue = Cue(chunk, from, e)
    OBVIOUS
  <2>2. cue \in X
    BY <1>1, <2>1 DEF Cue, StoryCueSet
  <2>3. w = cues \o <<cue>>
    BY <1>2, <1>4, <2>1 DEF Spoken
  <2>4. cues \o <<cue>> = Append(cues, cue)
    BY <1>1, <2>2, OneSpoken
  <2>5. Append(cues, cue) \in Seq(X) /\ Append(cues, cue) # <<>>
    BY <1>1, <1>3, <2>2
  <2>6. w = Append(cues, cue)
    BY <2>3, <2>4, Zenon
  <2> QED
    BY <1>1, <1>2, <2>5, <2>6, Zenon
<1>5. CASE e > from + 7000
  <2>1. PICK half \in Nat : half = (Len(chunk) + 1) \div 2 /\ half <= Len(chunk)
    <3>1. PICK c \in Nat : c = Len(chunk)
      BY LenProperties
    <3>2. (c + 1) \div 2 \in Nat /\ (c + 1) \div 2 <= c
      OBVIOUS
    <3> QED
      BY <3>1, <3>2
  <2>2. PICK middle \in Nat : middle = from + (e - from + 1) \div 2
    <3>1. e - from + 1 \in Nat
      BY <1>5
    <3>2. (e - from + 1) \div 2 \in Nat
      BY <3>1
    <3> QED
      BY <3>2
  <2>3. SubSeq(chunk, 1, half) \in Seq(Nat) /\ SubSeq(chunk, half + 1, Len(chunk)) \in Seq(Nat)
    <3>1. 0 \in 0..Len(chunk) /\ half \in 0..Len(chunk) /\ Len(chunk) \in half..Len(chunk) /\ 0 + 1 = 1
      BY <2>1, LenProperties
    <3>2. SubSeq(chunk, 0 + 1, half) \in Seq(Nat)
      BY <3>1, Piece
    <3> QED
      BY <3>1, <3>2, Piece
  <2>4. PICK c : c = Cue(SubSeq(chunk, 1, half), from, middle)
    OBVIOUS
  <2>5. PICK d : d = Cue(SubSeq(chunk, half + 1, Len(chunk)), middle, e)
    OBVIOUS
  <2>6. c \in X /\ d \in X
    BY <1>1, <2>3, <2>4, <2>5 DEF Cue, StoryCueSet
  <2>7. PICK v : v = Halved(chunk, from, e)
    OBVIOUS
  <2>8. v = <<c, d>>
    BY <2>1, <2>2, <2>4, <2>5, <2>7 DEF Halved
  <2>9. w = cues \o v
    BY <1>2, <1>5, <2>7 DEF Spoken
  <2>10. PICK t : t = Append(cues, c)
    OBVIOUS
  <2>11. t \in Seq(X)
    BY <1>1, <1>3, <2>6, <2>10
  <2>12. PICK u : u = Append(t, d)
    OBVIOUS
  <2>13. u \in Seq(X) /\ u # <<>>
    BY <1>3, <2>6, <2>11, <2>12
  <2>14. cues \o v = u
    BY <1>1, <2>6, <2>8, <2>10, <2>12, TwoSpoken
  <2> QED
    BY <1>1, <1>2, <2>9, <2>13, <2>14
<1> QED
  BY <1>4, <1>5

\* When a chunk ends: the last with its segment, the others after their share.
LEMMA ChunkEnds ==
  ASSUME NEW segment \in StorySegment, segment.start < segment.end,
         NEW from \in Nat, NEW share \in Nat, NEW last
  PROVE  /\ ChunkEnd(segment, from, share, last) \in Nat
         /\ last = TRUE => ChunkEnd(segment, from, share, last) = segment.end
         /\ last = FALSE =>
              \E q \in Nat : /\ ChunkEnd(segment, from, share, last) = from + q
                             /\ (2 * Len(segment.words)) * q
                                  <= 2 * ((segment.end - segment.start) * share) + Len(segment.words)
<1>1. PICK words \in Seq(Nat) : words = segment.words /\ words # <<>>
  BY DEF StorySegment
<1>2. PICK W \in Nat \ {0} : W = Len(words)
  BY <1>1, LenProperties, EmptySeq
<1>3. PICK D \in Nat : D = segment.end - segment.start
  BY DEF StorySegment
<1>4. segment.end \in Nat
  BY DEF StorySegment
<1>5. PICK a \in Nat : a = 2 * D * share + W
  OBVIOUS
<1>6. PICK d \in Nat \ {0} : d = 2 * W
  <2>1. 2 * W \in Nat \ {0}
    OBVIOUS
  <2> QED
    BY <2>1
<1>7. PICK q \in Nat : q = a \div d /\ d * q <= a
  BY QuotientOf
<1>8. PICK e : e = ChunkEnd(segment, from, share, last)
  OBVIOUS
<1>9. e = IF last THEN segment.end ELSE from + q
  BY <1>1, <1>2, <1>3, <1>5, <1>6, <1>7, <1>8 DEF ChunkEnd
<1>10. from + q \in Nat
  OBVIOUS
<1>11. 2 * D * share = 2 * (D * share)
  OBVIOUS
<1>12. e \in Nat
  BY <1>4, <1>9, <1>10
<1>13. last = TRUE => e = segment.end
  BY <1>9
<1>14. last = FALSE => e = from + q
  BY <1>9
<1>15. (2 * W) * q <= 2 * (D * share) + W
  BY <1>5, <1>6, <1>7, <1>11
<1> QED
  BY <1>1, <1>2, <1>3, <1>8, <1>12, <1>13, <1>14, <1>15

\* One step of the fold that makes the cues of a segment.
SplitStep(segment, chunks, cues, i) ==
  LET from == EndOf(cues, segment.start)
  IN Spoken(cues, chunks[i], from, ChunkEnd(segment, from, Len(chunks[i]), i = Len(chunks)))

\* A chunk that is split adds cues, at least one.
LEMMA SplitTyped ==
  ASSUME NEW segment \in StorySegment, segment.start < segment.end,
         NEW chunks \in Seq(Seq(Nat)), NEW i \in 1..Len(chunks), NEW cues \in Seq(StoryCueSet)
  PROVE  SplitStep(segment, chunks, cues, i) \in Seq(StoryCueSet) \ {<<>>}
<1>1. PICK from \in Nat : from = EndOf(cues, segment.start)
  BY EndTyped DEF StorySegment
<1>2. PICK chunk \in Seq(Nat) : chunk = chunks[i]
  <2>1. PICK X : X = Seq(Nat)
    OBVIOUS
  <2>2. chunks[i] \in X
    BY <2>1
  <2> QED
    BY <2>1, <2>2
<1>3. PICK share \in Nat : share = Len(chunk)
  BY LenProperties
<1>4. PICK last : last = (i = Len(chunks))
  OBVIOUS
<1>5. PICK e \in Nat : e = ChunkEnd(segment, from, share, last)
  BY ChunkEnds
<1>6. SplitStep(segment, chunks, cues, i) = Spoken(cues, chunk, from, e)
  BY <1>1, <1>2, <1>3, <1>4, <1>5 DEF SplitStep
<1>7. Spoken(cues, chunk, from, e) \in Seq(StoryCueSet) /\ Spoken(cues, chunk, from, e) # <<>>
  BY SpokenTyped
<1> QED
  BY <1>6, <1>7

\* The fold that makes the cues of a segment.
SplitsAlong(segment, chunks, n, h) ==
  /\ h[0] = <<>> /\ Split(segment) = h[n]
  /\ \A k \in 0..n : h[k] \in Seq(StoryCueSet) /\ (k # 0 => h[k] # <<>>)
  /\ \A k \in 1..n : h[k] = SplitStep(segment, chunks, h[k - 1], k)

\* A segment's cues are made one chunk at a time.
LEMMA SplitWalk ==
  ASSUME NEW segment \in StorySegment, segment.start < segment.end,
         NEW chunks \in Seq(Seq(Nat)), chunks = Chunks(segment.words),
         NEW n \in Nat, n = Len(chunks)
  PROVE  \E h : SplitsAlong(segment, chunks, n, h)
<1> DEFINE Numbered == [i \in DOMAIN chunks |-> i]
           Steps(g) ==
             [s \in SUBSET (DOMAIN Numbered) |->
                IF s = {} THEN <<>> ELSE SplitStep(segment, chunks, g[s \ {Max(s)}], Numbered[Max(s)])]
<1>1. Split(segment) = (CHOOSE g : g = Steps(g))[DOMAIN Numbered]
  BY DEF Split, SplitStep, Spoken, EndOf, FoldLeft, MapThenFoldSet
<1>2. DOMAIN chunks = 1..n /\ DOMAIN Numbered = 1..n /\ \A k \in 1..n : Numbered[k] = k
  BY LenProperties
<1>3. PICK X : X = Seq(StoryCueSet)
  OBVIOUS
<1>4. PICK step : step = [k \in 1..n |-> [x \in X |-> SplitStep(segment, chunks, x, k)]]
  OBVIOUS
<1>5. PICK g \in [SUBSET (1..n) -> X] : Walked(g, n, <<>>, step)
  <2>1. \A k \in 1..n, x \in X : SplitStep(segment, chunks, x, k) \in X
    BY <1>3, SplitTyped
  <2>2. step \in [1..n -> [X -> X]]
    BY <1>4, <2>1
  <2>3. <<>> \in X
    BY <1>3
  <2> QED
    BY <2>2, <2>3, WalkExists
<1>6. ASSUME NEW s \in SUBSET (1..n)
      PROVE  g[s] = IF s = {} THEN <<>> ELSE SplitStep(segment, chunks, g[s \ {Max(s)}], Numbered[Max(s)])
  <2>1. CASE s = {}
    BY <1>5, <2>1 DEF Walked
  <2>2. CASE s # {}
    <3>1. PICK x \in s : x = Max(s)
      BY <2>2, LastOf
    <3>2. s \ {x} \in SUBSET (1..n) /\ x \in 1..n /\ Numbered[x] = x
      BY <1>2
    <3>3. g[s] = step[x][g[s \ {x}]] /\ g[s \ {x}] \in X
      BY <1>5, <2>2, <3>1, <3>2 DEF Walked
    <3> HIDE DEF Numbered
    <3> QED
      BY <1>4, <2>2, <3>1, <3>2, <3>3
  <2> QED
    BY <2>1, <2>2
<1>7. g = Steps(g)
  <2> HIDE DEF Numbered
  <2> QED
    BY <1>2, <1>5, <1>6
<1>8. PICK f : f = (CHOOSE k : k = Steps(k))
  OBVIOUS
<1>9. f = Steps(f)
  <2> HIDE DEF Steps
  <2> QED
    BY <1>7, <1>8
<1>10. \A s \in SUBSET (1..n) :
         f[s] = IF s = {} THEN <<>> ELSE SplitStep(segment, chunks, f[s \ {Max(s)}], Numbered[Max(s)])
  <2> HIDE DEF Numbered
  <2> QED
    BY <1>2, <1>9
<1> HIDE DEF Steps, Numbered
<1>11. PICK h : h = [k \in 0..n |-> f[1..k]]
  OBVIOUS
<1>12. h[0] = <<>>
  <2>1. 1..0 = {} /\ 0 \in 0..n /\ {} \in SUBSET (1..n)
    BY UpTo
  <2> QED
    BY <1>10, <1>11, <2>1
<1>13. ASSUME NEW k \in 1..n PROVE h[k] = SplitStep(segment, chunks, h[k - 1], k)
  <2>1. Max(1..k) = k /\ (1..k) \ {k} = 1..(k - 1) /\ 1..k # {}
        /\ 1..k \in SUBSET (1..n) /\ k \in 0..n /\ k - 1 \in 0..n
    BY UpTo
  <2>2. h[k] = f[1..k] /\ h[k - 1] = f[1..(k - 1)]
    BY <1>11, <2>1
  <2>3. Numbered[k] = k
    BY <1>2
  <2> QED
    BY <1>10, <2>1, <2>2, <2>3
<1>14. Split(segment) = h[n]
  <2>1. n \in 0..n
    OBVIOUS
  <2>2. h[n] = f[1..n]
    BY <1>11, <2>1
  <2> QED
    BY <1>1, <1>2, <1>8, <2>2
<1>15. ASSUME NEW k \in 1..n, h[k - 1] \in X PROVE h[k] \in X /\ h[k] # <<>>
  <2>1. k \in 1..Len(chunks)
    OBVIOUS
  <2>2. SplitStep(segment, chunks, h[k - 1], k) \in Seq(StoryCueSet) \ {<<>>}
    BY <1>3, <1>15, <2>1, SplitTyped
  <2> QED
    BY <1>3, <1>13, <2>2
<1>16. \A k \in 0..n : h[k] \in X
  <2>1. h[0] \in X
    BY <1>3, <1>12
  <2>2. \A k \in 1..n : h[k - 1] \in X => h[k] \in X
    BY <1>15
  <2> QED
    BY <2>1, <2>2, WalkStays
<1>17. ASSUME NEW k \in 0..n, k # 0 PROVE h[k] # <<>>
  <2>1. k \in 1..n /\ k - 1 \in 0..n
    BY <1>17
  <2> QED
    BY <1>15, <1>16, <2>1
<1> QED
  BY <1>3, <1>12, <1>13, <1>14, <1>16, <1>17 DEF SplitsAlong

\* What so many chunks have taken is their part of the segment, and half a millisecond each.
LEMMA ShareAdds ==
  ASSUME NEW x \in Nat, NEW q \in Nat, NEW p \in Nat, NEW s \in Nat, NEW D \in Nat, NEW W \in Nat,
         NEW k \in Nat, (2 * W) * x <= 2 * (D * p) + W * k, (2 * W) * q <= 2 * (D * s) + W
  PROVE  (2 * W) * (x + q) <= 2 * (D * (p + s)) + W * (k + 1)
<1>1. PICK V \in Nat : V = 2 * W
  OBVIOUS
<1>2. V * (x + q) = V * x + V * q /\ D * (p + s) = D * p + D * s /\ W * (k + 1) = W * k + W
  OBVIOUS
<1>3. PICK a, b, c, d, e \in Nat : a = V * x /\ b = V * q /\ c = D * p /\ d = D * s /\ e = W * k
  OBVIOUS
<1>4. a <= 2 * c + e /\ b <= 2 * d + W
  BY <1>1, <1>3
<1>5. a + b <= 2 * (c + d) + (e + W)
  BY <1>3, <1>4
<1> QED
  BY <1>1, <1>2, <1>3, <1>5

\* What is left for the last chunk is not less than nothing.
LEMMA LastFits ==
  ASSUME NEW x \in Nat, NEW p \in Nat, NEW D \in Nat, NEW W \in Nat \ {0}, NEW k \in Nat,
         p < W, W * k <= 2 * D, (2 * W) * x <= 2 * (D * p) + W * k
  PROVE  x <= D
<1>1. PICK V \in Nat \ {0} : V = 2 * W
  <2>1. 2 * W \in Nat \ {0}
    OBVIOUS
  <2> QED
    BY <2>1
<1>2. PICK w \in Nat : W = w + 1
  <2>1. W - 1 \in Nat /\ W = (W - 1) + 1
    OBVIOUS
  <2> QED
    BY <2>1
<1>3. D * p <= D * w
  <2>1. p <= w
    BY <1>2
  <2> QED
    BY <2>1, TimesGrows
<1>4. V * D = 2 * (D * w) + 2 * D
  <2>1. V * D = 2 * (W * D)
    BY <1>1
  <2>2. W * D = D * w + D
    BY <1>2
  <2> QED
    BY <2>1, <2>2
<1>5. PICK a, b, c, d, e \in Nat : a = V * x /\ b = V * D /\ c = D * p /\ d = D * w /\ e = W * k
  OBVIOUS
<1>6. a <= b
  <2>1. a <= 2 * c + e /\ c <= d /\ b = 2 * d + 2 * D /\ e <= 2 * D
    BY <1>1, <1>3, <1>4, <1>5
  <2> QED
    BY <1>5, <2>1
<1>7. ASSUME D + 1 <= x PROVE FALSE
  <2>1. V * (D + 1) <= V * x
    BY <1>7, TimesGrows
  <2>2. V * (D + 1) = b + V
    BY <1>5
  <2>3. b + V <= a
    BY <1>5, <2>1, <2>2
  <2> QED
    BY <1>5, <1>6, <2>3
<1> QED
  BY <1>7

\* Before the first chunk.
LEMMA NothingCovered ==
  ASSUME NEW words \in Seq(Nat), NEW start \in Nat
  PROVE  Covered(<<>>, words, 0, start) /\ EndOf(<<>>, start) = start
<1>1. PICK cues : cues = <<>>
  OBVIOUS
<1>2. cues \in Seq(StoryCueSet) /\ Len(cues) = 0 /\ DOMAIN cues = {} /\ \A j \in 1..0 : FALSE
  BY <1>1
<1>3. Linked(cues, start)
  BY <1>2 DEF Linked
<1>4. PICK g : g = WordsOf(cues)
  OBVIOUS
<1>5. g = <<>>
  BY <1>2, <1>4 DEF WordsOf
<1>6. g \in Seq(Seq(Nat)) /\ Len(g) = 0
  BY <1>5
<1>7. PICK c : c = [i \in {0} |-> 0]
  OBVIOUS
<1>8. c \in [0..Len(g) -> 0..0] /\ c[0] = 0 /\ c[Len(g)] = 0 /\ \A i \in 1..Len(g) : FALSE
  <2>1. 0..0 = {0}
    OBVIOUS
  <2> QED
    BY <1>6, <1>7, <2>1
<1>9. Tiles(g, words, c, 0, Lines)
  BY <1>6, <1>8 DEF Tiles
<1>10. EndOf(cues, start) = start
  BY <1>1 DEF EndOf
<1> QED
  BY <1>1, <1>2, <1>3, <1>4, <1>9, <1>10 DEF Covered

\* So far of a segment: its words up to the k-th bound, before their part of its time, or all.
SplitSoFar(segment, n, b, h, k) ==
  LET W == Len(segment.words)
      D == segment.end - segment.start
      until == EndOf(h[k], segment.start)
  IN /\ Covered(h[k], segment.words, b[k], segment.start)
     /\ k < n => \E x \in Nat : until = segment.start + x /\ (2 * W) * x <= 2 * (D * b[k]) + W * k
     /\ k = n => until = segment.end

\* The cues of a segment with room for its cuts.
LEMMA SplitCovers ==
  ASSUME NEW segment \in StorySegment, segment.start < segment.end,
         RoomForCuts(segment)
  PROVE  Reaches(Split(segment), segment.words, Len(segment.words), segment.start, segment.end)
<1>1. PICK words \in Seq(Nat) : words = segment.words /\ words # <<>>
  BY DEF StorySegment
<1>2. PICK W \in Nat \ {0} : W = Len(words)
  BY <1>1, LenProperties, EmptySeq
<1>3. PICK start, end, D \in Nat :
        /\ start = segment.start /\ end = segment.end /\ end = start + D
        /\ D = segment.end - segment.start
  <2>1. segment.start \in Nat /\ segment.end \in Nat
    BY DEF StorySegment
  <2>2. segment.end - segment.start \in Nat
        /\ segment.end = segment.start + (segment.end - segment.start)
    BY <2>1
  <2> QED
    BY <2>1, <2>2
<1>4. PICK chunks : chunks = Chunks(words)
  OBVIOUS
<1>5. PICK b : Tiles(chunks, words, b, W, FineChunks)
  BY <1>2, <1>4, ChunksTile
<1>6. chunks \in Seq(Seq(Nat))
  BY <1>5 DEF Tiles
<1>7. PICK n \in Nat : n = Len(chunks)
  BY <1>6, LenProperties
<1>8. b \in [0..n -> 0..W] /\ b[0] = 0 /\ b[n] = W
  BY <1>5, <1>7 DEF Tiles
<1>9. \A k \in 1..n : /\ b[k - 1] <= b[k] /\ chunks[k] = SubSeq(words, b[k - 1] + 1, b[k])
                      /\ chunks[k] \in FineChunks
  BY <1>5, <1>7 DEF Tiles
<1>10. PICK h : SplitsAlong(segment, chunks, n, h)
  BY <1>1, <1>4, <1>6, <1>7, SplitWalk
<1> DEFINE S == {k \in 0..n : SplitSoFar(segment, n, b, h, k)}
<1>11. n # 0
  BY <1>2, <1>8
<1>10a. W * (n - 1) <= 2 * D
  BY <1>1, <1>2, <1>3, <1>4, <1>7 DEF RoomForCuts
<1>12. 0 \in S
  <2>1. h[0] = <<>> /\ b[0] = 0
    BY <1>8, <1>10 DEF SplitsAlong
  <2>2. Covered(h[0], words, b[0], start) /\ EndOf(h[0], start) = start
    BY <2>1, NothingCovered
  <2>3. start = start + 0 /\ (2 * W) * 0 <= 2 * (D * b[0]) + W * 0
    BY <2>1
  <2>4. \E x \in Nat : EndOf(h[0], start) = start + x /\ (2 * W) * x <= 2 * (D * b[0]) + W * 0
    BY <2>2, <2>3
  <2> QED
    BY <1>1, <1>2, <1>3, <1>11, <2>2, <2>4 DEF SplitSoFar
<1>13. ASSUME NEW k \in 0..(n - 1), k \in S PROVE k + 1 \in S
  <2>1. PICK i \in 1..n : i = k + 1 /\ i - 1 = k
    <3>1. k + 1 \in 1..n /\ (k + 1) - 1 = k
      OBVIOUS
    <3> QED
      BY <3>1
  <2>2. k \in 0..n /\ i \in 0..n /\ k < n
    BY <2>1
  <2>3. PICK p \in 0..W : p = b[k]
    BY <1>8, <2>2
  <2>4. PICK l \in 0..W : l = b[i]
    BY <1>8, <2>2
  <2>5. PICK cues : cues = h[k] /\ Covered(cues, words, p, start)
    BY <1>1, <1>3, <1>13, <2>3 DEF SplitSoFar
  <2>6. PICK x \in Nat : EndOf(cues, start) = start + x /\ (2 * W) * x <= 2 * (D * p) + W * k
    BY <1>1, <1>2, <1>3, <1>13, <2>2, <2>3, <2>5 DEF SplitSoFar
  <2>7. PICK from \in Nat : from = start + x /\ from = EndOf(cues, start)
    BY <2>6
  <2>8. PICK chunk : chunk = chunks[i]
    OBVIOUS
  <2>9. p <= l /\ chunk = SubSeq(words, p + 1, l) /\ chunk \in FineChunks
    BY <1>9, <2>1, <2>3, <2>4, <2>8
  <2>10. p \in 0..Len(words) /\ l \in p..Len(words)
    BY <1>2, <2>9
  <2>11. PICK share \in Nat \ {0} : share = l - p /\ share = Len(chunk) /\ l = p + share
    <3>1. chunk \in Seq(Nat) /\ Len(chunk) = l - p
      BY <2>9, <2>10, Piece
    <3>2. chunk # <<>>
      BY <2>9 DEF FineChunks
    <3>3. Len(chunk) \in Nat /\ Len(chunk) # 0
      BY <3>1, <3>2, EmptySeq, LenProperties
    <3>4. l = p + (l - p)
      OBVIOUS
    <3> QED
      BY <3>1, <3>3, <3>4
  <2>12. PICK last : last = (i = Len(chunks))
    OBVIOUS
  <2>13. PICK e : e = ChunkEnd(segment, from, share, last)
    OBVIOUS
  <2>14. h[i] = Spoken(cues, chunk, from, e)
    <3>1. h[i] = SplitStep(segment, chunks, h[i - 1], i)
      BY <1>10 DEF SplitsAlong
    <3> QED
      BY <1>3, <2>1, <2>5, <2>7, <2>8, <2>11, <2>12, <2>13, <3>1 DEF SplitStep
  <2>15. chunk \in Lines
    BY <2>9 DEF FineChunks
  <2>16. CASE i = n
    <3>1. last = TRUE
      BY <1>7, <2>12, <2>16
    <3>2. e = end
      <4>1. share \in Nat
        OBVIOUS
      <4>2. ChunkEnd(segment, from, share, last) = segment.end
        BY <3>1, <4>1, ChunkEnds
      <4> QED
        BY <1>3, <2>13, <4>2
    <3>3. x <= D
      <4>1. p < W
        BY <1>8, <2>4, <2>11, <2>16
      <4>2. p \in Nat /\ k \in Nat /\ k = n - 1
        BY <2>1, <2>16
      <4>3. W * k <= 2 * D
        BY <1>10a, <4>2
      <4> QED
        BY <2>6, <4>1, <4>2, <4>3, LastFits
    <3>4. from <= end
      BY <1>3, <2>7, <3>3
    <3>5. Reaches(Spoken(cues, chunk, from, end), words, l, start, end)
      BY <2>5, <2>7, <2>9, <2>10, <2>15, <3>4, ChunkAdded
    <3>6. Covered(h[i], words, l, start) /\ EndOf(h[i], start) = end
      BY <2>14, <3>2, <3>5 DEF Reaches
    <3>7. SplitSoFar(segment, n, b, h, i)
      <4>1. Covered(h[i], segment.words, b[i], segment.start)
            /\ EndOf(h[i], segment.start) = segment.end
        BY <1>1, <1>3, <2>4, <3>6
      <4>2. ~(i < n)
        BY <2>16
      <4> QED
        BY <4>1, <4>2 DEF SplitSoFar
    <3> QED
      BY <2>1, <2>2, <3>7
  <2>17. CASE i # n
    <3>1. last = FALSE
      BY <1>7, <2>12, <2>17
    <3>2. PICK q \in Nat : e = from + q /\ (2 * W) * q <= 2 * (D * share) + W
      <4>1. share \in Nat
        OBVIOUS
      <4>2. \E q \in Nat :
              /\ ChunkEnd(segment, from, share, last) = from + q
              /\ (2 * Len(segment.words)) * q
                   <= 2 * ((segment.end - segment.start) * share) + Len(segment.words)
        BY <3>1, <4>1, ChunkEnds
      <4>3. Len(segment.words) = W /\ segment.end - segment.start = D
        BY <1>1, <1>2, <1>3
      <4> QED
        BY <2>13, <4>2, <4>3
    <3>3. from <= e /\ e \in Nat
      BY <3>2
    <3>4. Reaches(Spoken(cues, chunk, from, e), words, l, start, e)
      BY <2>5, <2>7, <2>9, <2>10, <2>15, <3>3, ChunkAdded
    <3>5. Covered(h[i], words, l, start) /\ EndOf(h[i], start) = e
      BY <2>14, <3>4 DEF Reaches
    <3>6. PICK y \in Nat : y = x + q /\ e = start + y
      BY <2>7, <3>2
    <3>7. (2 * W) * y <= 2 * (D * l) + W * i
      <4>1. p \in Nat /\ k \in Nat
        OBVIOUS
      <4>2. (2 * W) * (x + q) <= 2 * (D * (p + share)) + W * (k + 1)
        BY <2>6, <3>2, <4>1, ShareAdds
      <4> QED
        BY <2>1, <2>11, <3>6, <4>2
    <3>8. \E z \in Nat : EndOf(h[i], start) = start + z /\ (2 * W) * z <= 2 * (D * l) + W * i
      BY <3>5, <3>6, <3>7
    <3>9. SplitSoFar(segment, n, b, h, i)
      BY <1>1, <1>2, <1>3, <2>4, <2>17, <3>5, <3>8 DEF SplitSoFar
    <3> QED
      BY <2>1, <2>2, <3>9
  <2> QED
    BY <2>16, <2>17
<1>14. \A k \in 0..n : k \in S
  <2> HIDE DEF S
  <2> QED
    BY <1>12, <1>13, Stairs
<1>15. SplitSoFar(segment, n, b, h, n)
  <2>1. n \in 0..n
    OBVIOUS
  <2>2. n \in S
    <3> HIDE DEF S
    <3> QED
      BY <1>14, <2>1
  <2> QED
    BY <2>2
<1>16. Covered(h[n], words, W, start) /\ EndOf(h[n], start) = end
  BY <1>1, <1>3, <1>8, <1>15 DEF SplitSoFar
<1>17. Split(segment) = h[n] /\ h[n] # <<>>
  BY <1>10, <1>11 DEF SplitsAlong
<1> QED
  BY <1>1, <1>2, <1>3, <1>16, <1>17 DEF Reaches

\* Sequences that are not empty, one after the other.
LEMMA FlattenFine ==
  ASSUME NEW X, NEW seqs \in Seq(Seq(X) \ {<<>>}), seqs # <<>>
  PROVE  FlattenSeq(seqs) \in Seq(X) \ {<<>>}
<1>1. PICK m \in Nat \ {0} : m = Len(seqs)
  BY LenProperties, EmptySeq
<1>2. PICK Y : Y = Seq(X) \ {<<>>}
  OBVIOUS
<1>3. \A k \in 1..m : seqs[k] \in Y
  BY <1>1, <1>2
<1>4. ASSUME NEW x \in Y, NEW y \in Y PROVE x \o y \in Y
  <2>1. x \in Seq(X) /\ y \in Seq(X) /\ x # <<>> /\ y # <<>>
    BY <1>2
  <2>2. x \o y \in Seq(X)
    BY <2>1, ConcatProperties
  <2>3. x \o y # <<>>
    BY <2>1, ConcatSimplifications
  <2> QED
    BY <1>2, <2>2, <2>3
<1> DEFINE Steps(f) == [i \in 1..Len(seqs) |-> IF i = 1 THEN seqs[i] ELSE f[i - 1] \o seqs[i]]
<1>5. FlattenSeq(seqs) = (CHOOSE f : f = Steps(f))[m]
  BY <1>1 DEF FlattenSeq
<1>6. PICK step : step = [k \in 1..m |-> [x \in Y |-> IF k = 1 THEN seqs[k] ELSE x \o seqs[k]]]
  OBVIOUS
<1>7. PICK w \in [SUBSET (1..m) -> Y] : Walked(w, m, seqs[1], step)
  <2>1. seqs[1] \in Y
    BY <1>3
  <2>2. \A k \in 1..m, x \in Y : (IF k = 1 THEN seqs[k] ELSE x \o seqs[k]) \in Y
    BY <1>3, <1>4
  <2>3. step \in [1..m -> [Y -> Y]]
    BY <1>6, <2>2
  <2> QED
    BY <2>1, <2>3, WalkExists
<1>8. PICK g : g = [i \in 1..m |-> w[1..i]]
  OBVIOUS
<1>9. ASSUME NEW i \in 1..m PROVE g[i] = IF i = 1 THEN seqs[i] ELSE g[i - 1] \o seqs[i]
  <2>1. Max(1..i) = i /\ (1..i) \ {i} = 1..(i - 1) /\ 1..i # {} /\ 1..i \in SUBSET (1..m)
    BY UpTo
  <2>2. 1..(i - 1) \in SUBSET (1..m)
    OBVIOUS
  <2>3. w[1..i] = step[i][w[1..(i - 1)]] /\ w[1..(i - 1)] \in Y
    BY <1>7, <2>1, <2>2 DEF Walked
  <2>4. g[i] = IF i = 1 THEN seqs[i] ELSE w[1..(i - 1)] \o seqs[i]
    BY <1>6, <1>8, <2>3
  <2>5. i # 1 => i - 1 \in 1..m
    OBVIOUS
  <2> QED
    BY <1>8, <2>4, <2>5
<1>10. g = Steps(g)
  BY <1>1, <1>8, <1>9
<1>11. PICK f : f = (CHOOSE k : k = Steps(k))
  OBVIOUS
<1>12. f = Steps(f)
  <2> HIDE DEF Steps
  <2> QED
    BY <1>10, <1>11
<1>13. \A i \in 1..m : f[i] = IF i = 1 THEN seqs[i] ELSE f[i - 1] \o seqs[i]
  BY <1>1, <1>12
<1>14. FlattenSeq(seqs) = f[m]
  <2> HIDE DEF Steps
  <2> QED
    BY <1>5, <1>11
<1> HIDE DEF Steps
<1> DEFINE S == {k \in 0..m : k # 0 => f[k] \in Y}
<1>15. 0 \in S
  OBVIOUS
<1>16. ASSUME NEW k \in 0..(m - 1), k \in S PROVE k + 1 \in S
  <2>1. k + 1 \in 1..m /\ (k + 1) - 1 = k /\ k + 1 \in 0..m /\ (k + 1 = 1 <=> k = 0)
    OBVIOUS
  <2>2. f[k + 1] \in Y
    <3>1. CASE k = 0
      BY <1>3, <1>13, <2>1, <3>1
    <3>2. CASE k # 0
      BY <1>3, <1>4, <1>13, <1>16, <2>1, <3>2
    <3> QED
      BY <3>1, <3>2
  <2> QED
    BY <2>1, <2>2
<1>17. \A k \in 0..m : k \in S
  <2> HIDE DEF S
  <2> QED
    BY <1>15, <1>16, Stairs
<1>18. f[m] \in Y
  <2>1. m \in 0..m
    OBVIOUS
  <2>2. m \in S
    <3> HIDE DEF S
    <3> QED
      BY <1>17, <2>1
  <2> QED
    BY <2>2
<1> QED
  BY <1>2, <1>14, <1>18

\* Neither short of the beginning and the middle shows what the other shows.
LEMMA ShortsApart ==
  ASSUME NEW cue, cue.start \in Nat, cue.end \in Nat, cue.start <= cue.end,
         NEW total \in Nat, total >= 14000
  PROVE  ~(InHook(cue, total) /\ InTension(cue, total))
<1>1. PICK s, e \in Nat : s = cue.start /\ e = cue.end /\ s <= e
  OBVIOUS
<1>2. ASSUME InHook(cue, total), InTension(cue, total) PROVE FALSE
  <2>1. 20 * e <= 40000 + Lesser(20 * 30000, 5 * total)
    BY <1>1, <1>2 DEF InHook
  <2>2. 20 * s >= 8 * total
    BY <1>1, <1>2 DEF InTension
  <2>3. Lesser(20 * 30000, 5 * total) <= 5 * total
    BY DEF Lesser
  <2>4. PICK y \in Nat : y = Lesser(20 * 30000, 5 * total)
    BY DEF Lesser
  <2>5. 20 * e <= 40000 + y /\ y <= 5 * total
    BY <2>1, <2>3, <2>4
  <2> QED
    BY <1>1, <2>2, <2>5
<1> QED
  BY <1>2

\* They show nothing that ends with the narration.
LEMMA LastNotShown ==
  ASSUME NEW cue, cue.end \in Nat, cue.end >= 14000
  PROVE  ~InHook(cue, cue.end) /\ ~InTension(cue, cue.end)
<1>1. PICK e \in Nat : e = cue.end /\ e >= 14000
  OBVIOUS
<1>2. PICK x \in Nat : x = Lesser(20 * 30000, 5 * e) /\ x <= 5 * e
  BY DEF Lesser
<1>3. PICK y \in Nat : y = Lesser(8 * e + 20 * 45000, 15 * e) /\ y <= 15 * e
  BY DEF Lesser
<1>4. ~(20 * e <= 40000 + x)
  BY <1>1, <1>2
<1>5. ~(20 * e <= 40000 + y)
  BY <1>1, <1>3
<1>6. ~InHook(cue, cue.end)
  BY <1>1, <1>2, <1>4 DEF InHook
<1>7. ~InTension(cue, cue.end)
  BY <1>1, <1>3, <1>5 DEF InTension
<1> QED
  BY <1>6, <1>7

\* The cues of a segment with room for its cuts cover it and its words.
LEMMA SegmentTold ==
  ASSUME NEW segment \in StorySegment, segment.start < segment.end,
         RoomForCuts(segment), NEW total \in Nat
  PROVE  CoverStory(Split(segment), segment, total)
<1>1. PICK words \in Seq(Nat) : words = segment.words
  BY DEF StorySegment
<1>2. PICK cues : cues = Split(segment)
  OBVIOUS
<1>3. Reaches(cues, words, Len(words), segment.start, segment.end)
  BY <1>1, <1>2, SplitCovers
<1>4. cues \in Seq(StoryCueSet) /\ Linked(cues, segment.start) /\ cues # <<>>
      /\ EndOf(cues, segment.start) = segment.end
  BY <1>3 DEF Reaches, Covered
<1>5. PICK c : Tiles(WordsOf(cues), words, c, Len(words), Lines)
  BY <1>3 DEF Reaches, Covered
<1>6. PICK m \in Nat \ {0} : m = Len(cues) /\ DOMAIN cues = 1..m
  BY <1>4, LenProperties, EmptySeq
<1>7. \A j \in 1..m : cues[j].start \in Nat /\ cues[j].end \in Nat
  <2> SUFFICES ASSUME NEW j \in 1..m PROVE cues[j].start \in Nat /\ cues[j].end \in Nat
    OBVIOUS
  <2>1. cues[j] \in StoryCueSet
    BY <1>4, <1>6
  <2> QED
    BY <2>1 DEF StoryCueSet
<1>8. PICK g : g = WordsOf(cues)
  OBVIOUS
<1>9. g = [j \in 1..m |-> cues[j].words]
  BY <1>6, <1>8 DEF WordsOf
<1>10. Len(g) = m
  BY <1>9
<1>11. FlattenSeq(g) = words
  <2>1. g # <<>>
    BY <1>10
  <2> QED
    BY <1>5, <1>8, <2>1, TilesFlatten
<1>12. FlattenSeq([j \in DOMAIN cues |-> cues[j].words]) = segment.words
  BY <1>1, <1>8, <1>11 DEF WordsOf
<1>13. \A j \in 1..m :
         cues[j].start <= cues[j].end
         /\ cues[j].start = IF j = 1 THEN segment.start ELSE cues[j - 1].end
  BY <1>4, <1>6 DEF Linked
<1>14. cues[1].start = segment.start
  <2>1. 1 \in 1..m
    OBVIOUS
  <2> QED
    BY <1>13, <2>1
<1>15. cues[Len(cues)].end = segment.end
  BY <1>4 DEF EndOf
<1>16. ASSUME NEW j \in 1..m
       PROVE  /\ cues[j].start <= cues[j].end
              /\ j > 1 => cues[j].start = cues[j - 1].end
              /\ Len(cues[j].words) > 1 => LineChars(cues[j].words) <= 42
              /\ total >= 14000 => ~(InHook(cues[j], total) /\ InTension(cues[j], total))
  <2>1. g[j] \in Lines
    BY <1>5, <1>8, <1>10 DEF Tiles
  <2>2. g[j] = cues[j].words
    BY <1>9
  <2>3. Len(cues[j].words) > 1 => LineChars(cues[j].words) <= 42
    BY <2>1, <2>2 DEF Lines
  <2>4. j > 1 => cues[j].start = cues[j - 1].end
    BY <1>13
  <2>5. total >= 14000 => ~(InHook(cues[j], total) /\ InTension(cues[j], total))
    <3>1. PICK cue : cue = cues[j]
      OBVIOUS
    <3>2. cue.start \in Nat /\ cue.end \in Nat /\ cue.start <= cue.end
      BY <1>7, <1>13, <3>1
    <3>3. total >= 14000 => ~(InHook(cue, total) /\ InTension(cue, total))
      BY <3>2, ShortsApart
    <3> QED
      BY <3>1, <3>3
  <2> QED
    BY <1>13, <2>3, <2>4, <2>5
<1>17. CoverStory(cues, segment, total)
  BY <1>6, <1>12, <1>14, <1>15, <1>16, SMTT(30) DEF CoverStory
<1> QED
  BY <1>2, <1>17

\* Every segment has cues.
LEMMA SplitFine ==
  ASSUME NEW segment \in StorySegment, segment.start < segment.end
  PROVE  Split(segment) \in Seq(StoryCueSet) \ {<<>>}
<1>1. PICK words \in Seq(Nat) : words = segment.words /\ words # <<>>
  BY DEF StorySegment
<1>2. PICK W \in Nat \ {0} : W = Len(words)
  BY <1>1, LenProperties, EmptySeq
<1>3. PICK chunks : chunks = Chunks(words)
  OBVIOUS
<1>4. PICK b : Tiles(chunks, words, b, W, FineChunks)
  BY <1>2, <1>3, ChunksTile
<1>5. chunks \in Seq(Seq(Nat))
  BY <1>4 DEF Tiles
<1>6. PICK n \in Nat : n = Len(chunks)
  BY <1>5, LenProperties
<1>7. n # 0
  BY <1>2, <1>4, <1>6 DEF Tiles
<1>8. PICK h : SplitsAlong(segment, chunks, n, h)
  BY <1>1, <1>3, <1>5, <1>6, SplitWalk
<1>9. n \in 0..n
  OBVIOUS
<1> QED
  BY <1>7, <1>8, <1>9 DEF SplitsAlong
===============================================================================
