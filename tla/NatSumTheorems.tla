-------------------------- MODULE NatSumTheorems ---------------------------
(***************************************************************************)
(* The facts about SumTo that the solvency proofs rest on, proved from the *)
(* minimum principle on the naturals: an induction over the prefix is a    *)
(* statement about a least counterexample, which needs no operator         *)
(* parameter and so is within the reach of the provers.                    *)
(***************************************************************************)
EXTENDS NatSums, TLAPS, WellFoundedInduction

(* s is the function of the prefix sums of a.                              *)
IsPrefixSum(a, s) ==
  s = [k \in Nat |-> IF k = 0 THEN 0 ELSE s[k - 1] + Summand(a, k)]

-----------------------------------------------------------------------------
(* Every nonempty set of naturals has a least element: the induction       *)
(* principle all the proofs below use.                                     *)
LEMMA LeastElement ==
  ASSUME NEW T, T \subseteq Nat, T # {}
  PROVE  \E m \in T : \A k \in T : m <= k
<1>1. \E x \in T : \A y \in T : ~ (<<y, x>> \in OpToRel(<, Nat))
  BY NatLessThanWellFounded, WFMin
<1>2. PICK x \in T : \A y \in T : ~ (<<y, x>> \in OpToRel(<, Nat))
  BY <1>1
<1>3. \A y \in T : ~ (y < x)
  BY <1>2 DEF OpToRel
<1> QED
  BY <1>3

(* Sets of naturals that hold 0 and are closed under successor are Nat.    *)
LEMMA SetInduction ==
  ASSUME NEW T, 0 \in T, \A n \in Nat : n \in T => n + 1 \in T
  PROVE  \A n \in Nat : n \in T
<1> DEFINE C == {n \in Nat : n \notin T}
<1> SUFFICES ASSUME C # {} PROVE FALSE
  OBVIOUS
<1>1. PICK m \in C : \A k \in C : m <= k
  <2> C \subseteq Nat
    OBVIOUS
  <2> HIDE DEF C
  <2> QED BY LeastElement
<1>2. m \in Nat /\ m # 0 /\ m - 1 \in Nat /\ m - 1 \notin C
  BY <1>1
<1>3. m - 1 \in T
  BY <1>2
<1>4. (m - 1) + 1 \in T
  BY <1>2, <1>3
<1> QED
  BY <1>1, <1>2, <1>4

-----------------------------------------------------------------------------
(* A finite prefix of the sums: a function on 0..n that obeys the equation.*)
PrefixUpTo(a, n, g) ==
  /\ g \in [0..n -> Nat]
  /\ g[0] = 0
  /\ \A k \in 1..n : g[k] = g[k - 1] + Summand(a, k)

\* There are prefix sums of any length.
LEMMA PrefixExists ==
  ASSUME NEW a, \A k \in Nat : Summand(a, k) \in Nat
  PROVE  \A n \in Nat : \E g : PrefixUpTo(a, n, g)
<1> DEFINE T == {n \in Nat : \E g : PrefixUpTo(a, n, g)}
<1>1. 0 \in T
  <2> DEFINE g == [k \in 0..0 |-> 0]
  <2>1. PrefixUpTo(a, 0, g)
    BY DEF PrefixUpTo
  <2> QED BY <2>1
<1>2. ASSUME NEW n \in Nat, n \in T PROVE n + 1 \in T
  <2>1. PICK g : PrefixUpTo(a, n, g)
    BY <1>2
  <2> DEFINE h == [k \in 0..(n + 1) |->
                     IF k <= n THEN g[k] ELSE g[n] + Summand(a, n + 1)]
  <2>2. g[n] \in Nat /\ Summand(a, n + 1) \in Nat
    BY <2>1 DEF PrefixUpTo
  <2>3. h \in [0..(n + 1) -> Nat]
    BY <2>1, <2>2 DEF PrefixUpTo
  <2>4. h[0] = 0
    BY <2>1 DEF PrefixUpTo
  <2>5. ASSUME NEW k \in 1..(n + 1) PROVE h[k] = h[k - 1] + Summand(a, k)
    <3>1. CASE k <= n
      BY <2>1, <3>1 DEF PrefixUpTo
    <3>2. CASE k = n + 1
      BY <3>2, <2>2
    <3> QED BY <3>1, <3>2
  <2>6. PrefixUpTo(a, n + 1, h)
    BY <2>3, <2>4, <2>5 DEF PrefixUpTo
  <2> QED BY <2>6
<1> HIDE DEF T
<1>3. \A n \in Nat : n \in T
  BY <1>1, <1>2, SetInduction
<1> QED
  BY <1>3 DEF T

\* Two prefixes of sums agree where both are defined.
LEMMA PrefixUnique ==
  ASSUME NEW a, NEW m \in Nat, NEW n \in Nat, NEW g, NEW h,
         PrefixUpTo(a, m, g), PrefixUpTo(a, n, h)
  PROVE  \A k \in Nat : k <= m /\ k <= n => g[k] = h[k]
<1> DEFINE T == {k \in Nat : k <= m /\ k <= n => g[k] = h[k]}
<1>1. 0 \in T
  BY DEF PrefixUpTo
<1>2. ASSUME NEW k \in Nat, k \in T PROVE k + 1 \in T
  <2> SUFFICES ASSUME k + 1 <= m, k + 1 <= n PROVE g[k + 1] = h[k + 1]
    OBVIOUS
  <2>1. g[k] = h[k]
    BY <1>2
  <2>2. k + 1 \in 1..m /\ k + 1 \in 1..n /\ (k + 1) - 1 = k
    OBVIOUS
  <2>3. g[k + 1] = g[k] + Summand(a, k + 1) /\ h[k + 1] = h[k] + Summand(a, k + 1)
    BY <2>2 DEF PrefixUpTo
  <2> QED BY <2>1, <2>3
<1> HIDE DEF T
<1>3. \A k \in Nat : k \in T
  BY <1>1, <1>2, SetInduction
<1> QED
  BY <1>3 DEF T

(* The recursive function that SumTo declares exists.                      *)
LEMMA PrefixSumExists ==
  ASSUME NEW a, \A k \in Nat : Summand(a, k) \in Nat
  PROVE  \E s : IsPrefixSum(a, s) /\ s \in [Nat -> Nat]
<1> DEFINE G(n) == CHOOSE g : PrefixUpTo(a, n, g)
<1>1. \A n \in Nat : PrefixUpTo(a, n, G(n))
  BY PrefixExists
<1> HIDE DEF G
<1> DEFINE s == [n \in Nat |-> G(n)[n]]
<1>2. ASSUME NEW n \in Nat PROVE s[n] \in Nat
  BY <1>1 DEF PrefixUpTo
<1>3. s[0] = 0
  BY <1>1 DEF PrefixUpTo
<1>4. ASSUME NEW n \in Nat, n # 0 PROVE s[n] = s[n - 1] + Summand(a, n)
  <2>1. n - 1 \in Nat /\ n - 1 <= n /\ n \in 1..n
    BY <1>4
  <2>2. G(n)[n] = G(n)[n - 1] + Summand(a, n)
    BY <1>1, <2>1 DEF PrefixUpTo
  <2>3. G(n)[n - 1] = G(n - 1)[n - 1]
    BY <1>1, <2>1, PrefixUnique
  <2> QED BY <2>1, <2>2, <2>3
<1>5. s = [k \in Nat |-> IF k = 0 THEN 0 ELSE s[k - 1] + Summand(a, k)]
  <2> DEFINE r == [k \in Nat |-> IF k = 0 THEN 0 ELSE s[k - 1] + Summand(a, k)]
  <2>1. \A k \in Nat : s[k] = r[k]
    BY <1>3, <1>4
  <2>2. DOMAIN s = Nat /\ DOMAIN r = Nat
    OBVIOUS
  <2> QED BY <2>1
<1>6. s \in [Nat -> Nat]
  BY <1>2
<1> HIDE DEF s
<1> QED
  BY <1>5, <1>6 DEF IsPrefixSum

(* The recursion equation of SumTo, and its type.                          *)
LEMMA SumEquation ==
  ASSUME NEW a, \A k \in Nat : Summand(a, k) \in Nat
  PROVE  /\ SumTo(a, 0) = 0
         /\ \A n \in Nat : SumTo(a, n + 1) = SumTo(a, n) + Summand(a, n + 1)
         /\ \A n \in Nat : SumTo(a, n) \in Nat
<1> DEFINE S == CHOOSE s : IsPrefixSum(a, s)
<1>1. IsPrefixSum(a, S)
  BY PrefixSumExists
<1>2. \A n \in Nat : SumTo(a, n) = S[n]
  BY DEF SumTo, IsPrefixSum
<1> HIDE DEF S
<1>3. S[0] = 0
  BY <1>1 DEF IsPrefixSum
<1>4. \A n \in Nat : S[n + 1] = S[n] + Summand(a, n + 1)
  <2> TAKE n \in Nat
  <2>1. n + 1 \in Nat /\ n + 1 # 0 /\ (n + 1) - 1 = n
    OBVIOUS
  <2> QED BY <1>1, <2>1 DEF IsPrefixSum
<1>5. \A n \in Nat : S[n] \in Nat
  <2> DEFINE T == {n \in Nat : S[n] \in Nat}
  <2>1. 0 \in T
    BY <1>3
  <2>2. \A n \in Nat : n \in T => n + 1 \in T
    BY <1>4
  <2> HIDE DEF T
  <2>3. \A n \in Nat : n \in T
    BY <2>1, <2>2, SetInduction
  <2> QED BY <2>3 DEF T
<1> QED
  BY <1>2, <1>3, <1>4, <1>5

-----------------------------------------------------------------------------
(* Changing one summand inside the prefix changes the sum by the difference*)
(* of the two values, and a summand beyond the prefix does not count.      *)
THEOREM SumUpdate ==
  ASSUME NEW a, NEW b, NEW t \in Nat, t # 0,
         \A k \in Nat : Summand(a, k) \in Nat,
         \A k \in Nat : Summand(b, k) \in Nat,
         \A k \in Nat : k # t => Summand(a, k) = Summand(b, k)
  PROVE  \A n \in Nat :
           SumTo(b, n) + (IF t <= n THEN Summand(a, t) ELSE 0)
             = SumTo(a, n) + (IF t <= n THEN Summand(b, t) ELSE 0)
<1> DEFINE Claim(n) == SumTo(b, n) + (IF t <= n THEN Summand(a, t) ELSE 0)
                         = SumTo(a, n) + (IF t <= n THEN Summand(b, t) ELSE 0)
<1> DEFINE T == {n \in Nat : Claim(n)}
<1>1. 0 \in T
  BY SumEquation
<1>2. ASSUME NEW n \in Nat, n \in T PROVE n + 1 \in T
  <2>1. /\ SumTo(a, n + 1) = SumTo(a, n) + Summand(a, n + 1)
        /\ SumTo(b, n + 1) = SumTo(b, n) + Summand(b, n + 1)
        /\ SumTo(a, n) \in Nat /\ SumTo(b, n) \in Nat
    BY SumEquation
  <2>2. Claim(n)
    BY <1>2
  <2>3. Summand(a, n + 1) \in Nat /\ Summand(b, n + 1) \in Nat
        /\ Summand(a, t) \in Nat /\ Summand(b, t) \in Nat
    OBVIOUS
  <2>4. CASE t = n + 1
    BY <2>1, <2>2, <2>3, <2>4
  <2>5. CASE t # n + 1
    <3>1. Summand(a, n + 1) = Summand(b, n + 1)
      BY <2>5
    <3>2. (t <= n + 1) <=> (t <= n)
      BY <2>5
    <3> QED BY <2>1, <2>2, <2>3, <3>1, <3>2
  <2> QED BY <2>4, <2>5
<1> HIDE DEF T
<1>3. \A n \in Nat : n \in T
  BY <1>1, <1>2, SetInduction
<1> QED
  BY <1>3 DEF T

(* A single summand never exceeds the sum.                                 *)
THEOREM SumCoversSummand ==
  ASSUME NEW a, NEW t \in Nat, t # 0,
         \A k \in Nat : Summand(a, k) \in Nat
  PROVE  \A n \in Nat : t <= n => Summand(a, t) <= SumTo(a, n)
<1> DEFINE T == {n \in Nat : t <= n => Summand(a, t) <= SumTo(a, n)}
<1>1. 0 \in T
  OBVIOUS
<1>2. ASSUME NEW n \in Nat, n \in T PROVE n + 1 \in T
  <2>1. SumTo(a, n + 1) = SumTo(a, n) + Summand(a, n + 1) /\ SumTo(a, n) \in Nat
    BY SumEquation
  <2>2. Summand(a, n + 1) \in Nat /\ Summand(a, t) \in Nat
    OBVIOUS
  <2>3. CASE t = n + 1
    BY <2>1, <2>2, <2>3
  <2>4. CASE t # n + 1
    BY <2>1, <2>2, <2>4, <1>2
  <2> QED BY <2>3, <2>4
<1> HIDE DEF T
<1>3. \A n \in Nat : n \in T
  BY <1>1, <1>2, SetInduction
<1> QED
  BY <1>3 DEF T

(* The sum of nothing but zeros is zero.                                   *)
THEOREM SumOfZeros ==
  ASSUME NEW a, \A k \in Nat : Summand(a, k) = 0
  PROVE  \A n \in Nat : SumTo(a, n) = 0
<1> DEFINE T == {n \in Nat : SumTo(a, n) = 0}
<1>1. 0 \in T
  BY SumEquation
<1>2. ASSUME NEW n \in Nat, n \in T PROVE n + 1 \in T
  BY <1>2, SumEquation
<1> HIDE DEF T
<1>3. \A n \in Nat : n \in T
  BY <1>1, <1>2, SetInduction
<1> QED
  BY <1>3 DEF T

-----------------------------------------------------------------------------
(* The same for functions on 1..n, the form in which the vault uses them.  *)

\* A sum of naturals is a natural.
THEOREM SumIsNat ==
  ASSUME NEW n \in Nat, NEW f \in [1..n -> Nat]
  PROVE  SumTo(f, n) \in Nat
<1>1. \A k \in Nat : Summand(f, k) \in Nat
  BY DEF Summand
<1> QED
  BY <1>1, SumEquation

\* Changing one value changes the sum by as much.
THEOREM SumChange ==
  ASSUME NEW n \in Nat, NEW f \in [1..n -> Nat], NEW g \in [1..n -> Nat], NEW t \in 1..n,
         \A k \in 1..n : k # t => f[k] = g[k]
  PROVE  SumTo(g, n) + f[t] = SumTo(f, n) + g[t]
<1>1. /\ \A k \in Nat : Summand(f, k) \in Nat
      /\ \A k \in Nat : Summand(g, k) \in Nat
      /\ \A k \in Nat : k # t => Summand(f, k) = Summand(g, k)
  BY DEF Summand
<1>2. Summand(f, t) = f[t] /\ Summand(g, t) = g[t] /\ t \in Nat /\ t # 0 /\ t <= n
  BY DEF Summand
<1>3. SumTo(g, n) + (IF t <= n THEN Summand(f, t) ELSE 0)
        = SumTo(f, n) + (IF t <= n THEN Summand(g, t) ELSE 0)
  BY <1>1, <1>2, SumUpdate
<1> QED
  BY <1>2, <1>3

\* Larger values have the larger sum.
THEOREM SumLeq ==
  ASSUME NEW n \in Nat, NEW f \in [1..n -> Nat], NEW g \in [1..n -> Nat],
         \A k \in 1..n : f[k] <= g[k]
  PROVE  SumTo(f, n) <= SumTo(g, n)
<1>1. \A k \in Nat : Summand(f, k) \in Nat /\ Summand(g, k) \in Nat
                     /\ Summand(f, k) <= Summand(g, k)
  BY DEF Summand
<1>fs. /\ SumTo(f, 0) = 0
       /\ \A k \in Nat : SumTo(f, k + 1) = SumTo(f, k) + Summand(f, k + 1)
       /\ \A k \in Nat : SumTo(f, k) \in Nat
  <2>1. \A k \in Nat : Summand(f, k) \in Nat
    BY <1>1
  <2> QED BY <2>1, SumEquation
<1>gs. /\ SumTo(g, 0) = 0
       /\ \A k \in Nat : SumTo(g, k + 1) = SumTo(g, k) + Summand(g, k + 1)
       /\ \A k \in Nat : SumTo(g, k) \in Nat
  <2>1. \A k \in Nat : Summand(g, k) \in Nat
    BY <1>1
  <2> QED BY <2>1, SumEquation
<1> DEFINE T == {k \in Nat : SumTo(f, k) <= SumTo(g, k)}
<1>2. 0 \in T
  BY <1>fs, <1>gs
<1>3. ASSUME NEW k \in Nat, k \in T PROVE k + 1 \in T
  <2>1. /\ SumTo(f, k + 1) = SumTo(f, k) + Summand(f, k + 1)
        /\ SumTo(g, k + 1) = SumTo(g, k) + Summand(g, k + 1)
        /\ SumTo(f, k) \in Nat /\ SumTo(g, k) \in Nat
    BY <1>fs, <1>gs
  <2>2. Summand(f, k + 1) <= Summand(g, k + 1)
        /\ Summand(f, k + 1) \in Nat /\ Summand(g, k + 1) \in Nat
    <3>1. k + 1 \in Nat
      OBVIOUS
    <3> HIDE DEF T
    <3> QED BY <1>1, <3>1
  <2>c. SumTo(f, k) <= SumTo(g, k)
    BY <1>3
  <2> QED BY <2>1, <2>2, <2>c
<1> HIDE DEF T
<1>4. \A k \in Nat : k \in T
  BY <1>2, <1>3, SetInduction
<1> QED
  BY <1>4 DEF T

\* Equal values have equal sums.
THEOREM SumSame ==
  ASSUME NEW n \in Nat, NEW f \in [1..n -> Nat], NEW g \in [1..n -> Nat],
         \A k \in 1..n : f[k] = g[k]
  PROVE  SumTo(f, n) = SumTo(g, n)
<1>1. f = g
  OBVIOUS
<1> QED
  BY <1>1

\* The sum of sums is the sum of both.
THEOREM SumPlus ==
  ASSUME NEW n \in Nat, NEW f \in [1..n -> Nat], NEW g \in [1..n -> Nat],
         NEW h \in [1..n -> Nat], \A k \in 1..n : h[k] = f[k] + g[k]
  PROVE  SumTo(h, n) = SumTo(f, n) + SumTo(g, n)
<1>1. \A k \in Nat : /\ Summand(f, k) \in Nat /\ Summand(g, k) \in Nat /\ Summand(h, k) \in Nat
                     /\ Summand(h, k) = Summand(f, k) + Summand(g, k)
  BY DEF Summand
<1>fs. /\ SumTo(f, 0) = 0
       /\ \A k \in Nat : SumTo(f, k + 1) = SumTo(f, k) + Summand(f, k + 1)
       /\ \A k \in Nat : SumTo(f, k) \in Nat
  <2>1. \A k \in Nat : Summand(f, k) \in Nat
    BY <1>1
  <2> QED BY <2>1, SumEquation
<1>gs. /\ SumTo(g, 0) = 0
       /\ \A k \in Nat : SumTo(g, k + 1) = SumTo(g, k) + Summand(g, k + 1)
       /\ \A k \in Nat : SumTo(g, k) \in Nat
  <2>1. \A k \in Nat : Summand(g, k) \in Nat
    BY <1>1
  <2> QED BY <2>1, SumEquation
<1>hs. /\ SumTo(h, 0) = 0
       /\ \A k \in Nat : SumTo(h, k + 1) = SumTo(h, k) + Summand(h, k + 1)
       /\ \A k \in Nat : SumTo(h, k) \in Nat
  <2>1. \A k \in Nat : Summand(h, k) \in Nat
    BY <1>1
  <2> QED BY <2>1, SumEquation
<1> DEFINE T == {k \in Nat : SumTo(h, k) = SumTo(f, k) + SumTo(g, k)}
<1>2. 0 \in T
  BY <1>fs, <1>gs, <1>hs
<1>3. ASSUME NEW k \in Nat, k \in T PROVE k + 1 \in T
  <2>1. /\ SumTo(f, k + 1) = SumTo(f, k) + Summand(f, k + 1)
        /\ SumTo(g, k + 1) = SumTo(g, k) + Summand(g, k + 1)
        /\ SumTo(h, k + 1) = SumTo(h, k) + Summand(h, k + 1)
        /\ SumTo(f, k) \in Nat /\ SumTo(g, k) \in Nat /\ SumTo(h, k) \in Nat
    BY <1>fs, <1>gs, <1>hs
  <2>2. /\ Summand(h, k + 1) = Summand(f, k + 1) + Summand(g, k + 1)
        /\ Summand(f, k + 1) \in Nat /\ Summand(g, k + 1) \in Nat
    <3>1. k + 1 \in Nat
      OBVIOUS
    <3> HIDE DEF T
    <3> QED BY <1>1, <3>1
  <2>c. SumTo(h, k) = SumTo(f, k) + SumTo(g, k)
    BY <1>3
  <2> QED BY <2>1, <2>2, <2>c
<1> HIDE DEF T
<1>4. \A k \in Nat : k \in T
  BY <1>2, <1>3, SetInduction
<1> QED
  BY <1>4 DEF T

\* A common factor comes out of the sum.
THEOREM SumScaled ==
  ASSUME NEW n \in Nat, NEW m \in Nat, NEW f \in [1..n -> Nat], NEW g \in [1..n -> Nat],
         \A k \in 1..n : g[k] = m * f[k]
  PROVE  SumTo(g, n) = m * SumTo(f, n)
<1>1. \A k \in Nat : /\ Summand(f, k) \in Nat /\ Summand(g, k) \in Nat
                     /\ Summand(g, k) = m * Summand(f, k)
  BY DEF Summand
<1>fs. /\ SumTo(f, 0) = 0
       /\ \A k \in Nat : SumTo(f, k + 1) = SumTo(f, k) + Summand(f, k + 1)
       /\ \A k \in Nat : SumTo(f, k) \in Nat
  <2>1. \A k \in Nat : Summand(f, k) \in Nat
    BY <1>1
  <2> QED BY <2>1, SumEquation
<1>gs. /\ SumTo(g, 0) = 0
       /\ \A k \in Nat : SumTo(g, k + 1) = SumTo(g, k) + Summand(g, k + 1)
       /\ \A k \in Nat : SumTo(g, k) \in Nat
  <2>1. \A k \in Nat : Summand(g, k) \in Nat
    BY <1>1
  <2> QED BY <2>1, SumEquation
<1> DEFINE T == {k \in Nat : SumTo(g, k) = m * SumTo(f, k)}
<1>2. 0 \in T
  BY <1>fs, <1>gs
<1>3. ASSUME NEW k \in Nat, k \in T PROVE k + 1 \in T
  <2>1. /\ SumTo(f, k + 1) = SumTo(f, k) + Summand(f, k + 1)
        /\ SumTo(g, k + 1) = SumTo(g, k) + Summand(g, k + 1)
        /\ SumTo(f, k) \in Nat /\ SumTo(g, k) \in Nat
    BY <1>fs, <1>gs
  <2>2. /\ Summand(g, k + 1) = m * Summand(f, k + 1) /\ Summand(f, k + 1) \in Nat
    <3>1. k + 1 \in Nat
      OBVIOUS
    <3> HIDE DEF T
    <3> QED BY <1>1, <3>1
  <2>c. SumTo(g, k) = m * SumTo(f, k)
    BY <1>3
  <2>3. \A x, y \in Nat : m * (x + y) = m * x + m * y
    OBVIOUS
  <2> QED BY <2>1, <2>2, <2>c, <2>3
<1> HIDE DEF T
<1>4. \A k \in Nat : k \in T
  BY <1>2, <1>3, SetInduction
<1> QED
  BY <1>4 DEF T

\* A table of naturals has the same total by rows and by columns.
THEOREM SumSwap ==
  ASSUME NEW n \in Nat, NEW m \in Nat,
         NEW f \in [1..n -> [1..m -> Nat]], NEW g \in [1..m -> [1..n -> Nat]],
         \A i \in 1..n, j \in 1..m : g[j][i] = f[i][j],
         NEW r \in [1..n -> Nat], \A i \in 1..n : r[i] = SumTo(f[i], m),
         NEW c \in [1..m -> Nat], \A j \in 1..m : c[j] = SumTo(g[j], n)
  PROVE  SumTo(r, n) = SumTo(c, m)
<1> DEFINE C(k) == [j \in 1..m |-> SumTo(g[j], k)]
<1> DEFINE T == {k \in Nat : k <= n => SumTo(r, k) = SumTo(C(k), m)}
<1>1. \A j \in 1..m : \A k \in Nat : /\ Summand(g[j], k) \in Nat
                                     /\ SumTo(g[j], 0) = 0
                                     /\ SumTo(g[j], k + 1) = SumTo(g[j], k) + Summand(g[j], k + 1)
                                     /\ SumTo(g[j], k) \in Nat
  <2> TAKE j \in 1..m
  <2>1. g[j] \in [1..n -> Nat]
    OBVIOUS
  <2>2. \A k \in Nat : Summand(g[j], k) \in Nat
    BY <2>1 DEF Summand
  <2> QED BY <2>2, SumEquation
<1>2. /\ SumTo(r, 0) = 0
      /\ \A k \in Nat : SumTo(r, k + 1) = SumTo(r, k) + Summand(r, k + 1)
  <2>1. \A k \in Nat : Summand(r, k) \in Nat
    BY DEF Summand
  <2> QED BY <2>1, SumEquation
<1>3. 0 \in T
  <2>1. C(0) \in [1..m -> Nat] /\ \A j \in 1..m : C(0)[j] = 0
    BY <1>1
  <2>2. \A k \in Nat : Summand(C(0), k) = 0
    BY <2>1 DEF Summand
  <2>3. SumTo(C(0), m) = 0
    <3> HIDE DEF C
    <3> QED BY <2>2, SumOfZeros
  <2>4. SumTo(r, 0) = 0
    BY <1>2
  <2> QED BY <2>3, <2>4
<1>4. ASSUME NEW k \in Nat, k \in T PROVE k + 1 \in T
  <2> SUFFICES ASSUME k + 1 <= n PROVE SumTo(r, k + 1) = SumTo(C(k + 1), m)
    OBVIOUS
  <2>1. k + 1 \in 1..n /\ k + 1 \in Nat
    OBVIOUS
  <2>2. SumTo(r, k + 1) = SumTo(r, k) + r[k + 1]
    BY <1>2, <2>1 DEF Summand
  <2>3. C(k) \in [1..m -> Nat] /\ C(k + 1) \in [1..m -> Nat] /\ f[k + 1] \in [1..m -> Nat]
    BY <1>1, <2>1
  <2>4. \A j \in 1..m : Summand(g[j], k + 1) = f[k + 1][j]
    BY <2>1 DEF Summand
  <2>5. \A j \in 1..m : C(k + 1)[j] = C(k)[j] + f[k + 1][j]
    BY <1>1, <2>4
  <2>6. SumTo(C(k + 1), m) = SumTo(C(k), m) + SumTo(f[k + 1], m)
    <3> HIDE DEF C
    <3> QED BY <2>3, <2>5, SumPlus
  <2>7. SumTo(r, k) = SumTo(C(k), m)
    BY <1>4
  <2>8. r[k + 1] = SumTo(f[k + 1], m)
    BY <2>1
  <2> HIDE DEF C
  <2> QED BY <2>2, <2>6, <2>7, <2>8
<1> HIDE DEF T
<1>5. n \in T
  BY <1>3, <1>4, SetInduction
<1>6. SumTo(r, n) = SumTo(C(n), m)
  BY <1>5 DEF T
<1>7. C(n) = c
  OBVIOUS
<1> HIDE DEF C
<1> QED
  BY <1>6, <1>7

=============================================================================
