----------------------------- MODULE Sums_proofs -----------------------------
(***************************************************************************)
(* Facts about sums, and the induction they rest on.  An induction         *)
(* principle over predicates cannot be instantiated by the provers, one    *)
(* over sets can: the set of the numbers that have the property.           *)
(***************************************************************************)
EXTENDS Sums, WellFoundedInduction, TLAPS

-----------------------------------------------------------------------------
\* Induction.

\* A set with 0 that is closed under successor has all naturals.
LEMMA Induct ==
  ASSUME NEW S, 0 \in S, \A n \in Nat : n \in S => n + 1 \in S
  PROVE  \A n \in Nat : n \in S
  <1> DEFINE T == Nat \ S
  <1> SUFFICES ASSUME T # {} PROVE FALSE
    OBVIOUS
  <1>1. IsWellFoundedOn(OpToRel(<, Nat), Nat)
    BY NatLessThanWellFounded
  <1>2. PICK x \in T : \A y \in T : ~ (<<y, x>> \in OpToRel(<, Nat))
    BY <1>1, WFMin
  <1>3. \A y \in T : ~ (y < x)
    BY <1>2 DEF OpToRel
  <1>4. x \in Nat /\ x # 0 /\ x - 1 \in Nat /\ x - 1 \in S
    BY <1>3
  <1> QED  BY <1>4

\* The same up to a bound.
LEMMA InductTo ==
  ASSUME NEW m \in Nat, NEW S, 0 \in S, \A n \in 0..m-1 : n \in S => n + 1 \in S
  PROVE  \A n \in 0..m : n \in S
  <1> DEFINE T == {n \in Nat : n <= m => n \in S}
  <1>1. 0 \in T
    OBVIOUS
  <1>2. ASSUME NEW n \in Nat, n \in T PROVE n + 1 \in T
    BY <1>2
  <1> HIDE DEF T
  <1>3. \A n \in Nat : n \in T
    BY <1>1, <1>2, Induct
  <1> QED  BY <1>3 DEF T

-----------------------------------------------------------------------------
\* Sums.

\* g sums up f as far as m.
IsSum(g, f, m) == g = [n \in 0..m |-> IF n = 0 THEN 0 ELSE g[n - 1] + f[n]]

\* There is such a function, of integers.
LEMMA SumExists ==
  ASSUME NEW m \in Nat, NEW f, \A n \in 1..m : f[n] \in Int
  PROVE  \E g \in [0..m -> Int] : IsSum(g, f, m)
  <1> DEFINE S == {k \in Nat : \E g \in [0..k -> Int] : IsSum(g, f, k)}
  <1>1. 0 \in S
    <2> DEFINE g == [n \in 0..0 |-> 0]
    <2>1. g \in [0..0 -> Int] /\ IsSum(g, f, 0)
      BY DEF IsSum
    <2> QED  BY <2>1
  <1>2. ASSUME NEW k \in 0..m-1, k \in S PROVE k + 1 \in S
    <2>1. PICK g \in [0..k -> Int] : IsSum(g, f, k)
      BY <1>2
    <2> DEFINE h == [n \in 0..k+1 |-> IF n = k + 1 THEN g[k] + f[k + 1] ELSE g[n]]
    <2>2. h \in [0..k+1 -> Int]
      BY <2>1
    <2>3. ASSUME NEW n \in 0..k+1
          PROVE  h[n] = IF n = 0 THEN 0 ELSE h[n - 1] + f[n]
      BY <2>1, <2>3 DEF IsSum
    <2>4. IsSum(h, f, k + 1)
      <3> HIDE DEF h
      <3> QED  BY <2>2, <2>3 DEF IsSum
    <2> HIDE DEF h
    <2> QED  BY <2>2, <2>4
  <1> HIDE DEF S
  <1>3. \A k \in 0..m : k \in S
    BY <1>1, <1>2, InductTo
  <1> QED  BY <1>3 DEF S

\* It is unique, as far as it goes.
LEMMA SumUnique ==
  ASSUME NEW m \in Nat, NEW k \in 0..m, NEW f, NEW e, NEW g, NEW h,
         \A n \in 1..k : f[n] = e[n],
         IsSum(g, f, m), IsSum(h, e, k)
  PROVE  g[k] = h[k]
  <1> DEFINE S == {n \in Nat : g[n] = h[n]}
  <1>1. 0 \in S
    BY DEF IsSum
  <1>2. ASSUME NEW n \in 0..k-1, n \in S PROVE n + 1 \in S
    BY <1>2 DEF IsSum
  <1> HIDE DEF S
  <1>3. k \in S
    BY <1>1, <1>2, InductTo
  <1> QED  BY <1>3 DEF S

\* SumOf is that function at the end.
LEMMA SumIs ==
  ASSUME NEW m \in Nat, NEW f, \A n \in 1..m : f[n] \in Int
  PROVE  \E g \in [0..m -> Int] : IsSum(g, f, m) /\ SumOf(f, m) = g[m]
  <1> DEFINE sum == CHOOSE g : IsSum(g, f, m)
  <1>1. PICK g \in [0..m -> Int] : IsSum(g, f, m)
    BY SumExists
  <1>2. IsSum(sum, f, m)
    BY <1>1
  <1>3. SumOf(f, m) = sum[m]
    BY DEF SumOf, IsSum
  <1>4. sum[m] = g[m]
    <2> HIDE DEF sum
    <2> QED  BY <1>1, <1>2, SumUnique
  <1> QED  BY <1>1, <1>3, <1>4

\* The sum of no terms.
LEMMA SumZero == \A f : SumOf(f, 0) = 0
  <1> SUFFICES ASSUME NEW f PROVE SumOf(f, 0) = 0
    OBVIOUS
  <1> DEFINE sum == CHOOSE g : IsSum(g, f, 0)
  <1>1. IsSum([n \in 0..0 |-> 0], f, 0)
    BY DEF IsSum
  <1>2. IsSum(sum, f, 0)
    BY <1>1
  <1>3. SumOf(f, 0) = sum[0]
    BY DEF SumOf, IsSum
  <1>4. sum[0] = 0
    <2> HIDE DEF sum
    <2> QED  BY <1>2 DEF IsSum
  <1> QED  BY <1>3, <1>4

\* The sum of one more term.
LEMMA SumMore ==
  ASSUME NEW m \in Nat, NEW f, \A n \in 1..m+1 : f[n] \in Int
  PROVE  /\ SumOf(f, m) \in Int
         /\ SumOf(f, m + 1) = SumOf(f, m) + f[m + 1]
  <1>1. PICK g \in [0..m+1 -> Int] : IsSum(g, f, m + 1) /\ SumOf(f, m + 1) = g[m + 1]
    BY SumIs
  <1> DEFINE e == [n \in 1..m |-> f[n]]
  <1>2. \A n \in 1..m : e[n] \in Int
    OBVIOUS
  <1>3. \A n \in 1..m : f[n] = e[n]
    OBVIOUS
  <1> HIDE DEF e
  <1>4. PICK h \in [0..m -> Int] : IsSum(h, e, m)
    BY <1>2, SumExists
  <1>5. IsSum(h, f, m)
    BY <1>3, <1>4 DEF IsSum
  <1> DEFINE sum == CHOOSE s : IsSum(s, f, m)
  <1>6. IsSum(sum, f, m)
    BY <1>5
  <1>7. SumOf(f, m) = sum[m]
    BY DEF SumOf, IsSum
  <1>8. sum[m] = h[m] /\ g[m] = h[m]
    <2> HIDE DEF sum
    <2>1. g[m] = h[m]
      <3>1. m + 1 \in Nat /\ m \in 0..m+1 /\ \A n \in 1..m : f[n] = f[n]
        OBVIOUS
      <3> QED  BY <1>1, <1>5, <3>1, SumUnique
    <2>2. sum[m] = h[m]
      BY <1>5, <1>6, SumUnique
    <2> QED  BY <2>1, <2>2
  <1>9. g[m + 1] = g[m] + f[m + 1]
    BY <1>1 DEF IsSum
  <1> QED  BY <1>1, <1>4, <1>7, <1>8, <1>9

\* A sum depends only on what it sums up.
LEMMA SumSame ==
  ASSUME NEW m \in Nat, NEW f, NEW e,
         \A n \in 1..m : f[n] \in Int /\ f[n] = e[n]
  PROVE  SumOf(f, m) = SumOf(e, m)
  <1> DEFINE S == {n \in Nat : SumOf(f, n) = SumOf(e, n)}
  <1>1. 0 \in S
    BY SumZero
  <1>2. ASSUME NEW n \in 0..m-1, n \in S PROVE n + 1 \in S
    <2>1. /\ n \in Nat
          /\ \A i \in 1..n+1 : f[i] \in Int
          /\ \A i \in 1..n+1 : e[i] \in Int
          /\ f[n + 1] = e[n + 1]
      OBVIOUS
    <2>2. SumOf(f, n + 1) = SumOf(f, n) + f[n + 1]
      BY <2>1, SumMore
    <2>3. SumOf(e, n + 1) = SumOf(e, n) + e[n + 1]
      BY <2>1, SumMore
    <2> QED  BY <1>2, <2>1, <2>2, <2>3
  <1> HIDE DEF S
  <1>3. \A n \in 0..m : n \in S
    BY <1>1, <1>2, InductTo
  <1> QED  BY <1>3 DEF S

\* A sum of natural numbers is one.
LEMMA SumNat ==
  ASSUME NEW m \in Nat, NEW f, \A n \in 1..m : f[n] \in Nat
  PROVE  SumOf(f, m) \in Nat
  <1> DEFINE S == {n \in Nat : SumOf(f, n) \in Nat}
  <1>1. 0 \in S
    BY SumZero
  <1>2. ASSUME NEW n \in 0..m-1, n \in S PROVE n + 1 \in S
    <2>1. n \in Nat /\ \A i \in 1..n+1 : f[i] \in Nat
      OBVIOUS
    <2>2. SumOf(f, n + 1) = SumOf(f, n) + f[n + 1]
      BY <2>1, SumMore
    <2> QED  BY <1>2, <2>1, <2>2
  <1> HIDE DEF S
  <1>3. \A n \in 0..m : n \in S
    BY <1>1, <1>2, InductTo
  <1> QED  BY <1>3 DEF S

\* A sum of zeros is zero.
LEMMA SumNone ==
  ASSUME NEW m \in Nat, NEW f, \A n \in 1..m : f[n] = 0
  PROVE  SumOf(f, m) = 0
  <1> DEFINE S == {n \in Nat : SumOf(f, n) = 0}
  <1>1. 0 \in S
    BY SumZero
  <1>2. ASSUME NEW n \in 0..m-1, n \in S PROVE n + 1 \in S
    <2>1. n \in Nat /\ f[n + 1] = 0 /\ \A i \in 1..n+1 : f[i] \in Int
      OBVIOUS
    <2>2. SumOf(f, n + 1) = SumOf(f, n) + f[n + 1]
      BY <2>1, SumMore
    <2> QED  BY <1>2, <2>1, <2>2
  <1> HIDE DEF S
  <1>3. \A n \in 0..m : n \in S
    BY <1>1, <1>2, InductTo
  <1>4. m \in S
    BY <1>3
  <1> QED  BY <1>4 DEF S

\* The sum of one term.
LEMMA SumOne ==
  ASSUME NEW f, f[1] \in Int
  PROVE  SumOf(f, 1) = f[1]
  <1>1. \A n \in 1..0+1 : f[n] \in Int
    OBVIOUS
  <1>2. SumOf(f, 0 + 1) = SumOf(f, 0) + f[0 + 1]
    BY <1>1, SumMore
  <1> QED  BY <1>2, SumZero

\* It changes by what one of its terms changes.
LEMMA SumChange ==
  ASSUME NEW m \in Nat, NEW f, NEW e, NEW i \in 1..m,
         \A n \in 1..m : f[n] \in Int /\ e[n] \in Int,
         \A n \in 1..m : n # i => f[n] = e[n]
  PROVE  SumOf(e, m) = SumOf(f, m) + e[i] - f[i]
  <1> DEFINE S == {n \in Nat : SumOf(e, n) = IF n < i THEN SumOf(f, n)
                                            ELSE SumOf(f, n) + e[i] - f[i]}
  <1>1. 0 \in S
    BY SumZero
  <1>2. ASSUME NEW n \in 0..m-1, n \in S PROVE n + 1 \in S
    <2>1. n \in Nat /\ n + 1 \in 1..m /\ \A j \in 1..n+1 : f[j] \in Int
      OBVIOUS
    <2>2. \A j \in 1..n+1 : e[j] \in Int
      OBVIOUS
    <2>3. SumOf(f, n) \in Int /\ SumOf(f, n + 1) = SumOf(f, n) + f[n + 1]
      BY <2>1, SumMore
    <2>4. SumOf(e, n) \in Int /\ SumOf(e, n + 1) = SumOf(e, n) + e[n + 1]
      BY <2>1, <2>2, SumMore
    <2>5. CASE n + 1 = i
      BY <1>2, <2>1, <2>3, <2>4, <2>5
    <2>6. CASE n + 1 # i
      <3>1. f[n + 1] = e[n + 1] /\ (n + 1 < i <=> n < i)
        BY <2>1, <2>6
      <3>2. f[i] \in Int /\ e[i] \in Int /\ f[n + 1] \in Int
        BY <2>1
      <3> QED  BY <1>2, <2>1, <2>3, <2>4, <3>1, <3>2
    <2> QED  BY <2>5, <2>6
  <1> HIDE DEF S
  <1>3. \A n \in 0..m : n \in S
    BY <1>1, <1>2, InductTo
  <1>4. m \in S /\ ~(m < i)
    BY <1>3
  <1> QED  BY <1>4 DEF S

\* Clearing some terms, each once, takes their sum away.
LEMMA SumClear ==
  ASSUME NEW m \in Nat, NEW c \in Nat, NEW f, NEW e, NEW at, NEW taken,
         \A n \in 1..m : f[n] \in Int,
         \A j \in 1..c : at[j] \in 1..m,
         \A i, j \in 1..c : at[i] = at[j] => i = j,
         \A j \in 1..c : taken[j] = f[at[j]],
         \A j \in 1..c : e[at[j]] = 0,
         \A n \in 1..m : (\A j \in 1..c : at[j] # n) => e[n] = f[n]
  PROVE  SumOf(e, m) = SumOf(f, m) - SumOf(taken, c)
  <1> DEFINE
        Cleared(k) == [n \in 1..m |-> IF \E j \in 1..k : at[j] = n THEN 0 ELSE f[n]]
        S == {k \in Nat : SumOf(Cleared(k), m) = SumOf(f, m) - SumOf(taken, k)}
  <1>t. \A j \in 1..c : taken[j] = f[at[j]] /\ taken[j] \in Int
    OBVIOUS
  <1>c. ASSUME NEW k \in 0..c
        PROVE  /\ \A n \in 1..m : Cleared(k)[n] \in Int
               /\ \A n \in 1..m : Cleared(k)[n] = IF \E j \in 1..k : at[j] = n THEN 0 ELSE f[n]
    OBVIOUS
  <1>f. SumOf(f, m) \in Int
    <2>1. PICK g \in [0..m -> Int] : SumOf(f, m) = g[m]
      BY SumIs
    <2> QED  BY <2>1
  <1> HIDE DEF Cleared
  <1>1. 0 \in S
    <2>1. \A n \in 1..m : Cleared(0)[n] \in Int /\ Cleared(0)[n] = f[n]
      BY <1>c
    <2>2. SumOf(Cleared(0), m) = SumOf(f, m)
      BY <2>1, SumSame
    <2> QED  BY <1>f, <2>2, SumZero
  <1>2. ASSUME NEW k \in 0..c-1, k \in S PROVE k + 1 \in S
    <2>0. PICK i \in 1..m : i = at[k + 1]
      OBVIOUS
    <2>1. k \in Nat /\ i \in 1..m /\ k + 1 \in 1..c /\ k \in 0..c /\ k + 1 \in 0..c
      OBVIOUS
    <2>2. \A n \in 1..m : n # i => Cleared(k)[n] = Cleared(k + 1)[n]
      <3> SUFFICES ASSUME NEW n \in 1..m, n # i
                   PROVE  Cleared(k)[n] = Cleared(k + 1)[n]
        OBVIOUS
      <3>1. (\E j \in 1..k : at[j] = n) <=> (\E j \in 1..k+1 : at[j] = n)
        BY <2>0
      <3> QED  BY <1>c, <2>1, <3>1
    <2>3. Cleared(k)[i] = f[i] /\ Cleared(k + 1)[i] = 0
      <3>1. ~ \E j \in 1..k : at[j] = i
        BY <2>0, <2>1
      <3>2. \E j \in 1..k+1 : at[j] = i
        BY <2>0
      <3> QED  BY <1>c, <2>1, <3>1, <3>2
    <2>4. /\ \A n \in 1..m : Cleared(k)[n] \in Int /\ Cleared(k + 1)[n] \in Int
      BY <1>c, <2>1
    <2>5. SumOf(Cleared(k + 1), m) = SumOf(Cleared(k), m) + 0 - f[i]
      <3> DEFINE a == Cleared(k)
                 b == Cleared(k + 1)
      <3>1. /\ \A n \in 1..m : a[n] \in Int /\ b[n] \in Int
            /\ \A n \in 1..m : n # i => a[n] = b[n]
            /\ a[i] = f[i] /\ b[i] = 0 /\ i \in 1..m
        BY <2>1, <2>2, <2>3, <2>4
      <3> HIDE DEF a, b
      <3>2. SumOf(b, m) = SumOf(a, m) + b[i] - a[i]
        <4>1. m \in Nat /\ i \in 1..m
          BY <3>1
        <4>2. \A n \in 1..m : a[n] \in Int /\ b[n] \in Int
          BY <3>1
        <4>3. \A n \in 1..m : n # i => a[n] = b[n]
          BY <3>1
        <4> QED  BY <4>1, <4>2, <4>3, SumChange
      <3>3. SumOf(b, m) = SumOf(a, m) + 0 - f[i]
        BY <3>1, <3>2
      <3> QED  BY <3>3 DEF a, b
    <2>6. SumOf(taken, k) \in Int /\ SumOf(taken, k + 1) = SumOf(taken, k) + f[i]
      <3>1. \A j \in 1..k+1 : taken[j] \in Int
        BY <1>t
      <3>2. taken[k + 1] = f[i]
        BY <1>t, <2>0, <2>1
      <3> QED  BY <2>1, <3>1, <3>2, SumMore
    <2>7. f[i] \in Int
      BY <2>1
    <2> QED  BY <1>2, <1>f, <2>1, <2>5, <2>6, <2>7
  <1>3. c \in S
    <2> HIDE DEF S
    <2>1. \A k \in 0..c : k \in S
      BY <1>1, <1>2, InductTo
    <2> QED  BY <2>1
  <1>4. SumOf(Cleared(c), m) = SumOf(e, m)
    <2>1. \A n \in 1..m : Cleared(c)[n] \in Int /\ Cleared(c)[n] = e[n]
      BY <1>c
    <2> QED  BY <2>1, SumSame
  <1> QED  BY <1>3, <1>4

=============================================================================
