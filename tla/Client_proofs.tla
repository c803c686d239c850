---------------------------- MODULE Client_proofs ----------------------------
(***************************************************************************)
(* What holds of clients for every width, field order, group order, struct *)
(* and ABI: signatures verify, an entity's hash binds its meaning in       *)
(* whatever order the fields of its struct are declared, an encoded call   *)
(* arrives, and a call that is read has one encoding.                      *)
(***************************************************************************)
EXTENDS Client, Sums_proofs, FiniteSetTheorems, TLAPS

-----------------------------------------------------------------------------
(***************************************************************************)
(* Quotients and remainders.                                               *)
(***************************************************************************)

\* What \div and % of Integers are.
LEMMA DivMod ==
  ASSUME NEW n \in Nat, n > 0, NEW x \in Int
  PROVE  /\ x \div n \in Int
         /\ x % n \in 0..n-1
         /\ x = (x \div n) * n + (x % n)
  OBVIOUS

\* A number has one quotient and one remainder.
LEMMA DivModUnique ==
  ASSUME NEW n \in Nat, n > 0,
         NEW a \in Int, NEW b \in Int, NEW r \in 0..n-1, NEW t \in 0..n-1,
         a * n + r = b * n + t
  PROVE  a = b /\ r = t
  <1>1. ASSUME NEW x \in Int, NEW y \in Int, x > y, NEW v \in 0..n-1, NEW w \in 0..n-1,
               x * n + v = y * n + w
        PROVE  FALSE
    <2> DEFINE d == x - y
    <2>1. d \in Int /\ d >= 1
      BY <1>1
    <2>2. d * n = w - v
      BY <1>1
    <2> HIDE DEF d
    <2>3. d * n = (d - 1) * n + n
      BY <2>1
    <2>4. (d - 1) * n >= 0
      BY <2>1
    <2> QED
      BY <2>1, <2>2, <2>3, <2>4
  <1>2. ~(a > b)
    BY <1>1
  <1>3. ~(b > a)
    BY <1>1
  <1> QED
    BY <1>2, <1>3

\* A quotient and a remainder are known by the number they make.
LEMMA DivModIs ==
  ASSUME NEW n \in Nat, n > 0, NEW x \in Int, NEW a \in Int, NEW r \in 0..n-1,
         x = a * n + r
  PROVE  x \div n = a /\ x % n = r
  <1>1. /\ x \div n \in Int
        /\ x % n \in 0..n-1
        /\ x = (x \div n) * n + (x % n)
    BY DivMod
  <1>2. a * n + r = (x \div n) * n + (x % n)
    BY <1>1
  <1> QED
    BY <1>1, <1>2, DivModUnique

-----------------------------------------------------------------------------
(***************************************************************************)
(* Signatures.                                                             *)
(***************************************************************************)

\* Whatever else a client does, it does not pass for a hash or a signature.
LEMMA OtherSteps ==
  ASSUME [Next]_vars, ~Produce, ~UNCHANGED vars
  PROVE  stage' \notin {"hashed", "reordered", "signed"}
  <1>1. ASSUME NEW given, NEW circuit, NEW w, NEW proof, Encode(given, circuit, w, proof)
        PROVE  stage' = "sent"
    BY <1>1 DEF Encode
  <1>2. Alter => stage' = "altered"
    BY DEF Alter
  <1>3. Receive => stage' \in {"received", "read"}
    BY DEF Receive
  <1> QED
    BY <1>1, <1>2, <1>3 DEF Next, SubmitAlloy, SubmitCircuit

\* A turn of the loop that gives a signature gives one that verifies: the
\* verifier recovers the nonce point (sign_bytes, verify_bytes).
LEMMA AttemptVerifies ==
  ASSUME NEW sk \in Scalars, NEW digests \in [0..Tries-1 -> Digests],
         NEW challenge \in [XCoords -> Digests], NEW c \in 0..Tries-1,
         Attempt(sk, digests, challenge, c).ok
  PROVE  VerifyBytes(PublicKey(sk), Attempt(sk, digests, challenge, c).value, challenge)
  <1> DEFINE k == ToScalar(digests[c])
             e == challenge[XCoord(k)]
             p == ToScalar(e) * sk
             s == (k - p) % Order
  <1>1. Order \in Nat /\ Order > 2 /\ Digests \subseteq Nat
    BY SchnorrAssumption
  <1>2. k \in 0..Order-1
    <2>1. digests[c] \in Nat
      BY <1>1
    <2> QED
      BY <1>1, <2>1, DivMod DEF ToScalar
  <1>3. /\ ~(k = 0 \/ PublicKey(sk) = Identity \/ ToScalar(e) = 0 \/ s = 0)
        /\ Attempt(sk, digests, challenge, c).value = [s |-> s, e |-> e]
    BY DEF Attempt, Ok, Err
  <1>4. XCoord(k) \in XCoords
    BY <1>2, <1>3 DEF XCoords, Scalars, Identity
  <1>5. e \in Nat
    BY <1>1, <1>4
  <1>6. p \in Int
    <2>1. ToScalar(e) \in 0..Order-1
      BY <1>1, <1>5, DivMod DEF ToScalar
    <2>2. sk \in Int
      BY <1>1 DEF Scalars
    <2> QED
      BY <2>1, <2>2
  <1>7. e # 0
    <2>1. 0 % Order = 0
      BY <1>1
    <2> QED
      BY <1>3, <2>1 DEF ToScalar
  <1>8. /\ (k - p) \div Order \in Int
        /\ s \in 0..Order-1
        /\ k - p = ((k - p) \div Order) * Order + s
    <2> HIDE DEF k, p
    <2>1. k - p \in Int
      BY <1>1, <1>2, <1>6
    <2> QED
      BY <1>1, <2>1, DivMod
  <1>9. (s + p) % Order = k /\ s % Order = s
    <2> DEFINE q == (k - p) \div Order
    <2> HIDE DEF k, p, s, q
    <2>1. q \in Int /\ k - p = q * Order + s
      BY <1>8 DEF q
    <2>2. s + p = (-q) * Order + k
      BY <2>1, <1>1, <1>2, <1>6, <1>8
    <2>3. s + p \in Int /\ -q \in Int
      BY <2>1, <1>1, <1>6, <1>8
    <2>4. Order > 0 /\ 0 \in Int
      BY <1>1
    <2>5. (s + p) % Order = k
      BY <1>1, <1>2, <2>2, <2>3, <2>4, DivModIs
    <2>6. s = 0 * Order + s /\ s \in Int /\ s \in 0..Order-1
      BY <1>1, <1>8
    <2>7. s % Order = s
      BY <1>1, <2>4, <2>6, DivModIs
    <2> QED
      BY <2>5, <2>7
  <1>10. ToScalar([s |-> s, e |-> e].s) = s
    BY <1>9 DEF ToScalar
  <1>11. (ToScalar(s) + ToScalar(e) * PublicKey(sk)) % Order = k
    BY <1>9 DEF ToScalar, PublicKey
  <1> HIDE DEF k, s
  <1> QED
    BY <1>3, <1>7, <1>11 DEF VerifyBytes, Identity, e

\* sign_bytes returns the signature of one of its turns, if one gives any.
LEMMA SignBytesIs ==
  ASSUME NEW sk, NEW digests, NEW challenge
  PROVE  LET good == {c \in 0..Tries-1 : Attempt(sk, digests, challenge, c).ok}
         IN IF good = {} THEN SignBytes(sk, digests, challenge) = Err
            ELSE \E c \in good :
                   SignBytes(sk, digests, challenge) = Attempt(sk, digests, challenge, c)
  <1> DEFINE good == {c \in 0..Tries-1 : Attempt(sk, digests, challenge, c).ok}
  <1>1. good \subseteq 0..1
    BY DEF Tries
  <1>2. ASSUME good # {} PROVE \E c \in good : \A d \in good : c <= d
    <2> HIDE DEF good
    <2>1. CASE 0 \in good
      BY <1>1, <2>1
    <2>2. CASE 0 \notin good
      <3>1. PICK c \in good : TRUE
        BY <1>2
      <3>2. \A d \in good : d = 1
        BY <1>1, <2>2
      <3> QED
        BY <3>1, <3>2
    <2> QED
      BY <2>1, <2>2
  <1> QED
    BY <1>2 DEF SignBytes

\* Every signature verifies, for every order, key, and behaviour of the hash
\* functions (signature.rs sign_bytes, verify_bytes).
THEOREM Signatures == Spec => []SignedVerifies
  <1>1. Init => SignedVerifies
    BY DEF Init, SignedVerifies
  <1>2. ASSUME SignedVerifies, [Next]_vars
        PROVE  SignedVerifies'
    <2>1. ASSUME NEW e \in Entities, NEW sorts \in BOOLEAN, HashEntity(e, sorts)
          PROVE  SignedVerifies'
      BY <2>1 DEF HashEntity, SignedVerifies
    <2>2. ASSUME NEW fields \in Variants, NEW order \in Reorders, HashReordered(fields, order)
          PROVE  SignedVerifies'
      BY <2>2 DEF HashReordered, SignedVerifies
    <2>3. ASSUME NEW sk \in Scalars, NEW digests \in [0..Tries-1 -> Digests],
                 NEW challenge \in [XCoords -> Digests], Sign(sk, digests, challenge)
          PROVE  SignedVerifies'
      <3> DEFINE good == {c \in 0..Tries-1 : Attempt(sk, digests, challenge, c).ok}
                 sig  == SignBytes(sk, digests, challenge)
      <3>1. /\ item'.pk = PublicKey(sk) /\ item'.challenge = challenge
            /\ item'.usable = (good # {}) /\ item'.signature = sig
        BY <2>3 DEF Sign
      <3>2. IF good = {} THEN sig = Err
            ELSE \E c \in good : sig = Attempt(sk, digests, challenge, c)
        BY SignBytesIs
      <3>3. CASE good = {}
        <4>1. ~item'.usable
          BY <3>1, <3>3
        <4>2. ~item'.signature.ok
          BY <3>1, <3>2, <3>3 DEF Err
        <4> QED
          BY <4>1, <4>2 DEF SignedVerifies
      <3>4. CASE good # {}
        <4>1. PICK c \in good : sig = Attempt(sk, digests, challenge, c)
          BY <3>2, <3>4
        <4>2. sig.ok /\ VerifyBytes(PublicKey(sk), sig.value, challenge)
          BY <4>1, AttemptVerifies
        <4> QED
          BY <3>1, <3>4, <4>2 DEF SignedVerifies
      <3> QED
        BY <3>3, <3>4
    <2>4. CASE ~Produce /\ ~UNCHANGED vars
      BY <1>2, <2>4, OtherSteps DEF SignedVerifies
    <2>5. CASE UNCHANGED vars
      BY <1>2, <2>5 DEF vars, SignedVerifies
    <2> QED
      BY <1>2, <2>1, <2>2, <2>3, <2>4, <2>5 DEF Produce
  <1> QED
    BY <1>1, <1>2, PTL DEF Spec

-----------------------------------------------------------------------------
(***************************************************************************)
(* Sets in order.                                                          *)
(***************************************************************************)

\* Of the keyed members of a finite set, one is largest, if there are any.
LEMMA Largest ==
  ASSUME NEW U, IsFiniteSet(U), U # {}, NEW key, \A x \in U : key[x] \in Int
  PROVE  \E m \in U : \A x \in U : key[x] <= key[m]
  <1> DEFINE T == {n \in Nat : \A S \in SUBSET U :
                     S # {} /\ Cardinality(S) = n =>
                       \E m \in S : \A x \in S : key[x] <= key[m]}
  <1>1. 0 \in T
    <2>1. ASSUME NEW S \in SUBSET U, S # {} PROVE Cardinality(S) # 0
      <3>1. IsFiniteSet(S)
        BY FS_Subset
      <3> QED
        BY <2>1, <3>1, FS_EmptySet
    <2> QED
      BY <2>1
  <1>2. ASSUME NEW n \in Nat, n \in T PROVE n + 1 \in T
    <2>1. ASSUME NEW S \in SUBSET U, S # {}, Cardinality(S) = n + 1
          PROVE  \E m \in S : \A x \in S : key[x] <= key[m]
      <3>1. PICK y \in S : TRUE
        BY <2>1
      <3>2. IsFiniteSet(S)
        BY FS_Subset
      <3>3. Cardinality(S \ {y}) = Cardinality(S) - 1
        BY <3>1, <3>2, FS_RemoveElement
      <3>4. Cardinality(S \ {y}) = n
        BY <2>1, <3>3
      <3>5. CASE S \ {y} = {}
        BY <3>1, <3>5
      <3>6. CASE S \ {y} # {}
        <4>1. PICK m \in S \ {y} : \A x \in S \ {y} : key[x] <= key[m]
          BY <1>2, <3>4, <3>6
        <4>2. CASE key[m] <= key[y]
          BY <4>1, <4>2, <3>1
        <4>3. CASE key[y] < key[m]
          BY <4>1, <4>3, <3>1
        <4> QED
          BY <4>1, <4>2, <4>3, <3>1
      <3> QED
        BY <3>5, <3>6
    <2> QED
      BY <2>1
  <1>3. \A n \in Nat : n \in T
    <2> HIDE DEF T
    <2> QED
      BY <1>1, <1>2, Induct
  <1>4. Cardinality(U) \in Nat /\ U \in SUBSET U
    BY FS_CardinalityType
  <1> QED
    BY <1>3, <1>4

\* A finite set whose members have different keys can be put in order.
LEMMA OrderExists ==
  ASSUME NEW U, IsFiniteSet(U), NEW key, \A x \in U : key[x] \in Int,
         \A x, y \in U : key[x] = key[y] => x = y
  PROVE  \E s \in [1..Cardinality(U) -> U] :
           \A i, j \in 1..Cardinality(U) : i < j => key[s[i]] < key[s[j]]
  <1> DEFINE Ordered(S, n) ==
               \E s \in [1..n -> S] : \A i, j \in 1..n : i < j => key[s[i]] < key[s[j]]
             T == {n \in Nat : \A S \in SUBSET U : Cardinality(S) = n => Ordered(S, n)}
  <1>1. 0 \in T
    <2>1. ASSUME NEW S \in SUBSET U PROVE Ordered(S, 0)
      <3>1. 1..0 = {}
        OBVIOUS
      <3>2. [i \in 1..0 |-> i] \in [1..0 -> S]
        BY <3>1
      <3> QED
        BY <3>1, <3>2
    <2> HIDE DEF Ordered
    <2> QED
      BY <2>1
  <1>2. ASSUME NEW n \in Nat, n \in T PROVE n + 1 \in T
    <2>1. ASSUME NEW S \in SUBSET U, Cardinality(S) = n + 1
          PROVE  Ordered(S, n + 1)
      <3>1. IsFiniteSet(S)
        BY FS_Subset
      <3>2. S # {}
        BY <2>1, FS_EmptySet
      <3>3. PICK m \in S : \A x \in S : key[x] <= key[m]
        <4>1. \A x \in S : key[x] \in Int
          OBVIOUS
        <4> QED
          BY <3>1, <3>2, <4>1, Largest
      <3>4. Cardinality(S \ {m}) = Cardinality(S) - 1
        BY <3>1, <3>3, FS_RemoveElement
      <3>5. Ordered(S \ {m}, n)
        BY <1>2, <2>1, <3>4
      <3>6. PICK s \in [1..n -> S \ {m}] : \A i, j \in 1..n : i < j => key[s[i]] < key[s[j]]
        BY <3>5
      <3> DEFINE t == [i \in 1..n+1 |-> IF i = n + 1 THEN m ELSE s[i]]
      <3>7. t \in [1..n+1 -> S]
        BY <3>3, <3>6
      <3>8. ASSUME NEW i \in 1..n+1, NEW j \in 1..n+1, i < j PROVE key[t[i]] < key[t[j]]
        <4>1. i \in 1..n /\ t[i] = s[i]
          BY <3>8
        <4>2. CASE j = n + 1
          <5>1. s[i] \in S /\ s[i] # m /\ t[j] = m
            BY <4>1, <4>2, <3>6
          <5>2. key[s[i]] # key[m] /\ key[s[i]] <= key[m]
            BY <5>1, <3>3
          <5>3. key[s[i]] \in Int /\ key[m] \in Int
            BY <5>1
          <5> QED
            BY <4>1, <5>1, <5>2, <5>3
        <4>3. CASE j # n + 1
          <5>1. j \in 1..n /\ t[j] = s[j]
            BY <4>3
          <5> QED
            BY <4>1, <5>1, <3>6, <3>8
        <4> QED
          BY <4>2, <4>3
      <3> HIDE DEF t
      <3> QED
        BY <3>7, <3>8
    <2> HIDE DEF Ordered
    <2> QED
      BY <2>1
  <1>3. \A n \in Nat : n \in T
    <2> HIDE DEF T
    <2> QED
      BY <1>1, <1>2, Induct
  <1>4. Cardinality(U) \in Nat /\ U \in SUBSET U
    BY FS_CardinalityType
  <1> QED
    BY <1>3, <1>4

\* InOrder is such an order, and leaves nothing out.
LEMMA InOrderIs ==
  ASSUME NEW U, IsFiniteSet(U), NEW key, \A x \in U : key[x] \in Int,
         \A x, y \in U : key[x] = key[y] => x = y
  PROVE  /\ Cardinality(U) \in Nat
         /\ InOrder(U, key) \in [1..Cardinality(U) -> U]
         /\ \A i, j \in 1..Cardinality(U) :
              i < j => key[InOrder(U, key)[i]] < key[InOrder(U, key)[j]]
         /\ \A x \in U : \E i \in 1..Cardinality(U) : InOrder(U, key)[i] = x
  <1> DEFINE n == Cardinality(U)
             s == InOrder(U, key)
  <1>1. n \in Nat
    BY FS_CardinalityType
  <1>2. \E f \in [1..n -> U] : \A i, j \in DOMAIN f : i < j => key[f[i]] < key[f[j]]
    <2>1. \E f \in [1..n -> U] : \A i, j \in 1..n : i < j => key[f[i]] < key[f[j]]
      BY OrderExists
    <2> QED
      BY <2>1
  <1>3. s \in [1..n -> U] /\ \A i, j \in DOMAIN s : i < j => key[s[i]] < key[s[j]]
    BY <1>2 DEF InOrder
  <1>4. s \in Injection(1..n, U)
    <2>1. ASSUME NEW a \in 1..n, NEW b \in 1..n, s[a] = s[b] PROVE a = b
      <3>1. key[s[a]] \in Int
        BY <1>3
      <3>2. ~(a < b) /\ ~(b < a)
        BY <1>3, <2>1, <3>1
      <3> QED
        BY <1>1, <3>2
    <2> QED
      BY <1>3, <2>1 DEF Injection, IsInjective
  <1>5. Cardinality(1..n) = n /\ IsFiniteSet(1..n)
    BY <1>1, FS_Interval
  <1>6. s \in Surjection(1..n, U)
    <2> HIDE DEF s, n
    <2>1. Cardinality(1..n) = Cardinality(U)
      BY <1>5 DEF n
    <2> QED
      BY <1>4, <2>1, FS_Injection
  <1> QED
    BY <1>1, <1>3, <1>6 DEF Surjection

\* A sequence that grows, and one that has the numbers of another.
Increasing(a, n) == \A i, j \in 1..n : i < j => a[i] < a[j]

Within(a, n, b, m) == \A i \in 1..n : \E j \in 1..m : b[j] = a[i]

\* Two increasing sequences of the same numbers are the same.
LEMMA SameIncreasing ==
  ASSUME NEW n \in Nat, NEW m \in Nat, NEW a \in [1..n -> Int], NEW b \in [1..m -> Int],
         Increasing(a, n), Increasing(b, m), Within(a, n, b, m), Within(b, m, a, n)
  PROVE  n = m /\ a = b
  <1> DEFINE T == {k \in Nat : \A i \in 1..k : /\ i \in 1..n <=> i \in 1..m
                                               /\ i \in 1..n => a[i] = b[i]}
  <1>1. 0 \in T
    OBVIOUS
  <1>2. ASSUME NEW k \in Nat, k \in T PROVE k + 1 \in T
    <2>1. ASSUME k + 1 \in 1..n PROVE k + 1 \in 1..m /\ b[k + 1] <= a[k + 1]
      <3>1. PICK j \in 1..m : b[j] = a[k + 1]
        BY <2>1 DEF Within
      <3>2. ~(j <= k)
        <4>1. SUFFICES ASSUME j <= k PROVE FALSE
          OBVIOUS
        <4>2. j \in 1..k /\ j \in 1..n /\ a[j] = b[j]
          BY <1>2, <4>1
        <4>3. a[j] < a[k + 1]
          BY <2>1, <4>1, <4>2 DEF Increasing
        <4> QED
          BY <2>1, <3>1, <4>2, <4>3
      <3>3. k + 1 \in 1..m
        BY <3>2
      <3>4. CASE j = k + 1
        BY <3>1, <3>3, <3>4, <2>1
      <3>5. CASE j > k + 1
        BY <3>1, <3>3, <3>5, <2>1 DEF Increasing
      <3> QED
        BY <3>2, <3>3, <3>4, <3>5
    <2>2. ASSUME k + 1 \in 1..m PROVE k + 1 \in 1..n /\ a[k + 1] <= b[k + 1]
      <3>1. PICK j \in 1..n : a[j] = b[k + 1]
        BY <2>2 DEF Within
      <3>2. ~(j <= k)
        <4>1. SUFFICES ASSUME j <= k PROVE FALSE
          OBVIOUS
        <4>2. j \in 1..k /\ j \in 1..m /\ a[j] = b[j]
          BY <1>2, <4>1
        <4>3. b[j] < b[k + 1]
          BY <2>2, <4>1, <4>2 DEF Increasing
        <4> QED
          BY <2>2, <3>1, <4>2, <4>3
      <3>3. k + 1 \in 1..n
        BY <3>2
      <3>4. CASE j = k + 1
        BY <3>1, <3>3, <3>4, <2>2
      <3>5. CASE j > k + 1
        BY <3>1, <3>3, <3>5, <2>2 DEF Increasing
      <3> QED
        BY <3>2, <3>3, <3>4, <3>5
    <2>3. k + 1 \in 1..n => a[k + 1] = b[k + 1]
      BY <2>1, <2>2
    <2>4. ASSUME NEW i \in 1..k+1
          PROVE  (i \in 1..n <=> i \in 1..m) /\ (i \in 1..n => a[i] = b[i])
      <3>1. CASE i \in 1..k
        BY <1>2, <3>1
      <3>2. CASE i = k + 1
        BY <2>1, <2>2, <2>3, <3>2
      <3> QED
        BY <3>1, <3>2
    <2> QED
      BY <2>4
  <1>3. \A k \in Nat : k \in T
    <2> HIDE DEF T
    <2> QED
      BY <1>1, <1>2, Induct
  <1>4. n \in T /\ m \in T
    BY <1>3
  <1>5. ~(n < m)
    BY <1>4
  <1>6. ~(m < n)
    BY <1>4
  <1> QED
    BY <1>4, <1>5, <1>6

-----------------------------------------------------------------------------
(***************************************************************************)
(* The order of declaration.                                               *)
(***************************************************************************)

\* A struct that compiles has both groups in order and one seed (expand).
LEMMA ExpandIs ==
  ASSUME NEW fields
  PROVE  /\ Expand(fields).ok <=>
              /\ ~Refused(fields)
              /\ OrderGroup(fields, Having(fields, "id_body")).ok
              /\ OrderGroup(fields, Having(fields, "body")).ok
         /\ Expand(fields).ok =>
              Expand(fields).value =
                [seed   |-> CHOOSE i \in Having(fields, "id_seed") : TRUE,
                 idBody |-> OrderGroup(fields, Having(fields, "id_body")).value,
                 body   |-> OrderGroup(fields, Having(fields, "body")).value]
         /\ ~Expand(fields).ok => Expand(fields) = Err
  <1> DEFINE a == OrderGroup(fields, Having(fields, "id_body"))
             b == OrderGroup(fields, Having(fields, "body"))
  <1> HIDE DEF a, b
  <1>1. Expand(fields) =
          IF Refused(fields) THEN Err
          ELSE IF a.ok
               THEN IF b.ok
                    THEN Ok([seed   |-> CHOOSE i \in Having(fields, "id_seed") : TRUE,
                             idBody |-> a.value, body |-> b.value])
                    ELSE Err
               ELSE Err
    BY DEF Expand, Then, a, b
  <1>2. Err.ok = FALSE /\ \A v : Ok(v).ok = TRUE /\ Ok(v).value = v
    BY DEF Err, Ok
  <1>3. /\ Expand(fields).ok <=> ~Refused(fields) /\ a.ok /\ b.ok
        /\ Expand(fields).ok =>
             Expand(fields).value =
               [seed |-> CHOOSE i \in Having(fields, "id_seed") : TRUE,
                idBody |-> a.value, body |-> b.value]
        /\ ~Expand(fields).ok => Expand(fields) = Err
    BY <1>1, <1>2
  <1> QED
    BY <1>3 DEF a, b

\* What an order does to a struct and a value of it.
IsOrder(order, fields) ==
  /\ order \in [DOMAIN fields -> DOMAIN fields]
  /\ \A i, j \in DOMAIN fields : order[i] = order[j] => i = j
  /\ \A j \in DOMAIN fields : \E i \in DOMAIN fields : order[i] = j

Reordered(fields, order) == [i \in DOMAIN fields |-> fields[order[i]]]

\* The fields of a role are the same, each where the order puts it, and as many.
LEMMA HavingReordered ==
  ASSUME NEW fields \in Seq(FieldDecls), NEW order, IsOrder(order, fields), NEW role
  PROVE  LET S == Having(fields, role)
             T == Having(Reordered(fields, order), role)
         IN /\ T = {i \in DOMAIN fields : order[i] \in S}
            /\ \A i \in T : order[i] \in S
            /\ \A j \in S : \E i \in T : order[i] = j
            /\ IsFiniteSet(S) /\ IsFiniteSet(T) /\ Cardinality(T) = Cardinality(S)
  <1> DEFINE S == Having(fields, role)
             T == Having(Reordered(fields, order), role)
             f == [i \in T |-> order[i]]
  <1>1. T = {i \in DOMAIN fields : order[i] \in S}
    BY DEF Having, Reordered, IsOrder
  <1>2. S \subseteq DOMAIN fields /\ T \subseteq DOMAIN fields
    BY DEF Having, Reordered
  <1>3. \A j \in S : \E i \in T : order[i] = j
    BY <1>1, <1>2 DEF IsOrder
  <1>4. IsFiniteSet(S) /\ IsFiniteSet(T)
    <2>1. IsFiniteSet(DOMAIN fields)
      <3>1. DOMAIN fields = 1..Len(fields) /\ Len(fields) \in Nat
        OBVIOUS
      <3> QED
        BY <3>1, FS_Interval
    <2> QED
      BY <1>2, <2>1, FS_Subset
  <1>5. f \in Surjection(T, S) /\ f \in Injection(T, S)
    <2> HIDE DEF S, T
    <2>1. f \in [T -> S]
      BY <1>1
    <2>2. \A j \in S : \E i \in T : f[i] = j
      BY <1>3
    <2>3. \A i, j \in T : f[i] = f[j] => i = j
      BY <1>2 DEF IsOrder
    <2> QED
      BY <2>1, <2>2, <2>3 DEF Surjection, Injection, IsInjective
  <1>6. Cardinality(T) = Cardinality(S)
    <2> HIDE DEF S, T, f
    <2> QED
      BY <1>4, <1>5, FS_Surjection
  <1> HIDE DEF S, T
  <1>7. \A i \in T : order[i] \in S
    BY <1>1
  <1>8. /\ T = {i \in DOMAIN fields : order[i] \in S}
        /\ \A i \in T : order[i] \in S
        /\ \A j \in S : \E i \in T : order[i] = j
        /\ IsFiniteSet(S) /\ IsFiniteSet(T) /\ Cardinality(T) = Cardinality(S)
    BY <1>1, <1>3, <1>4, <1>6, <1>7
  <1> QED
    BY <1>8 DEF S, T

\* The macro refuses a struct in every order or in none (expand).
LEMMA RefusedReordered ==
  ASSUME NEW fields \in Seq(FieldDecls), NEW order, IsOrder(order, fields)
  PROVE  Refused(Reordered(fields, order)) <=> Refused(fields)
  <1> DEFINE D     == DOMAIN fields
             other == Reordered(fields, order)
             single(fs, i) == fs[i].type \in Elements
             folded(fs) == Having(fs, "id_body") \cup Having(fs, "body")
             keyed(fs) == Having(fs, "id_seed") \cup Having(fs, "owner")
             narrow(fs, i) == fs[i].type = "set" \/ fs[i].limbed \/ single(fs, i)
             limbedSet(fs, i) == "skip" \notin fs[i].roles /\ fs[i].limbed /\ fs[i].type = "set"
  <1>1. DOMAIN other = D /\ \A i \in D : other[i] = fields[order[i]]
    BY DEF Reordered
  <1>2. /\ \A i \in D : order[i] \in D
        /\ \A j \in D : \E i \in D : order[i] = j
    BY DEF IsOrder
  <1>3. (\E i \in D : ~ParseFieldCfg(other[i]).ok) <=> (\E i \in D : ~ParseFieldCfg(fields[i]).ok)
    <2> HIDE DEF D, other
    <2> QED
      BY <1>1, <1>2
  <1>4. (\E i \in D : limbedSet(other, i)) <=> (\E i \in D : limbedSet(fields, i))
    <2> HIDE DEF D, other
    <2> QED
      BY <1>1, <1>2
  <1>5. \A role : /\ Cardinality(Having(other, role)) = Cardinality(Having(fields, role))
                  /\ \A i \in Having(other, role) : i \in D /\ order[i] \in Having(fields, role)
                  /\ \A j \in Having(fields, role) :
                       j \in D /\ \E i \in Having(other, role) : order[i] = j
    <2> TAKE role
    <2>1. /\ \A i \in Having(other, role) : order[i] \in Having(fields, role)
          /\ \A j \in Having(fields, role) : \E i \in Having(other, role) : order[i] = j
          /\ Cardinality(Having(other, role)) = Cardinality(Having(fields, role))
      BY HavingReordered
    <2>2. \A i \in Having(other, role) : i \in D
      BY <1>1 DEF Having
    <2>3. \A i \in Having(fields, role) : i \in D
      BY DEF Having
    <2> QED
      BY <2>1, <2>2, <2>3
  <1>6. (\E i \in keyed(other) : ~single(other, i)) <=> (\E i \in keyed(fields) : ~single(fields, i))
    <2> HIDE DEF D, other
    <2> QED
      BY <1>1, <1>5
  <1>7. (\E i \in folded(other) : ~narrow(other, i)) <=> (\E i \in folded(fields) : ~narrow(fields, i))
    <2> HIDE DEF D, other
    <2> QED
      BY <1>1, <1>5
  <1>8. \A fs : Refused(fs) <=>
          \/ \E i \in DOMAIN fs : ~ParseFieldCfg(fs[i]).ok
          \/ \E i \in DOMAIN fs : limbedSet(fs, i)
          \/ Cardinality(Having(fs, "id_seed")) # 1
          \/ Cardinality(Having(fs, "owner")) > 1
          \/ \E i \in keyed(fs) : ~single(fs, i)
          \/ \E i \in folded(fs) : ~narrow(fs, i)
    BY DEF Refused
  <1> HIDE DEF D, other, single, folded, keyed, narrow, limbedSet
  <1>9. /\ Cardinality(Having(other, "id_seed")) = Cardinality(Having(fields, "id_seed"))
        /\ Cardinality(Having(other, "owner")) = Cardinality(Having(fields, "owner"))
    BY <1>5
  <1>10. Refused(other) <=>
          \/ \E i \in D : ~ParseFieldCfg(other[i]).ok
          \/ \E i \in D : limbedSet(other, i)
          \/ Cardinality(Having(fields, "id_seed")) # 1
          \/ Cardinality(Having(fields, "owner")) > 1
          \/ \E i \in keyed(other) : ~single(other, i)
          \/ \E i \in folded(other) : ~narrow(other, i)
    BY <1>1, <1>8, <1>9
  <1>11. Refused(fields) <=>
          \/ \E i \in D : ~ParseFieldCfg(fields[i]).ok
          \/ \E i \in D : limbedSet(fields, i)
          \/ Cardinality(Having(fields, "id_seed")) # 1
          \/ Cardinality(Having(fields, "owner")) > 1
          \/ \E i \in keyed(fields) : ~single(fields, i)
          \/ \E i \in folded(fields) : ~narrow(fields, i)
    BY <1>8 DEF D
  <1>12. Refused(other) <=> Refused(fields)
    BY <1>3, <1>4, <1>6, <1>7, <1>10, <1>11
  <1> QED
    BY <1>12 DEF other

\* When a group of fields has positions for none, or for all and different ones.
Unplaced(fields, S) == \A i \in S : fields[i].pos = NoPos

Placed(fields, S) ==
  /\ \A i \in S : fields[i].pos # NoPos
  /\ \A i, j \in S : fields[i].pos = fields[j].pos => i = j

\* A group is accepted in these two cases, and is then all its fields: in any
\* event each of them once, and by position if they have positions (order_group).
LEMMA GroupIs ==
  ASSUME NEW fields \in Seq(FieldDecls), NEW S \in SUBSET DOMAIN fields
  PROVE  LET g == OrderGroup(fields, S)
         IN /\ IsFiniteSet(S) /\ Cardinality(S) \in Nat
            /\ g.ok <=> Unplaced(fields, S) \/ Placed(fields, S)
            /\ ~g.ok => g = Err
            /\ g.ok => /\ g.value \in [1..Cardinality(S) -> S]
                       /\ \A x \in S : \E i \in 1..Cardinality(S) : g.value[i] = x
            /\ g.ok /\ ~Unplaced(fields, S) =>
                 \A i, j \in 1..Cardinality(S) :
                   i < j => fields[g.value[i]].pos < fields[g.value[j]].pos
  <1> DEFINE g == OrderGroup(fields, S)
             idx == [i \in S |-> i]
             pos == [i \in S |-> fields[i].pos]
  <1>1. DOMAIN fields = 1..Len(fields) /\ Len(fields) \in Nat
    OBVIOUS
  <1>2. IsFiniteSet(S) /\ Cardinality(S) \in Nat
    <2>1. IsFiniteSet(DOMAIN fields)
      BY <1>1, FS_Interval
    <2> QED
      BY <2>1, FS_Subset, FS_CardinalityType
  <1>3. \A i \in S : fields[i].pos \in Nat
    <2>1. \A i \in S : fields[i] \in FieldDecls
      BY <1>1
    <2> QED
      BY <2>1 DEF FieldDecls
  <1>4. Err.ok = FALSE /\ \A v : Ok(v).ok = TRUE /\ Ok(v).value = v
    BY DEF Err, Ok
  <1>5. CASE Unplaced(fields, S)
    <2>1. g = Ok(InOrder(S, idx))
      BY <1>5 DEF OrderGroup, Declared, Unplaced
    <2>2. /\ \A x \in S : idx[x] \in Int
          /\ \A x, y \in S : idx[x] = idx[y] => x = y
      BY <1>1
    <2> HIDE DEF g, idx
    <2>3. /\ InOrder(S, idx) \in [1..Cardinality(S) -> S]
          /\ \A x \in S : \E i \in 1..Cardinality(S) : InOrder(S, idx)[i] = x
      BY <1>2, <2>2, InOrderIs
    <2>4. g.ok /\ g.value = InOrder(S, idx)
      BY <1>4, <2>1
    <2> QED
      BY <1>2, <1>5, <2>3, <2>4 DEF g
  <1>6. CASE ~Unplaced(fields, S) /\ ~Placed(fields, S)
    <2>1. g = Err
      BY <1>6 DEF OrderGroup, Unplaced, Placed
    <2> QED
      BY <1>2, <1>4, <1>6, <2>1 DEF g
  <1>7. CASE ~Unplaced(fields, S) /\ Placed(fields, S)
    <2>1. g = Ok(InOrder(S, pos))
      BY <1>7 DEF OrderGroup, Sorted, Unplaced, Placed
    <2>2. /\ \A x \in S : pos[x] \in Int
          /\ \A x, y \in S : pos[x] = pos[y] => x = y
      BY <1>3, <1>7 DEF Placed
    <2>3. \A x \in S : pos[x] = fields[x].pos
      OBVIOUS
    <2> HIDE DEF g, pos
    <2> DEFINE s == InOrder(S, pos)
    <2>4. /\ s \in [1..Cardinality(S) -> S]
          /\ \A x \in S : \E i \in 1..Cardinality(S) : s[i] = x
      BY <1>2, <2>2, InOrderIs
    <2>5. \A i, j \in 1..Cardinality(S) : i < j => pos[s[i]] < pos[s[j]]
      BY <1>2, <2>2, InOrderIs
    <2>6. g.ok /\ g.value = InOrder(S, pos)
      BY <1>4, <2>1
    <2>7. \A i, j \in 1..Cardinality(S) :
            i < j => fields[g.value[i]].pos < fields[g.value[j]].pos
      <3> TAKE i, j \in 1..Cardinality(S)
      <3>1. /\ pos[g.value[i]] = fields[g.value[i]].pos
            /\ pos[g.value[j]] = fields[g.value[j]].pos
        BY <2>3, <2>4, <2>6
      <3> QED
        BY <2>5, <2>6, <3>1
    <2> QED
      BY <1>2, <1>7, <2>4, <2>6, <2>7 DEF g
  <1> QED
    BY <1>5, <1>6, <1>7

\* A group with positions where it needs them is accepted in every order of
\* declaration or in none, and folded in one order.
LEMMA GroupReordered ==
  ASSUME NEW fields \in Seq(FieldDecls), NEW order, IsOrder(order, fields),
         NEW role \in {"id_body", "body"}, Positioned(fields)
  PROVE  LET S == Having(fields, role)
             T == Having(Reordered(fields, order), role)
             g == OrderGroup(fields, S)
             h == OrderGroup(Reordered(fields, order), T)
         IN /\ g.ok <=> h.ok
            /\ g.ok => /\ g.value \in [1..Cardinality(S) -> S]
                       /\ h.value \in [1..Cardinality(S) -> T]
                       /\ \A n \in 1..Cardinality(S) : order[h.value[n]] = g.value[n]
  <1> DEFINE other == Reordered(fields, order)
             S == Having(fields, role)
             T == Having(other, role)
             g == OrderGroup(fields, S)
             h == OrderGroup(other, T)
             N == Cardinality(S)
  <1>1. other \in Seq(FieldDecls) /\ DOMAIN other = DOMAIN fields
    <2>1. DOMAIN fields = 1..Len(fields) /\ Len(fields) \in Nat
      OBVIOUS
    <2>2. \A i \in DOMAIN fields : fields[order[i]] \in FieldDecls
      BY DEF IsOrder
    <2> QED
      BY <2>1, <2>2 DEF Reordered
  <1>2. \A i \in T : i \in DOMAIN fields /\ other[i] = fields[order[i]]
    BY DEF Having, Reordered
  <1>3. S \in SUBSET DOMAIN fields /\ T \in SUBSET DOMAIN other
    BY DEF Having
  <1>4. /\ \A i \in T : order[i] \in S
        /\ \A j \in S : \E i \in T : order[i] = j
        /\ Cardinality(T) = N
    BY HavingReordered
  <1>5. \A i, j \in T : order[i] = order[j] => i = j
    BY <1>2 DEF IsOrder
  <1>6. \A i, j \in S : i # j => fields[i].pos # NoPos \/ fields[j].pos # NoPos
    BY DEF Positioned
  <1>7. /\ g.ok <=> Unplaced(fields, S) \/ Placed(fields, S)
        /\ g.ok => /\ g.value \in [1..N -> S]
                   /\ \A x \in S : \E i \in 1..N : g.value[i] = x
        /\ g.ok /\ ~Unplaced(fields, S) =>
             \A i, j \in 1..N : i < j => fields[g.value[i]].pos < fields[g.value[j]].pos
    BY <1>3, GroupIs
  <1>8. /\ h.ok <=> Unplaced(other, T) \/ Placed(other, T)
        /\ h.ok => /\ h.value \in [1..N -> T]
                   /\ \A x \in T : \E i \in 1..N : h.value[i] = x
        /\ h.ok /\ ~Unplaced(other, T) =>
             \A i, j \in 1..N : i < j => other[h.value[i]].pos < other[h.value[j]].pos
    BY <1>1, <1>3, <1>4, GroupIs
  <1>9. N \in Nat
    BY <1>3, GroupIs
  <1>10. \A i \in S : fields[i].pos \in Int
    <2>1. \A i \in S : fields[i] \in FieldDecls
      BY <1>3
    <2> QED
      BY <2>1 DEF FieldDecls
  <1> HIDE DEF other, S, T, g, h, N
  <1>11. Unplaced(other, T) <=> Unplaced(fields, S)
    BY <1>2, <1>4 DEF Unplaced
  <1>12. Placed(other, T) <=> Placed(fields, S)
    BY <1>2, <1>4, <1>5 DEF Placed
  <1>13. g.ok <=> h.ok
    BY <1>7, <1>8, <1>11, <1>12
  <1>14. ASSUME g.ok, NEW n \in 1..N PROVE order[h.value[n]] = g.value[n]
    <2>1. /\ g.value \in [1..N -> S] /\ h.value \in [1..N -> T]
          /\ g.value[n] \in S /\ h.value[n] \in T /\ order[h.value[n]] \in S
      BY <1>4, <1>7, <1>8, <1>13, <1>14
    <2>2. CASE Unplaced(fields, S)
      BY <1>6, <2>1, <2>2 DEF Unplaced
    <2>3. CASE ~Unplaced(fields, S)
      <3> DEFINE a == [i \in 1..N |-> fields[g.value[i]].pos]
                 b == [i \in 1..N |-> other[h.value[i]].pos]
      <3>1. \A i \in 1..N : b[i] = fields[order[h.value[i]]].pos /\ order[h.value[i]] \in S
        BY <1>2, <1>4, <2>1
      <3>2. a \in [1..N -> Int] /\ b \in [1..N -> Int]
        BY <1>10, <2>1, <3>1
      <3>3. Increasing(a, N)
        BY <1>7, <1>14, <2>3 DEF Increasing
      <3>4. Increasing(b, N)
        BY <1>8, <1>11, <1>13, <1>14, <2>3 DEF Increasing
      <3>5. Within(a, N, b, N)
        <4> SUFFICES ASSUME NEW i \in 1..N PROVE \E j \in 1..N : b[j] = a[i]
          BY DEF Within
        <4>1. PICK x \in T : order[x] = g.value[i]
          BY <1>4, <2>1
        <4>2. PICK j \in 1..N : h.value[j] = x
          BY <1>8, <1>13, <1>14
        <4> QED
          BY <3>1, <4>1, <4>2
      <3>6. Within(b, N, a, N)
        <4> SUFFICES ASSUME NEW j \in 1..N PROVE \E i \in 1..N : a[i] = b[j]
          BY DEF Within
        <4>1. PICK i \in 1..N : g.value[i] = order[h.value[j]]
          BY <1>7, <1>14, <3>1
        <4> QED
          BY <3>1, <4>1
      <3>7. a = b
        <4> HIDE DEF a, b
        <4> QED
          BY <1>9, <3>2, <3>3, <3>4, <3>5, <3>6, SameIncreasing
      <3>8. fields[g.value[n]].pos = fields[order[h.value[n]]].pos
        <4>1. a[n] = b[n]
          BY <3>7
        <4> QED
          BY <3>1, <4>1
      <3>9. Placed(fields, S)
        BY <1>7, <1>14, <2>3
      <3> QED
        BY <2>1, <3>8, <3>9 DEF Placed
    <2> QED
      BY <2>2, <2>3
  <1>15. /\ g.ok <=> h.ok
         /\ g.ok => /\ g.value \in [1..N -> S] /\ h.value \in [1..N -> T]
                    /\ \A n \in 1..N : order[h.value[n]] = g.value[n]
    BY <1>7, <1>8, <1>13, <1>14
  <1> QED
    BY <1>15 DEF g, h, S, T, N, other

\* A hash in terms of its three parts (Entity::id, entity_hash).
LEMMA EntityHashIs ==
  ASSUME NEW fields, NEW entity
  PROVE  LET impl == Expand(fields).value
             ids  == EncodeGroup(fields, impl.idBody, entity)
             body == EncodeGroup(fields, impl.body, entity)
             seed == ToField(fields[impl.seed].type, entity[impl.seed])
         IN EntityHash(fields, entity) =
              IF Expand(fields).ok /\ ids.ok /\ body.ok /\ seed.ok
              THEN Ok((<<seed.value>> \o ids.value) \o body.value) ELSE Err
  <1> DEFINE impl == Expand(fields).value
             ids  == EncodeGroup(fields, impl.idBody, entity)
             body == EncodeGroup(fields, impl.body, entity)
             seed == ToField(fields[impl.seed].type, entity[impl.seed])
             id   == Id(fields, impl, entity)
  <1>1. Err.ok = FALSE /\ \A v : Ok(v).ok = TRUE /\ Ok(v).value = v
    BY DEF Err, Ok
  <1>2. id = IF ids.ok THEN IF seed.ok THEN Ok(<<seed.value>> \o ids.value) ELSE Err ELSE Err
    BY DEF Id, Then, Iterate
  <1>3. EntityHash(fields, entity) =
          IF Expand(fields).ok
          THEN IF body.ok THEN IF id.ok THEN Ok(id.value \o body.value) ELSE Err ELSE Err
          ELSE Err
    BY DEF EntityHash, Then, Iterate
  <1> HIDE DEF impl, ids, body, seed, id
  <1>4. EntityHash(fields, entity) =
              IF Expand(fields).ok /\ ids.ok /\ body.ok /\ seed.ok
              THEN Ok((<<seed.value>> \o ids.value) \o body.value) ELSE Err
    BY <1>1, <1>2, <1>3
  <1> QED
    BY <1>4 DEF impl, ids, body, seed

\* A group is encoded alike where its fields and their values are the same.
LEMMA EncodeGroupSame ==
  ASSUME NEW n, NEW fs, NEW g, NEW e, NEW gs, NEW h, NEW d,
         DOMAIN g = n, DOMAIN h = n,
         \A k \in n : fs[g[k]] = gs[h[k]] /\ e[g[k]] = d[h[k]]
  PROVE  EncodeGroup(fs, g, e) = EncodeGroup(gs, h, d)
  <1>1. [k \in DOMAIN g |-> EncodeField(fs[g[k]], e[g[k]])]
          = [k \in DOMAIN h |-> EncodeField(gs[h[k]], d[h[k]])]
    OBVIOUS
  <1> QED
    BY <1>1 DEF EncodeGroup

\* A struct with positions hashes alike in every order of declaration.
LEMMA HashReorderedSame ==
  ASSUME NEW fields \in Seq(FieldDecls), NEW order, IsOrder(order, fields),
         NEW entity, Positioned(fields)
  PROVE  EntityHash(Reordered(fields, order), [i \in DOMAIN fields |-> entity[order[i]]])
           = EntityHash(fields, entity)
  <1> DEFINE D == DOMAIN fields
             other == Reordered(fields, order)
             moved == [i \in D |-> entity[order[i]]]
             impl  == Expand(fields).value
             jmpl  == Expand(other).value
             S(role) == Having(fields, role)
             T(role) == Having(other, role)
             g(role) == OrderGroup(fields, S(role))
             h(role) == OrderGroup(other, T(role))
  <1>1. \A i \in D : other[i] = fields[order[i]] /\ moved[i] = entity[order[i]]
    BY DEF Reordered
  <1>2. \A role : \A i \in T(role) : i \in D
    BY DEF Having, Reordered
  <1>3. \A role \in {"id_body", "body"} :
          /\ g(role).ok <=> h(role).ok
          /\ g(role).ok =>
               /\ g(role).value \in [1..Cardinality(S(role)) -> S(role)]
               /\ h(role).value \in [1..Cardinality(S(role)) -> T(role)]
               /\ \A n \in 1..Cardinality(S(role)) : order[h(role).value[n]] = g(role).value[n]
    BY GroupReordered
  <1>4. Expand(other).ok <=> Expand(fields).ok
    BY <1>3, RefusedReordered, ExpandIs
  <1>5. CASE ~Expand(fields).ok
    <2>1. EntityHash(fields, entity) = Err /\ EntityHash(other, moved) = Err
      BY <1>4, <1>5, EntityHashIs
    <2> QED
      BY <2>1
  <1>6. CASE Expand(fields).ok
    <2>1. /\ impl = [seed |-> CHOOSE i \in S("id_seed") : TRUE,
                     idBody |-> g("id_body").value, body |-> g("body").value]
          /\ jmpl = [seed |-> CHOOSE i \in T("id_seed") : TRUE,
                     idBody |-> h("id_body").value, body |-> h("body").value]
          /\ g("id_body").ok /\ g("body").ok /\ ~Refused(fields)
      BY <1>4, <1>6, ExpandIs
    <2>2. ASSUME NEW role \in {"id_body", "body"}
          PROVE  EncodeGroup(other, h(role).value, moved)
                   = EncodeGroup(fields, g(role).value, entity)
      <3> DEFINE a == g(role).value
                 b == h(role).value
                 n == 1..Cardinality(S(role))
      <3>1. g(role).ok
        BY <2>1
      <3>2. a \in [n -> S(role)] /\ b \in [n -> T(role)] /\ \A k \in n : order[b[k]] = a[k]
        BY <1>3, <3>1
      <3> HIDE DEF a, b, n, D, other, moved, S, T
      <3>3. \A k \in n : other[b[k]] = fields[a[k]] /\ moved[b[k]] = entity[a[k]]
        BY <1>1, <1>2, <3>2
      <3>4. DOMAIN a = n /\ DOMAIN b = n
        BY <3>2
      <3>5. EncodeGroup(other, b, moved) = EncodeGroup(fields, a, entity)
        BY <3>3, <3>4, EncodeGroupSame
      <3> QED
        BY <3>5 DEF a, b
    <2>3. /\ jmpl.seed \in D /\ order[jmpl.seed] = impl.seed
      <3>1. Cardinality(S("id_seed")) = 1
        BY <2>1 DEF Refused
      <3>2. /\ IsFiniteSet(S("id_seed"))
            /\ \A i \in T("id_seed") : order[i] \in S("id_seed")
            /\ \A j \in S("id_seed") : \E i \in T("id_seed") : order[i] = j
        BY HavingReordered
      <3> HIDE DEF S, T
      <3>3. PICK x : S("id_seed") = {x}
        BY <3>1, <3>2, FS_Singleton
      <3>4. impl.seed = x /\ jmpl.seed \in T("id_seed")
        BY <2>1, <3>2, <3>3
      <3> QED
        BY <1>2, <3>2, <3>3, <3>4
    <2>4. ToField(other[jmpl.seed].type, moved[jmpl.seed])
            = ToField(fields[impl.seed].type, entity[impl.seed])
      BY <1>1, <2>3
    <2>5. /\ EncodeGroup(other, jmpl.idBody, moved) = EncodeGroup(fields, impl.idBody, entity)
          /\ EncodeGroup(other, jmpl.body, moved) = EncodeGroup(fields, impl.body, entity)
      <3>1. /\ impl.idBody = g("id_body").value /\ impl.body = g("body").value
            /\ jmpl.idBody = h("id_body").value /\ jmpl.body = h("body").value
        BY <2>1
      <3> QED
        BY <2>2, <3>1
    <2>6. EntityHash(other, moved) =
            LET ids  == EncodeGroup(other, jmpl.idBody, moved)
                body == EncodeGroup(other, jmpl.body, moved)
                seed == ToField(other[jmpl.seed].type, moved[jmpl.seed])
            IN IF Expand(other).ok /\ ids.ok /\ body.ok /\ seed.ok
               THEN Ok((<<seed.value>> \o ids.value) \o body.value) ELSE Err
      BY EntityHashIs
    <2>7. EntityHash(fields, entity) =
            LET ids  == EncodeGroup(fields, impl.idBody, entity)
                body == EncodeGroup(fields, impl.body, entity)
                seed == ToField(fields[impl.seed].type, entity[impl.seed])
            IN IF Expand(fields).ok /\ ids.ok /\ body.ok /\ seed.ok
               THEN Ok((<<seed.value>> \o ids.value) \o body.value) ELSE Err
      BY EntityHashIs
    <2>8. EntityHash(other, moved) = EntityHash(fields, entity)
      <3> HIDE DEF D, other, moved, impl, jmpl
      <3> DEFINE ids  == EncodeGroup(fields, impl.idBody, entity)
                 body == EncodeGroup(fields, impl.body, entity)
                 seed == ToField(fields[impl.seed].type, entity[impl.seed])
                 both == ids.ok /\ body.ok /\ seed.ok
                 hash == Ok((<<seed.value>> \o ids.value) \o body.value)
      <3>1. EntityHash(other, moved) = IF Expand(other).ok /\ both THEN hash ELSE Err
        BY <2>4, <2>5, <2>6
      <3>2. EntityHash(fields, entity) = IF Expand(fields).ok /\ both THEN hash ELSE Err
        BY <2>7
      <3> HIDE DEF both, hash
      <3> QED
        BY <1>4, <3>1, <3>2
    <2> QED
      BY <2>8
  <1> QED
    BY <1>5, <1>6

\* With positions, the order in which a struct declares its fields does not
\* matter, for every struct, order and value (derive lib.rs, order_group).
THEOREM DeclarationOrder == Spec => []DeclarationOrderIrrelevant
  <1>1. Init => DeclarationOrderIrrelevant
    BY DEF Init, DeclarationOrderIrrelevant
  <1>2. ASSUME DeclarationOrderIrrelevant, [Next]_vars
        PROVE  DeclarationOrderIrrelevant'
    <2>1. ASSUME NEW e \in Entities, NEW sorts \in BOOLEAN, HashEntity(e, sorts)
          PROVE  DeclarationOrderIrrelevant'
      BY <2>1 DEF HashEntity, DeclarationOrderIrrelevant
    <2>2. ASSUME NEW fields \in Variants, NEW order \in Reorders, HashReordered(fields, order)
          PROVE  DeclarationOrderIrrelevant'
      <3>1. fields \in Seq(FieldDecls) /\ IsOrder(order, fields)
        <4>1. /\ order \in [DOMAIN fields -> DOMAIN fields]
              /\ IsInjective(order) /\ Range(order) = DOMAIN fields
          BY ReorderAssumption
        <4>2. \A i, j \in DOMAIN fields : order[i] = order[j] => i = j
          BY <4>1 DEF IsInjective
        <4>3. \A j \in DOMAIN fields : \E i \in DOMAIN fields : order[i] = j
          BY <4>1 DEF Range
        <4> QED
          BY <4>1, <4>2, <4>3, ReorderAssumption DEF IsOrder
      <3>2. /\ item'.fields = fields /\ item'.hash = EntityHash(fields, Sample)
            /\ item'.other = EntityHash(Reordered(fields, order),
                                        [i \in DOMAIN fields |-> Sample[order[i]]])
        BY <2>2 DEF HashReordered, Reordered
      <3>3. Positioned(fields) => item'.hash = item'.other
        BY <3>1, <3>2, HashReorderedSame
      <3> QED
        BY <3>2, <3>3 DEF DeclarationOrderIrrelevant
    <2>3. ASSUME NEW sk \in Scalars, NEW digests \in [0..Tries-1 -> Digests],
                 NEW challenge \in [XCoords -> Digests], Sign(sk, digests, challenge)
          PROVE  DeclarationOrderIrrelevant'
      BY <2>3 DEF Sign, DeclarationOrderIrrelevant
    <2>4. CASE ~Produce /\ ~UNCHANGED vars
      BY <1>2, <2>4, OtherSteps DEF DeclarationOrderIrrelevant
    <2>5. CASE UNCHANGED vars
      BY <1>2, <2>5 DEF vars, DeclarationOrderIrrelevant
    <2> QED
      BY <1>2, <2>1, <2>2, <2>3, <2>4, <2>5 DEF Produce
  <1> QED
    BY <1>1, <1>2, PTL DEF Spec

-----------------------------------------------------------------------------
(***************************************************************************)
(* Words and numbers.                                                      *)
(***************************************************************************)

\* The widths as numbers.
LEMMA Widths ==
  /\ Base \in Nat /\ Base > 1 /\ Modulus \in Nat /\ Modulus > 1
  /\ WordBytes \in Nat /\ AddrBytes \in Nat /\ Spill \in Nat /\ Spill > 1
  BY CodecAssumption

IsPower(p, n) ==
  /\ DOMAIN p = 0..n
  /\ \A i \in 0..n : p[i] = IF i = 0 THEN 1 ELSE Base * p[i - 1]

\* The function Power is defined by.
LEMMA PowerIs ==
  ASSUME NEW n \in Nat
  PROVE  \E p \in [0..n -> Nat] : IsPower(p, n) /\ Power(n) = p[n] /\ \A i \in 0..n : p[i] > 0
  <1> DEFINE S == {k \in Nat : \E p \in [0..k -> Nat] : IsPower(p, k) /\ \A i \in 0..k : p[i] > 0}
             power == CHOOSE p : p = [i \in 0..n |-> IF i = 0 THEN 1 ELSE Base * p[i - 1]]
  <1>1. 0 \in S
    <2> DEFINE p == [i \in 0..0 |-> 1]
    <2>1. p \in [0..0 -> Nat] /\ IsPower(p, 0) /\ \A i \in 0..0 : p[i] > 0
      BY DEF IsPower
    <2> QED
      BY <2>1
  <1>2. ASSUME NEW k \in 0..n-1, k \in S PROVE k + 1 \in S
    <2>1. PICK p \in [0..k -> Nat] : IsPower(p, k) /\ \A i \in 0..k : p[i] > 0
      BY <1>2
    <2> DEFINE q == [i \in 0..k+1 |-> IF i = k + 1 THEN Base * p[k] ELSE p[i]]
    <2>2. Base * p[k] \in Nat /\ Base * p[k] > 0
      <3>1. p[k] \in Nat /\ p[k] > 0
        BY <2>1
      <3> QED
        BY <3>1, Widths
    <2>3. q \in [0..k+1 -> Nat] /\ \A i \in 0..k+1 : q[i] > 0
      BY <2>1, <2>2
    <2>4. IsPower(q, k + 1)
      BY <2>1 DEF IsPower
    <2> HIDE DEF q
    <2> QED
      BY <2>3, <2>4
  <1>3. \A k \in 0..n : k \in S
    <2> HIDE DEF S
    <2> QED
      BY <1>1, <1>2, InductTo
  <1>4. PICK p \in [0..n -> Nat] : IsPower(p, n) /\ \A i \in 0..n : p[i] > 0
    BY <1>3
  <1>5. p = [i \in 0..n |-> IF i = 0 THEN 1 ELSE Base * p[i - 1]]
    BY <1>4 DEF IsPower
  <1>6. power = [i \in 0..n |-> IF i = 0 THEN 1 ELSE Base * power[i - 1]]
    BY <1>5
  <1>7. Power(n) = power[n]
    BY DEF Power
  <1> HIDE DEF power
  <1>8. \A i \in 0..n : power[i] = IF i = 0 THEN 1 ELSE Base * power[i - 1]
    BY <1>6
  <1> DEFINE T == {k \in Nat : power[k] = p[k]}
  <1>9. 0 \in T
    BY <1>4, <1>8 DEF IsPower
  <1>10. ASSUME NEW k \in 0..n-1, k \in T PROVE k + 1 \in T
    <2>1. p[k + 1] = Base * p[k]
      BY <1>4 DEF IsPower
    <2>2. power[k + 1] = Base * power[k]
      BY <1>8
    <2> QED
      BY <1>10, <2>1, <2>2
  <1>11. \A k \in 0..n : k \in T
    <2> HIDE DEF T
    <2> QED
      BY <1>9, <1>10, InductTo
  <1>12. power[n] = p[n]
    BY <1>11
  <1> QED
    BY <1>4, <1>7, <1>12

IsNumber(g, bytes, w) ==
  /\ DOMAIN g = 0..w
  /\ \A i \in 0..w : g[i] = IF i = 0 THEN 0 ELSE g[i - 1] * Base + bytes[i]

\* The function Number is defined by.
LEMMA NumberIs ==
  ASSUME NEW w \in Nat, NEW bytes \in [1..w -> Bytes]
  PROVE  \E g \in [0..w -> Nat] : IsNumber(g, bytes, w) /\ Number(bytes) = g[w]
  <1> DEFINE S == {k \in Nat : \E g \in [0..k -> Nat] : IsNumber(g, bytes, k)}
             number == CHOOSE g : g = [i \in 0..w |->
                                         IF i = 0 THEN 0 ELSE g[i - 1] * Base + bytes[i]]
  <1>1. 0 \in S
    <2> DEFINE g == [i \in 0..0 |-> 0]
    <2>1. g \in [0..0 -> Nat] /\ IsNumber(g, bytes, 0)
      BY DEF IsNumber
    <2> QED
      BY <2>1
  <1>2. ASSUME NEW k \in 0..w-1, k \in S PROVE k + 1 \in S
    <2>1. PICK g \in [0..k -> Nat] : IsNumber(g, bytes, k)
      BY <1>2
    <2> DEFINE h == [i \in 0..k+1 |-> IF i = k + 1 THEN g[k] * Base + bytes[k + 1] ELSE g[i]]
    <2>2. g[k] * Base + bytes[k + 1] \in Nat
      <3>1. g[k] \in Nat
        BY <2>1
      <3>2. bytes[k + 1] \in Nat
        BY Widths DEF Bytes
      <3>3. g[k] * Base \in Nat
        BY <3>1, Widths
      <3> QED
        BY <3>2, <3>3
    <2>3. h \in [0..k+1 -> Nat]
      BY <2>1, <2>2
    <2>4. IsNumber(h, bytes, k + 1)
      BY <2>1 DEF IsNumber
    <2> HIDE DEF h
    <2> QED
      BY <2>3, <2>4
  <1>3. \A k \in 0..w : k \in S
    <2> HIDE DEF S
    <2> QED
      BY <1>1, <1>2, InductTo
  <1>4. PICK g \in [0..w -> Nat] : IsNumber(g, bytes, w)
    <2>1. w \in S
      <3> HIDE DEF S
      <3> QED
        BY <1>3
    <2> HIDE DEF number
    <2> QED
      BY <2>1
  <1>5. g = [i \in 0..w |-> IF i = 0 THEN 0 ELSE g[i - 1] * Base + bytes[i]]
    BY <1>4 DEF IsNumber
  <1>6. number = [i \in 0..w |-> IF i = 0 THEN 0 ELSE number[i - 1] * Base + bytes[i]]
    BY <1>5
  <1>7. Len(bytes) = w
    OBVIOUS
  <1>8. Number(bytes) = number[w]
    BY <1>7 DEF Number
  <1> HIDE DEF number
  <1>9. \A i \in 0..w : number[i] = IF i = 0 THEN 0 ELSE number[i - 1] * Base + bytes[i]
    BY <1>6
  <1> DEFINE T == {k \in Nat : number[k] = g[k]}
  <1>10. 0 \in T
    BY <1>4, <1>9 DEF IsNumber
  <1>11. ASSUME NEW k \in 0..w-1, k \in T PROVE k + 1 \in T
    <2>1. g[k + 1] = g[k] * Base + bytes[k + 1]
      BY <1>4 DEF IsNumber
    <2>2. number[k + 1] = number[k] * Base + bytes[k + 1]
      BY <1>9
    <2> QED
      BY <1>11, <2>1, <2>2
  <1>12. \A k \in 0..w : k \in T
    <2> HIDE DEF T
    <2> QED
      BY <1>10, <1>11, InductTo
  <1>13. number[w] = g[w]
    BY <1>12
  <1> QED
    BY <1>4, <1>8, <1>13

\* A digit more keeps a number below a place more.
LEMMA Carries ==
  ASSUME NEW x \in Nat, NEW y \in Nat, x < y, NEW b \in Bytes
  PROVE  x * Base + b < Base * y
  <1> DEFINE d == y - x
  <1>1. d \in Nat /\ d >= 1 /\ y = x + d
    OBVIOUS
  <1> HIDE DEF d
  <1>2. Base * y = x * Base + d * Base
    BY <1>1, Widths
  <1>3. d * Base = (d - 1) * Base + Base /\ (d - 1) * Base >= 0
    BY <1>1, Widths
  <1>4. b < Base /\ b \in Nat /\ d * Base \in Nat /\ x * Base \in Nat
    BY <1>1, Widths DEF Bytes
  <1> QED
    BY <1>2, <1>3, <1>4, Widths

\* A number fits its width.
LEMMA NumberBound ==
  ASSUME NEW w \in Nat, NEW bytes \in [1..w -> Bytes]
  PROVE  Number(bytes) \in Nat /\ Power(w) \in Nat /\ Power(w) > 0 /\ Number(bytes) < Power(w)
  <1>1. PICK g \in [0..w -> Nat] : IsNumber(g, bytes, w) /\ Number(bytes) = g[w]
    BY NumberIs
  <1>2. PICK p \in [0..w -> Nat] : IsPower(p, w) /\ Power(w) = p[w] /\ \A i \in 0..w : p[i] > 0
    BY PowerIs
  <1> DEFINE S == {k \in Nat : g[k] < p[k]}
  <1>3. 0 \in S
    BY <1>1, <1>2 DEF IsNumber, IsPower
  <1>4. ASSUME NEW k \in 0..w-1, k \in S PROVE k + 1 \in S
    <2>1. g[k + 1] = g[k] * Base + bytes[k + 1] /\ p[k + 1] = Base * p[k]
      BY <1>1, <1>2 DEF IsNumber, IsPower
    <2>2. g[k] \in Nat /\ p[k] \in Nat /\ g[k] < p[k] /\ bytes[k + 1] \in Bytes
      BY <1>1, <1>2, <1>4
    <2> QED
      BY <2>1, <2>2, Carries
  <1>5. \A k \in 0..w : k \in S
    <2> HIDE DEF S
    <2> QED
      BY <1>3, <1>4, InductTo
  <1> QED
    BY <1>1, <1>2, <1>5

\* Bytes of one width are known by their number.
LEMMA NumberBinds ==
  ASSUME NEW w \in Nat, NEW a \in [1..w -> Bytes], NEW b \in [1..w -> Bytes],
         Number(a) = Number(b)
  PROVE  a = b
  <1>1. PICK g \in [0..w -> Nat] : IsNumber(g, a, w) /\ Number(a) = g[w]
    BY NumberIs
  <1>2. PICK h \in [0..w -> Nat] : IsNumber(h, b, w) /\ Number(b) = h[w]
    BY NumberIs
  <1>3. ASSUME NEW i \in 1..w, g[i] = h[i] PROVE g[i - 1] = h[i - 1] /\ a[i] = b[i]
    <2>1. /\ i \in 0..w /\ i # 0
          /\ g[i] = g[i - 1] * Base + a[i]
          /\ h[i] = h[i - 1] * Base + b[i]
      <3>1. i \in 0..w /\ i # 0
        OBVIOUS
      <3>2. g[i] = g[i - 1] * Base + a[i]
        BY <1>1, <3>1 DEF IsNumber
      <3>3. h[i] = h[i - 1] * Base + b[i]
        BY <1>2, <3>1 DEF IsNumber
      <3> QED
        BY <3>1, <3>2, <3>3
    <2>2. g[i - 1] \in Int /\ h[i - 1] \in Int
      BY <1>1, <1>2
    <2>3. a[i] \in 0..Base-1 /\ b[i] \in 0..Base-1
      BY DEF Bytes
    <2>4. g[i - 1] * Base + a[i] = h[i - 1] * Base + b[i]
      BY <1>3, <2>1
    <2>5. Base \in Nat /\ Base > 0
      BY Widths
    <2> QED
      BY <2>2, <2>3, <2>4, <2>5, DivModUnique
  <1> DEFINE S == {k \in Nat : g[w - k] = h[w - k]}
  <1>4. 0 \in S
    <2>1. w - 0 = w
      OBVIOUS
    <2>2. g[w] = h[w]
      BY <1>1, <1>2
    <2> QED
      BY <2>1, <2>2
  <1>5. ASSUME NEW k \in 0..w-1, k \in S PROVE k + 1 \in S
    <2>1. w - k \in 1..w /\ (w - k) - 1 = w - (k + 1)
      OBVIOUS
    <2> QED
      BY <1>3, <1>5, <2>1
  <1>6. \A k \in 0..w : k \in S
    <2> HIDE DEF S
    <2> QED
      BY <1>4, <1>5, InductTo
  <1>7. ASSUME NEW i \in 1..w PROVE a[i] = b[i]
    <2>1. w - i \in 0..w /\ w - (w - i) = i
      OBVIOUS
    <2>2. g[i] = h[i]
      BY <1>6, <2>1
    <2> QED
      BY <1>3, <2>2
  <1> QED
    BY <1>7

-----------------------------------------------------------------------------
(***************************************************************************)
(* What the encoding of a value tells.                                     *)
(***************************************************************************)

\* A quotient is bounded as its number is.
LEMMA DivBound ==
  ASSUME NEW n \in Nat, n > 0, NEW m \in Nat, NEW x \in Nat, x < n * m
  PROVE  x \div n \in 0..m-1
  <1> DEFINE q == x \div n
             r == x % n
  <1>1. q \in Int /\ r \in 0..n-1 /\ x = q * n + r
    BY DivMod
  <1> HIDE DEF q, r
  <1>2. q >= 0
    <2>1. SUFFICES ASSUME q <= -1 PROVE FALSE
      BY <1>1
    <2>2. q * n = (q + 1) * n - n /\ (q + 1) * n <= 0
      BY <1>1, <2>1
    <2> QED
      BY <1>1, <2>2
  <1>3. q < m
    <2>1. SUFFICES ASSUME q >= m PROVE FALSE
      BY <1>1
    <2>2. q * n = n * m + (q - m) * n /\ (q - m) * n >= 0
      BY <1>1, <2>1
    <2> QED
      BY <1>1, <2>2
  <1> QED
    BY <1>1, <1>2, <1>3 DEF q

\* A word is two halves, and the limbs divide them without a remainder.
LEMMA HalfIs ==
  /\ Half \in Nat /\ WordBytes = Half + Half
  /\ Radix \in Nat /\ Radix > 0 /\ Power(Half) = Radix * Spill
  /\ Radix \div Spill \in Nat /\ Radix \div Spill > 0
  /\ Radix = (Radix \div Spill) * Spill
  <1>1. WordBytes \in Nat /\ WordBytes % 2 = 0 /\ Spill \in Nat /\ Spill > 1
        /\ Power(Half) % Spill = 0 /\ Radix % Spill = 0
    BY CodecAssumption
  <1>2. Half \in Nat /\ WordBytes = Half + Half
    BY <1>1 DEF Half
  <1>3. Power(Half) \in Nat /\ Power(Half) > 0
    <2>1. PICK p \in [0..Half -> Nat] : Power(Half) = p[Half] /\ \A i \in 0..Half : p[i] > 0
      BY <1>2, PowerIs
    <2> QED
      BY <1>2, <2>1
  <1>4. Power(Half) = Radix * Spill /\ Radix \in Int
    <2>1. /\ Power(Half) \div Spill \in Int
          /\ Power(Half) = (Power(Half) \div Spill) * Spill + (Power(Half) % Spill)
      <3> DEFINE p == Power(Half)
      <3>1. p \in Int /\ Spill > 0
        BY <1>1, <1>3
      <3> HIDE DEF p
      <3>2. p \div Spill \in Int /\ p = (p \div Spill) * Spill + (p % Spill)
        BY <1>1, <3>1, DivMod
      <3> QED
        BY <3>2 DEF p
    <2> QED
      BY <1>1, <2>1 DEF Radix
  <1>5. Radix > 0
    <2>1. SUFFICES ASSUME Radix <= 0 PROVE FALSE
      BY <1>4
    <2>2. Radix * Spill <= 0
      BY <1>1, <1>4, <2>1
    <2> QED
      BY <1>3, <1>4, <2>2
  <1> DEFINE top == Radix \div Spill
  <1>6. top \in Int /\ Radix = top * Spill
    <2>1. /\ Radix \div Spill \in Int
          /\ Radix = (Radix \div Spill) * Spill + (Radix % Spill)
      BY <1>1, <1>4, DivMod
    <2> QED
      BY <1>1, <2>1
  <1>7. top > 0
    <2> HIDE DEF top
    <2>1. SUFFICES ASSUME top <= 0 PROVE FALSE
      BY <1>6
    <2>2. top * Spill <= 0
      BY <1>1, <1>6, <2>1
    <2> QED
      BY <1>5, <1>6, <2>2
  <1> QED
    BY <1>2, <1>4, <1>5, <1>6, <1>7

\* The halves of a word.
High(word) == SubSeq(word, 1, Half)
Low(word)  == SubSeq(word, Half + 1, WordBytes)

\* A word is its two halves: words with the same high and the same low half are
\* equal (a uint256 crosses as two fields of 16 bytes each).
LEMMA HalvesBind ==
  ASSUME NEW u \in Word, NEW v \in Word
  PROVE  /\ High(u) \in [1..Half -> Bytes] /\ Low(u) \in [1..Half -> Bytes]
         /\ High(u) = High(v) /\ Low(u) = Low(v) => u = v
  <1>1. Half \in Nat /\ WordBytes = Half + Half
    BY HalfIs
  <1>2. \A w \in Word : High(w) = [i \in 1..Half |-> w[i]] /\ Low(w) = [i \in 1..Half |-> w[Half + i]]
    <2> SUFFICES ASSUME NEW w \in Word
                 PROVE  High(w) = [i \in 1..Half |-> w[i]] /\ Low(w) = [i \in 1..Half |-> w[Half + i]]
      OBVIOUS
    <2>1. w \in Seq(Bytes) /\ Len(w) = WordBytes
      BY <1>1 DEF Word
    <2>2. High(w) = [i \in 1..Half |-> w[i]]
      BY <1>1, <2>1 DEF High
    <2>3. Low(w) = [i \in 1..Half |-> w[Half + i]]
      BY <1>1, <2>1 DEF Low
    <2> QED
      BY <2>2, <2>3
  <1>3. High(u) \in [1..Half -> Bytes] /\ Low(u) \in [1..Half -> Bytes]
    <2>1. \A i \in 1..Half : u[i] \in Bytes /\ u[Half + i] \in Bytes
      BY <1>1 DEF Word
    <2>2. [i \in 1..Half |-> u[i]] \in [1..Half -> Bytes]
      BY <2>1
    <2>3. [i \in 1..Half |-> u[Half + i]] \in [1..Half -> Bytes]
      BY <2>1
    <2> QED
      BY <1>2, <2>2, <2>3
  <1>4. ASSUME High(u) = High(v), Low(u) = Low(v) PROVE u = v
    <2>1. ASSUME NEW i \in 1..WordBytes PROVE u[i] = v[i]
      <3>1. CASE i <= Half
        <4>1. i \in 1..Half
          BY <1>1, <3>1
        <4>2. High(u)[i] = u[i] /\ High(v)[i] = v[i]
          <5>1. High(u) = [k \in 1..Half |-> u[k]]
            BY <1>2
          <5>2. High(v) = [k \in 1..Half |-> v[k]]
            BY <1>2
          <5> QED
            BY <4>1, <5>1, <5>2
        <4> QED
          BY <1>4, <4>2
      <3>2. CASE ~(i <= Half)
        <4> DEFINE j == i - Half
        <4>1. j \in 1..Half /\ Half + j = i
          BY <1>1, <3>2
        <4>2. Low(u)[j] = u[Half + j] /\ Low(v)[j] = v[Half + j]
          <5>1. Low(u) = [k \in 1..Half |-> u[Half + k]]
            BY <1>2
          <5>2. Low(v) = [k \in 1..Half |-> v[Half + k]]
            BY <1>2
          <5> HIDE DEF j
          <5> QED
            BY <4>1, <5>1, <5>2
        <4> QED
          BY <1>4, <4>1, <4>2
      <3> QED
        BY <3>1, <3>2
    <2>2. u \in [1..WordBytes -> Bytes] /\ v \in [1..WordBytes -> Bytes]
      BY DEF Word
    <2>3. u = [i \in 1..WordBytes |-> u[i]] /\ v = [i \in 1..WordBytes |-> v[i]]
      BY <2>2
    <2>4. [i \in 1..WordBytes |-> u[i]] = [i \in 1..WordBytes |-> v[i]]
      BY <2>1
    <2> QED
      BY <2>3, <2>4, Zenon
  <1> QED
    BY <1>3, <1>4

\* Three limbs, from which the word can be told (FieldEncode for U256).
LEMMA LimbsBind ==
  ASSUME NEW u \in Word, NEW v \in Word
  PROVE  /\ Limbs(u) \in Seq(Nat) /\ Len(Limbs(u)) = 3
         /\ Limbs(u) = Limbs(v) => u = v
  <1> DEFINE top == Radix \div Spill
             hi(w) == Number(High(w))
             lo(w) == Number(Low(w))
  <1>1. /\ Half \in Nat /\ Radix \in Nat /\ Radix > 0 /\ Power(Half) = Radix * Spill
        /\ top \in Nat /\ top > 0 /\ Spill \in Nat /\ Spill > 0
    BY HalfIs, Widths
  <1>2. \A w \in Word : hi(w) \in Nat /\ lo(w) \in Nat /\ lo(w) < Radix * Spill
    BY <1>1, HalvesBind, NumberBound
  <1>3. \A w : Limbs(w) = <<lo(w) % Radix,
                            lo(w) \div Radix + (hi(w) % top) * Spill,
                            hi(w) \div top>>
    BY DEF Limbs, High, Low
  <1> HIDE DEF top, hi, lo
  <1>4. \A w \in Word : /\ lo(w) % Radix \in 0..Radix-1 /\ lo(w) \div Radix \in 0..Spill-1
                        /\ lo(w) = (lo(w) \div Radix) * Radix + (lo(w) % Radix)
                        /\ hi(w) % top \in 0..top-1 /\ hi(w) \div top \in Int
                        /\ hi(w) = (hi(w) \div top) * top + (hi(w) % top)
    <2> SUFFICES ASSUME NEW w \in Word
                 PROVE  /\ lo(w) % Radix \in 0..Radix-1 /\ lo(w) \div Radix \in 0..Spill-1
                        /\ lo(w) = (lo(w) \div Radix) * Radix + (lo(w) % Radix)
                        /\ hi(w) % top \in 0..top-1 /\ hi(w) \div top \in Int
                        /\ hi(w) = (hi(w) \div top) * top + (hi(w) % top)
      OBVIOUS
    <2> DEFINE l == lo(w)
               h == hi(w)
    <2>1. l \in Nat /\ h \in Nat /\ l < Radix * Spill
      BY <1>2
    <2> HIDE DEF l, h
    <2>2. l % Radix \in 0..Radix-1 /\ l = (l \div Radix) * Radix + (l % Radix)
      BY <1>1, <2>1, DivMod
    <2>3. /\ h % top \in 0..top-1 /\ h \div top \in Int
          /\ h = (h \div top) * top + (h % top)
      BY <1>1, <2>1, DivMod
    <2>4. l \div Radix \in 0..Spill-1
      BY <1>1, <2>1, DivBound
    <2> QED
      BY <2>2, <2>3, <2>4 DEF l, h
  <1>5. hi(u) \div top \in Nat
    <2> DEFINE q == hi(u) \div top
               r == hi(u) % top
    <2>1. q \in Int /\ r \in 0..top-1 /\ hi(u) = q * top + r /\ hi(u) \in Nat
      BY <1>2, <1>4
    <2> HIDE DEF q, r
    <2>2. SUFFICES ASSUME q <= -1 PROVE FALSE
      BY <2>1 DEF q
    <2>3. q * top = (q + 1) * top - top /\ (q + 1) * top <= 0
      BY <1>1, <2>1, <2>2
    <2> QED
      BY <1>1, <2>1, <2>3
  <1>6. Limbs(u) \in Seq(Nat) /\ Len(Limbs(u)) = 3
    <2>1. lo(u) % Radix \in Nat /\ lo(u) \div Radix \in Nat /\ hi(u) % top \in Nat
      BY <1>1, <1>4
    <2>2. (hi(u) % top) * Spill \in Nat
      BY <1>1, <2>1
    <2>3. lo(u) \div Radix + (hi(u) % top) * Spill \in Nat
      BY <2>1, <2>2
    <2>4. \A a, b, c \in Nat : <<a, b, c>> \in Seq(Nat) /\ Len(<<a, b, c>>) = 3
      OBVIOUS
    <2> QED
      BY <1>3, <1>5, <2>1, <2>3, <2>4
  <1>7. ASSUME Limbs(u) = Limbs(v) PROVE u = v
    <2>1. /\ lo(u) % Radix = lo(v) % Radix
          /\ lo(u) \div Radix + (hi(u) % top) * Spill = lo(v) \div Radix + (hi(v) % top) * Spill
          /\ hi(u) \div top = hi(v) \div top
      BY <1>3, <1>7
    <2>2. hi(u) % top = hi(v) % top /\ lo(u) \div Radix = lo(v) \div Radix
      <3> DEFINE a == hi(u) % top
                 b == hi(v) % top
                 r == lo(u) \div Radix
                 t == lo(v) \div Radix
      <3>1. a \in Int /\ b \in Int /\ r \in 0..Spill-1 /\ t \in 0..Spill-1
        BY <1>4
      <3>2. r + a * Spill = t + b * Spill
        BY <2>1
      <3> HIDE DEF a, b, r, t
      <3>3. a * Spill + r = b * Spill + t
        BY <1>1, <3>1, <3>2
      <3>4. a = b /\ r = t
        BY <1>1, <3>1, <3>3, DivModUnique
      <3> QED
        BY <3>4 DEF a, b, r, t
    <2>3. lo(u) = lo(v) /\ hi(u) = hi(v)
      BY <1>4, <2>1, <2>2
    <2>4. Number(Low(u)) = Number(Low(v)) /\ Number(High(u)) = Number(High(v))
      BY <2>3 DEF lo, hi
    <2>5. Low(u) = Low(v) /\ High(u) = High(v)
      <3>1. /\ High(u) \in [1..Half -> Bytes] /\ Low(u) \in [1..Half -> Bytes]
            /\ High(v) \in [1..Half -> Bytes] /\ Low(v) \in [1..Half -> Bytes]
        BY HalvesBind
      <3> QED
        BY <1>1, <2>4, <3>1, NumberBinds
    <2> QED
      BY <2>5, HalvesBind
  <1> QED
    BY <1>6, <1>7

\* A single element is the number of its bytes; a word must be canonical, and
\* an address always is (FieldElement).
LEMMA ToFieldIs ==
  ASSUME NEW type \in {"bytes32", "address"}, NEW v \in Values(type)
  PROVE  /\ Number(v) \in Nat
         /\ ToField(type, v) =
              IF type = "bytes32" => Number(v) < Modulus THEN Ok(Number(v)) ELSE Err
  <1>1. CASE type = "bytes32"
    <2>1. v \in [1..WordBytes -> Bytes]
      BY <1>1 DEF Values, Word
    <2>2. Number(v) \in Nat
      BY <2>1, Widths, NumberBound
    <2> QED
      BY <1>1, <2>2 DEF ToField, FieldFromBytesCanonical
  <1>2. CASE type = "address"
    <2>1. v \in [1..AddrBytes -> Bytes]
      BY <1>2 DEF Values
    <2>2. Number(v) \in Nat /\ Number(v) < Power(AddrBytes) /\ Power(AddrBytes) \in Nat
      BY <2>1, Widths, NumberBound
    <2>3. Number(v) \in 0..Modulus-1
      BY <2>2, Widths, CodecAssumption
    <2>4. Number(v) % Modulus = Number(v)
      <3>1. Number(v) = 0 * Modulus + Number(v)
        BY <2>2, Widths
      <3> QED
        BY <2>3, <3>1, Widths, DivModIs
    <2> QED
      BY <1>2, <2>2, <2>4 DEF ToField, FieldFromBytes
  <1> QED
    BY <1>1, <1>2

\* A single element tells its bytes.
LEMMA ToFieldBinds ==
  ASSUME NEW type \in {"bytes32", "address"}, NEW u \in Values(type), NEW v \in Values(type),
         Number(u) = Number(v)
  PROVE  u = v
  <1>1. CASE type = "bytes32"
    <2>1. u \in [1..WordBytes -> Bytes] /\ v \in [1..WordBytes -> Bytes]
      BY <1>1 DEF Values, Word
    <2> QED
      BY <2>1, Widths, NumberBinds
  <1>2. CASE type = "address"
    <2>1. u \in [1..AddrBytes -> Bytes] /\ v \in [1..AddrBytes -> Bytes]
      BY <1>2 DEF Values
    <2> QED
      BY <2>1, Widths, NumberBinds
  <1> QED
    BY <1>1, <1>2

\* A vector by its numbers, and what makes it a set that can be encoded.
Numbers(items)      == [i \in 1..Len(items) |-> Number(items[i])]
CanonicalSet(items) == \A w \in ToSet(items) : Number(w) < Modulus
Rising(items)       == \A i \in 1..Len(items)-1 : Number(items[i]) < Number(items[i + 1])
SortedOf(S)         == InOrder(S, [w \in S |-> Number(w)])

\* What rises step by step rises.
LEMMA StepByStep ==
  ASSUME NEW n \in Nat, NEW a \in [1..n -> Int], \A i \in 1..n-1 : a[i] < a[i + 1]
  PROVE  Increasing(a, n)
  <1>1. ASSUME NEW i \in 1..n PROVE \A j \in 1..n : i < j => a[i] < a[j]
    <2> DEFINE S == {k \in Nat : i < k => a[i] < a[k]}
    <2>1. 0 \in S
      OBVIOUS
    <2>2. ASSUME NEW k \in 0..n-1, k \in S PROVE k + 1 \in S
      <3>1. CASE k < i
        BY <3>1
      <3>2. CASE k = i
        BY <3>2
      <3>3. CASE i < k
        <4>1. a[i] < a[k] /\ a[k] < a[k + 1]
          BY <2>2, <3>3
        <4>2. a[i] \in Int /\ a[k] \in Int /\ a[k + 1] \in Int
          BY <3>3
        <4> QED
          BY <4>1, <4>2
      <3> QED
        BY <3>1, <3>2, <3>3
    <2>3. \A k \in 0..n : k \in S
      <3> HIDE DEF S
      <3> QED
        BY <2>1, <2>2, InductTo
    <2> QED
      BY <2>3
  <1> QED
    BY <1>1 DEF Increasing

\* Words are numbers, different ones different numbers.
LEMMA WordIs ==
  /\ \A w \in Word : Number(w) \in Nat
  /\ \A v, w \in Word : Number(v) = Number(w) => v = w
  <1>1. ASSUME NEW w \in Word PROVE Number(w) \in Nat
    BY Widths, NumberBound DEF Word
  <1>2. ASSUME NEW v \in Word, NEW w \in Word, Number(v) = Number(w) PROVE v = w
    BY <1>2, Widths, NumberBinds DEF Word
  <1> QED
    BY <1>1, <1>2

\* The encoder of sets takes a vector that rises, and puts its length before it
\* (codec.rs SortedSet); sort_set takes any.
LEMMA SetsAre ==
  ASSUME NEW items \in Seq(Word)
  PROVE  /\ EncodeSortedSet(items) =
              IF CanonicalSet(items) /\ Rising(items)
              THEN Ok(<<Len(items)>> \o Numbers(items)) ELSE Err
         /\ SortSet(items) = IF CanonicalSet(items) THEN Ok(SortedOf(ToSet(items))) ELSE Err
  <1> DEFINE n == Len(items)
             r == [i \in DOMAIN items |-> FieldFromBytesCanonical(items[i])]
  <1>1. DOMAIN items = 1..n /\ n \in Nat
    OBVIOUS
  <1>2. Err.ok = FALSE /\ \A v : Ok(v).ok = TRUE /\ Ok(v).value = v
    BY DEF Err, Ok
  <1>3. \A i \in 1..n : r[i] = IF Number(items[i]) < Modulus THEN Ok(Number(items[i])) ELSE Err
    BY <1>1 DEF FieldFromBytesCanonical
  <1>4. DOMAIN r = 1..n
    BY <1>1
  <1>5. WordsToFields(items) = IF \A i \in DOMAIN r : r[i].ok
                               THEN Ok([i \in DOMAIN r |-> r[i].value]) ELSE Err
    BY DEF WordsToFields, Collect
  <1>6. CanonicalSet(items) <=> \A i \in 1..n : Number(items[i]) < Modulus
    BY <1>1 DEF CanonicalSet, ToSet
  <1> HIDE DEF r
  <1>7. WordsToFields(items) = IF CanonicalSet(items) THEN Ok(Numbers(items)) ELSE Err
    <2>1. CASE CanonicalSet(items)
      <3>1. \A i \in 1..n : r[i].ok /\ r[i].value = Number(items[i])
        BY <1>2, <1>3, <1>6, <2>1
      <3>2. [i \in DOMAIN r |-> r[i].value] = Numbers(items)
        BY <1>4, <3>1 DEF Numbers
      <3> QED
        BY <1>4, <1>5, <2>1, <3>1, <3>2
    <2>2. CASE ~CanonicalSet(items)
      <3>1. \E i \in 1..n : ~r[i].ok
        BY <1>2, <1>3, <1>6, <2>2
      <3> QED
        BY <1>4, <1>5, <2>2, <3>1
    <2> QED
      BY <2>1, <2>2
  <1>8. Len(Numbers(items)) = n /\ \A i \in 1..n : Numbers(items)[i] = Number(items[i])
    BY <1>1 DEF Numbers
  <1>9. (\A i \in 1..Len(Numbers(items))-1 : Numbers(items)[i] < Numbers(items)[i + 1])
          <=> Rising(items)
    BY <1>1, <1>8 DEF Rising
  <1>10. EncodeSortedSet(items) =
           IF WordsToFields(items).ok
           THEN LET f == WordsToFields(items).value
                IN IF \A i \in 1..Len(f)-1 : f[i] < f[i + 1] THEN Ok(<<Len(items)>> \o f) ELSE Err
           ELSE Err
    BY DEF EncodeSortedSet, Then
  <1>11. SortSet(items) = IF WordsToFields(items).ok THEN Ok(SortedOf(ToSet(items))) ELSE Err
    BY DEF SortSet, Then, SortedOf
  <1>12. CASE CanonicalSet(items)
    <2>1. WordsToFields(items).ok /\ WordsToFields(items).value = Numbers(items)
      BY <1>2, <1>7, <1>12
    <2> QED
      BY <1>9, <1>10, <1>11, <1>12, <2>1
  <1>13. CASE ~CanonicalSet(items)
    BY <1>2, <1>7, <1>10, <1>11, <1>13
  <1> QED
    BY <1>12, <1>13

\* A vector has finitely many members, all words.
LEMMA MembersAre ==
  ASSUME NEW items \in Seq(Word)
  PROVE  IsFiniteSet(ToSet(items)) /\ ToSet(items) \subseteq Word
  <1>1. DOMAIN items = 1..Len(items) /\ Len(items) \in Nat
    OBVIOUS
  <1>2. items \in Surjection(1..Len(items), ToSet(items))
    BY <1>1 DEF Surjection, ToSet
  <1>3. IsFiniteSet(1..Len(items))
    BY <1>1, FS_Interval
  <1>4. IsFiniteSet(ToSet(items))
    BY <1>2, <1>3, FS_Surjection
  <1> QED
    BY <1>1, <1>4 DEF ToSet

\* What sort_set makes of the members rises, and is no other set.
LEMMA SortedOfIs ==
  ASSUME NEW items \in Seq(Word)
  PROVE  LET s == SortedOf(ToSet(items))
         IN s \in Seq(Word) /\ ToSet(s) = ToSet(items) /\ Rising(s)
  <1> DEFINE S == ToSet(items)
             key == [w \in S |-> Number(w)]
             s == SortedOf(S)
             n == Cardinality(S)
  <1>1. IsFiniteSet(S) /\ S \subseteq Word
    BY MembersAre
  <1> HIDE DEF S
  <1>2. \A w \in S : key[w] = Number(w)
    OBVIOUS
  <1>3. \A w \in S : key[w] \in Int
    BY <1>1, <1>2, WordIs
  <1>4. \A v, w \in S : key[v] = key[w] => v = w
    BY <1>1, <1>2, WordIs
  <1>5. s = InOrder(S, key)
    BY DEF SortedOf
  <1> HIDE DEF s, key
  <1>6. n \in Nat /\ s \in [1..n -> S] /\ \A x \in S : \E i \in 1..n : s[i] = x
    BY <1>1, <1>3, <1>4, <1>5, InOrderIs
  <1>7. \A i, j \in 1..n : i < j => key[s[i]] < key[s[j]]
    BY <1>1, <1>3, <1>4, <1>5, InOrderIs
  <1>8. s \in Seq(Word) /\ Len(s) = n /\ DOMAIN s = 1..n
    BY <1>1, <1>6
  <1>9. ToSet(s) = S
    BY <1>6, <1>8 DEF ToSet
  <1>10. ASSUME NEW i \in 1..n-1 PROVE Number(s[i]) < Number(s[i + 1])
    <2>1. i \in 1..n /\ i + 1 \in 1..n /\ i < i + 1
      BY <1>6
    <2>2. key[s[i]] < key[s[i + 1]]
      BY <1>7, <2>1
    <2>3. s[i] \in S /\ s[i + 1] \in S
      BY <1>6, <2>1
    <2> QED
      BY <1>2, <2>2, <2>3
  <1>11. Rising(s)
    BY <1>8, <1>10 DEF Rising
  <1> QED
    BY <1>8, <1>9, <1>11 DEF s, S

\* Two vectors that rise and have the same members are the same.
LEMMA RisingBinds ==
  ASSUME NEW u \in Seq(Word), NEW v \in Seq(Word), Rising(u), Rising(v), ToSet(u) = ToSet(v)
  PROVE  u = v
  <1> DEFINE n == Len(u)
             m == Len(v)
             a == [i \in 1..n |-> Number(u[i])]
             b == [i \in 1..m |-> Number(v[i])]
  <1>1. /\ n \in Nat /\ m \in Nat /\ DOMAIN u = 1..n /\ DOMAIN v = 1..m
        /\ \A i \in 1..n : u[i] \in Word
        /\ \A i \in 1..m : v[i] \in Word
    OBVIOUS
  <1>2. a \in [1..n -> Int] /\ b \in [1..m -> Int]
    BY <1>1, WordIs
  <1>3. /\ \A i \in 1..n-1 : a[i] < a[i + 1]
        /\ \A i \in 1..m-1 : b[i] < b[i + 1]
    BY <1>1 DEF Rising
  <1>4. \A i \in 1..n : \E j \in 1..m : v[j] = u[i]
    BY <1>1 DEF ToSet
  <1>5. \A j \in 1..m : \E i \in 1..n : u[i] = v[j]
    BY <1>1 DEF ToSet
  <1>6. Within(a, n, b, m) /\ Within(b, m, a, n)
    BY <1>4, <1>5 DEF Within
  <1>7. Increasing(a, n) /\ Increasing(b, m)
    <2> HIDE DEF a, b
    <2> QED
      BY <1>1, <1>2, <1>3, StepByStep
  <1>8. n = m /\ a = b
    <2> HIDE DEF a, b
    <2> QED
      BY <1>1, <1>2, <1>6, <1>7, SameIncreasing
  <1>9. ASSUME NEW i \in 1..n PROVE u[i] = v[i]
    <2>1. a[i] = b[i] /\ i \in 1..m
      BY <1>8
    <2>2. Number(u[i]) = Number(v[i])
      BY <2>1
    <2> QED
      BY <1>1, <2>1, <2>2, WordIs
  <1> QED
    BY <1>1, <1>8, <1>9

\* When a value can be encoded: its words are canonical, its vectors rise.
Canonical(type, v) ==
  CASE type = "set"     -> CanonicalSet(v)
    [] type = "bytes32" -> Number(v) < Modulus
    [] OTHER            -> TRUE

Encodable(type, v) == Canonical(type, v) /\ (type = "set" => Rising(v))

\* What a value is encoded as: a vector by its length and its members, an amount
\* by three limbs, anything else by one element (emit_encode).
Encoded(type, v) ==
  CASE type = "set"     -> <<Len(v)>> \o Numbers(v)
    [] type = "uint256" -> Limbs(v)
    [] OTHER            -> <<Number(v)>>

\* encode_field of a value: its canonical fields when the value can be encoded,
\* and otherwise the error.
LEMMA EncodeFieldIs ==
  ASSUME NEW field, field.type \in Types, NEW v \in Values(field.type)
  PROVE  EncodeField(field, v) =
           IF Encodable(field.type, v) THEN Ok(Encoded(field.type, v)) ELSE Err
  <1>1. CASE field.type = "set"
    <2>1. v \in Seq(Word)
      BY <1>1 DEF Values
    <2>2. EncodeField(field, v) = EncodeSortedSet(v)
      BY <1>1 DEF EncodeField
    <2>3. EncodeSortedSet(v) = IF CanonicalSet(v) /\ Rising(v)
                               THEN Ok(<<Len(v)>> \o Numbers(v)) ELSE Err
      BY <2>1, SetsAre
    <2> QED
      BY <1>1, <2>2, <2>3 DEF Encodable, Canonical, Encoded
  <1>2. CASE field.type = "uint256"
    BY <1>2 DEF EncodeField, Encodable, Canonical, Encoded
  <1>3. CASE field.type \in {"bytes32", "address"}
    <2>1. ToField(field.type, v) = IF field.type = "bytes32" => Number(v) < Modulus
                                   THEN Ok(Number(v)) ELSE Err
      BY <1>3, ToFieldIs
    <2>2. Err.ok = FALSE /\ \A x : Ok(x).ok = TRUE /\ Ok(x).value = x
      BY DEF Err, Ok
    <2>3. EncodeField(field, v) = IF ToField(field.type, v).ok
                                  THEN Ok(<<ToField(field.type, v).value>>) ELSE Err
      BY <1>3 DEF EncodeField, Then
    <2>4. Encodable(field.type, v) <=> (field.type = "bytes32" => Number(v) < Modulus)
      BY <1>3 DEF Encodable, Canonical
    <2>5. Encoded(field.type, v) = <<Number(v)>>
      BY <1>3 DEF Encoded
    <2> QED
      BY <2>1, <2>2, <2>3, <2>4, <2>5
  <1> QED
    BY <1>1, <1>2, <1>3 DEF Types

\* Two encodings of a type that begin alike are as long, and tell the value.
LEMMA EncodedBinds ==
  ASSUME NEW type \in Types, NEW u \in Values(type), NEW v \in Values(type)
  PROVE  LET p == Encoded(type, u)
             q == Encoded(type, v)
         IN /\ p \in Seq(Nat) /\ Len(p) >= 1
            /\ p[1] = q[1] => Len(p) = Len(q)
            /\ p = q => u = v
  <1>1. CASE type = "set"
    <2>1. u \in Seq(Word) /\ v \in Seq(Word)
      BY <1>1 DEF Values
    <2>2. \A x \in Seq(Word) :
            /\ Numbers(x) \in Seq(Nat) /\ Len(Numbers(x)) = Len(x) /\ Len(x) \in Nat
            /\ \A i \in 1..Len(x) : Numbers(x)[i] = Number(x[i]) /\ x[i] \in Word
      BY WordIs DEF Numbers
    <2>3. \A x \in Seq(Word) :
            /\ Encoded(type, x) = <<Len(x)>> \o Numbers(x)
            /\ Encoded(type, x) \in Seq(Nat)
            /\ Len(Encoded(type, x)) = Len(x) + 1
            /\ Encoded(type, x)[1] = Len(x)
            /\ \A i \in 1..Len(x) : Encoded(type, x)[i + 1] = Number(x[i])
      <3> SUFFICES ASSUME NEW x \in Seq(Word)
                   PROVE  /\ Encoded(type, x) = <<Len(x)>> \o Numbers(x)
                          /\ Encoded(type, x) \in Seq(Nat)
                          /\ Len(Encoded(type, x)) = Len(x) + 1
                          /\ Encoded(type, x)[1] = Len(x)
                          /\ \A i \in 1..Len(x) : Encoded(type, x)[i + 1] = Number(x[i])
        OBVIOUS
      <3> DEFINE n == Len(x)
                 f == Numbers(x)
      <3>1. Encoded(type, x) = <<n>> \o f
        BY <1>1 DEF Encoded
      <3>2. /\ f \in Seq(Nat) /\ Len(f) = n /\ n \in Nat
            /\ \A i \in 1..n : f[i] = Number(x[i])
        BY <2>2
      <3> HIDE DEF n, f
      <3>3. /\ <<n>> \o f \in Seq(Nat) /\ Len(<<n>> \o f) = n + 1 /\ (<<n>> \o f)[1] = n
            /\ \A i \in 1..n : (<<n>> \o f)[i + 1] = f[i]
        BY <3>2
      <3> QED
        BY <3>1, <3>2, <3>3 DEF n, f
    <2>4. ASSUME Encoded(type, u) = Encoded(type, v) PROVE u = v
      <3>1. Len(u) = Len(v)
        BY <2>1, <2>3, <2>4
      <3>2. ASSUME NEW i \in 1..Len(u) PROVE u[i] = v[i]
        <4>1. Number(u[i]) = Number(v[i])
          BY <2>1, <2>3, <2>4, <3>1
        <4>2. u[i] \in Word /\ v[i] \in Word
          BY <2>1, <2>2, <3>1
        <4> QED
          BY <4>1, <4>2, WordIs
      <3> QED
        BY <2>1, <3>1, <3>2
    <2>5. /\ Encoded(type, u) \in Seq(Nat)
          /\ Len(Encoded(type, u)) = Len(u) + 1 /\ Len(u) \in Nat
          /\ Len(Encoded(type, v)) = Len(v) + 1
          /\ Encoded(type, u)[1] = Len(u) /\ Encoded(type, v)[1] = Len(v)
      BY <2>1, <2>2, <2>3
    <2> QED
      BY <2>4, <2>5
  <1>2. CASE type = "uint256"
    <2>1. u \in Word /\ v \in Word
      BY <1>2 DEF Values
    <2>2. Encoded(type, u) = Limbs(u) /\ Encoded(type, v) = Limbs(v)
      BY <1>2 DEF Encoded
    <2> QED
      BY <2>1, <2>2, LimbsBind
  <1>3. CASE type \in {"bytes32", "address"}
    <2>1. Encoded(type, u) = <<Number(u)>> /\ Encoded(type, v) = <<Number(v)>>
      BY <1>3 DEF Encoded
    <2>2. Number(u) \in Nat
      BY <1>3, ToFieldIs
    <2>3. Number(u) = Number(v) => u = v
      BY <1>3, ToFieldBinds
    <2> QED
      BY <2>1, <2>2, <2>3
  <1> QED
    BY <1>1, <1>2, <1>3 DEF Types

-----------------------------------------------------------------------------
(***************************************************************************)
(* What a concatenation of encodings tells.                                *)
(***************************************************************************)

IsFlat(f, seqs, n) ==
  /\ DOMAIN f = 0..n
  /\ \A i \in 0..n : f[i] = IF i = 0 THEN <<>> ELSE f[i - 1] \o seqs[i]

\* FlattenSeq by its prefixes.
LEMMA FlattenIs ==
  ASSUME NEW n \in Nat, NEW X, NEW seqs \in [1..n -> Seq(X)]
  PROVE  \E f \in [0..n -> Seq(X)] : IsFlat(f, seqs, n) /\ FlattenSeq(seqs) = f[n]
  <1> DEFINE S == {k \in Nat : \E f \in [0..k -> Seq(X)] : IsFlat(f, seqs, k)}
             flatten == CHOOSE f : f = [i \in 1..n |->
                                          IF i = 1 THEN seqs[i] ELSE f[i - 1] \o seqs[i]]
  <1>1. 0 \in S
    <2> DEFINE f == [i \in 0..0 |-> <<>>]
    <2>1. f \in [0..0 -> Seq(X)] /\ IsFlat(f, seqs, 0)
      BY DEF IsFlat
    <2> QED
      BY <2>1
  <1>2. ASSUME NEW k \in 0..n-1, k \in S PROVE k + 1 \in S
    <2>1. PICK f \in [0..k -> Seq(X)] : IsFlat(f, seqs, k)
      BY <1>2
    <2> DEFINE h == [i \in 0..k+1 |-> IF i = k + 1 THEN f[k] \o seqs[k + 1] ELSE f[i]]
    <2>2. f[k] \o seqs[k + 1] \in Seq(X)
      <3>1. f[k] \in Seq(X) /\ seqs[k + 1] \in Seq(X)
        BY <2>1
      <3> QED
        BY <3>1
    <2>3. h \in [0..k+1 -> Seq(X)]
      BY <2>1, <2>2
    <2>4. IsFlat(h, seqs, k + 1)
      <3>1. ASSUME NEW i \in 0..k+1
            PROVE  h[i] = IF i = 0 THEN <<>> ELSE h[i - 1] \o seqs[i]
        <4>1. CASE i = k + 1
          <5>1. h[k + 1] = f[k] \o seqs[k + 1] /\ h[k] = f[k]
            OBVIOUS
          <5>2. i - 1 = k /\ i # 0
            BY <4>1
          <5> HIDE DEF h
          <5> QED
            BY <4>1, <5>1, <5>2
        <4>2. CASE i # k + 1
          <5>1. i \in 0..k /\ h[i] = f[i] /\ (i # 0 => h[i - 1] = f[i - 1])
            BY <4>2
          <5>2. f[i] = IF i = 0 THEN <<>> ELSE f[i - 1] \o seqs[i]
            BY <2>1, <5>1 DEF IsFlat
          <5> HIDE DEF h
          <5> QED
            BY <5>1, <5>2
        <4> QED
          BY <4>1, <4>2
      <3> HIDE DEF h
      <3>2. DOMAIN h = 0..k+1
        BY <2>3
      <3> QED
        BY <3>1, <3>2 DEF IsFlat
    <2> HIDE DEF h
    <2> QED
      BY <2>3, <2>4
  <1>3. \A k \in 0..n : k \in S
    <2> HIDE DEF S
    <2> QED
      BY <1>1, <1>2, InductTo
  <1>4. PICK f \in [0..n -> Seq(X)] : IsFlat(f, seqs, n)
    <2>1. n \in S
      <3> HIDE DEF S
      <3> QED
        BY <1>3
    <2> HIDE DEF flatten
    <2> QED
      BY <2>1
  <1>5. Len(seqs) = n
    OBVIOUS
  <1>6. CASE n = 0
    <2>1. FlattenSeq(seqs) = seqs
      BY <1>5, <1>6 DEF FlattenSeq
    <2>2. seqs = <<>>
      BY <1>5, <1>6
    <2>3. f[n] = <<>>
      BY <1>4, <1>6 DEF IsFlat
    <2> QED
      BY <1>4, <2>1, <2>2, <2>3
  <1>7. CASE n # 0
    <2> DEFINE g == [i \in 1..n |-> f[i]]
    <2>1. ASSUME NEW i \in 1..n
          PROVE  g[i] = IF i = 1 THEN seqs[i] ELSE g[i - 1] \o seqs[i]
      <3>1. i \in 0..n /\ i # 0 /\ 0 \in 0..n
        OBVIOUS
      <3>2. \A j \in 0..n : f[j] = IF j = 0 THEN <<>> ELSE f[j - 1] \o seqs[j]
        BY <1>4 DEF IsFlat
      <3>3. f[i] = f[i - 1] \o seqs[i]
        BY <3>1, <3>2
      <3>4. f[0] = <<>>
        BY <3>1, <3>2
      <3>5. CASE i = 1
        <4>1. seqs[i] \in Seq(X)
          OBVIOUS
        <4>2. <<>> \o seqs[i] = seqs[i]
          BY <4>1
        <4>3. i - 1 = 0
          BY <3>5
        <4>4. f[i] = <<>> \o seqs[i]
          BY <3>3, <3>4, <4>3
        <4> QED
          BY <3>5, <4>2, <4>4
      <3>6. CASE i # 1
        <4>1. i - 1 \in 1..n
          BY <3>6
        <4> QED
          BY <3>3, <3>6, <4>1
      <3> QED
        BY <3>5, <3>6
    <2>2. g = [i \in 1..n |-> IF i = 1 THEN seqs[i] ELSE g[i - 1] \o seqs[i]]
      BY <2>1
    <2> HIDE DEF g
    <2>3. flatten = [i \in 1..n |-> IF i = 1 THEN seqs[i] ELSE flatten[i - 1] \o seqs[i]]
      BY <2>2
    <2>4. FlattenSeq(seqs) = flatten[n]
      BY <1>5, <1>7 DEF FlattenSeq
    <2> HIDE DEF flatten
    <2>5. \A i \in 1..n : flatten[i] = IF i = 1 THEN seqs[i] ELSE flatten[i - 1] \o seqs[i]
      BY <2>3
    <2> DEFINE T == {k \in Nat : k = 0 \/ flatten[k] = g[k]}
    <2>6. 0 \in T
      OBVIOUS
    <2>7. ASSUME NEW k \in 0..n-1, k \in T PROVE k + 1 \in T
      <3>1. k + 1 \in 1..n /\ (k + 1) - 1 = k
        OBVIOUS
      <3>2. flatten[k + 1] = IF k + 1 = 1 THEN seqs[k + 1] ELSE flatten[k] \o seqs[k + 1]
        BY <2>5, <3>1
      <3>3. g[k + 1] = IF k + 1 = 1 THEN seqs[k + 1] ELSE g[k] \o seqs[k + 1]
        BY <2>1, <3>1
      <3> QED
        BY <2>7, <3>2, <3>3
    <2>8. \A k \in 0..n : k \in T
      <3> HIDE DEF T
      <3> QED
        BY <2>6, <2>7, InductTo
    <2>9. flatten[n] = g[n]
      <3>1. n \in 0..n
        OBVIOUS
      <3> QED
        BY <1>7, <2>8, <3>1
    <2>10. g[n] = f[n]
      BY <1>7 DEF g
    <2> QED
      BY <1>4, <2>4, <2>9, <2>10
  <1> QED
    BY <1>6, <1>7

\* Two sequences put together, element by element.
LEMMA Joined ==
  ASSUME NEW a \in Seq(Nat), NEW b \in Seq(Nat)
  PROVE  /\ a \o b \in Seq(Nat)
         /\ Len(a) \in Nat /\ Len(b) \in Nat /\ Len(a \o b) = Len(a) + Len(b)
         /\ \A j \in 1..Len(a) : (a \o b)[j] = a[j]
         /\ \A j \in 1..Len(b) : (a \o b)[Len(a) + j] = b[j]
  OBVIOUS

\* Sequences are the same if they are as long and the same at each place.
LEMMA SameSequence ==
  ASSUME NEW X, NEW a \in Seq(X), NEW b \in Seq(X), Len(a) = Len(b),
         \A j \in 1..Len(a) : a[j] = b[j]
  PROVE  a = b
  OBVIOUS

\* Likewise functions.
LEMMA SameFunction ==
  ASSUME NEW D, NEW V, NEW p \in [D -> V], NEW q \in [D -> V], \A i \in D : p[i] = q[i]
  PROVE  p = q
  OBVIOUS

\* Three sequences put together, in either way.
LEMMA Grouped ==
  ASSUME NEW a \in Seq(Nat), NEW b \in Seq(Nat), NEW c \in Seq(Nat)
  PROVE  (a \o b) \o c = a \o (b \o c)
  <1> DEFINE ab == a \o b
             bc == b \o c
             u  == ab \o c
             v  == a \o bc
  <1>1. /\ ab \in Seq(Nat) /\ Len(a) \in Nat /\ Len(b) \in Nat /\ Len(ab) = Len(a) + Len(b)
        /\ \A j \in 1..Len(a) : ab[j] = a[j]
        /\ \A j \in 1..Len(b) : ab[Len(a) + j] = b[j]
    BY Joined
  <1>2. /\ bc \in Seq(Nat) /\ Len(c) \in Nat /\ Len(bc) = Len(b) + Len(c)
        /\ \A j \in 1..Len(b) : bc[j] = b[j]
        /\ \A j \in 1..Len(c) : bc[Len(b) + j] = c[j]
    BY Joined
  <1> HIDE DEF ab, bc
  <1>3. /\ u \in Seq(Nat) /\ Len(u) = Len(ab) + Len(c)
        /\ \A j \in 1..Len(ab) : u[j] = ab[j]
        /\ \A j \in 1..Len(c) : u[Len(ab) + j] = c[j]
    BY <1>1, Joined
  <1>4. /\ v \in Seq(Nat) /\ Len(v) = Len(a) + Len(bc)
        /\ \A j \in 1..Len(a) : v[j] = a[j]
        /\ \A j \in 1..Len(bc) : v[Len(a) + j] = bc[j]
    BY <1>2, Joined
  <1> HIDE DEF u, v
  <1>5. /\ Len(u) = Len(v) /\ Len(u) = Len(ab) + Len(c)
        /\ Len(a) \in Nat /\ Len(b) \in Nat /\ Len(c) \in Nat
        /\ Len(ab) = Len(a) + Len(b) /\ Len(bc) = Len(b) + Len(c)
    BY <1>1, <1>2, <1>3, <1>4
  <1>6. ASSUME NEW j \in 1..Len(u) PROVE u[j] = v[j]
    <2>1. CASE j <= Len(a)
      <3>1. j \in 1..Len(a) /\ j \in 1..Len(ab)
        BY <1>1, <2>1
      <3> QED
        BY <1>1, <1>3, <1>4, <3>1
    <2>2. CASE Len(a) < j /\ j <= Len(ab)
      <3> DEFINE k == j - Len(a)
      <3>1. k \in 1..Len(b) /\ j = Len(a) + k /\ k \in 1..Len(bc) /\ j \in 1..Len(ab)
        BY <1>5, <2>2
      <3> HIDE DEF k
      <3>2. u[j] = ab[j] /\ ab[j] = b[k]
        BY <1>1, <1>3, <3>1
      <3>3. v[j] = bc[k] /\ bc[k] = b[k]
        BY <1>2, <1>4, <3>1
      <3> QED
        BY <3>2, <3>3
    <2>3. CASE Len(ab) < j
      <3> DEFINE k == j - Len(ab)
      <3>1. /\ k \in 1..Len(c) /\ j = Len(ab) + k /\ Len(b) + k \in 1..Len(bc)
            /\ j = Len(a) + (Len(b) + k)
        BY <1>5, <2>3
      <3> HIDE DEF k
      <3>2. u[j] = c[k]
        BY <1>3, <3>1
      <3>3. v[j] = bc[Len(b) + k] /\ bc[Len(b) + k] = c[k]
        BY <1>2, <1>4, <3>1
      <3> QED
        BY <3>2, <3>3
    <2> QED
      BY <1>5, <2>1, <2>2, <2>3
  <1>7. u = v
    BY <1>3, <1>4, <1>5, <1>6, SameSequence
  <1> QED
    BY <1>7 DEF u, v, ab, bc

\* A sequence put in front can be taken away.
LEMMA Cancelled ==
  ASSUME NEW a \in Seq(Nat), NEW x \in Seq(Nat), NEW y \in Seq(Nat), a \o x = a \o y
  PROVE  x = y
  <1>1. /\ Len(a) \in Nat /\ Len(x) \in Nat /\ Len(a \o x) = Len(a) + Len(x)
        /\ \A j \in 1..Len(x) : (a \o x)[Len(a) + j] = x[j]
    BY Joined
  <1>2. /\ Len(y) \in Nat /\ Len(a \o y) = Len(a) + Len(y)
        /\ \A j \in 1..Len(y) : (a \o y)[Len(a) + j] = y[j]
    BY Joined
  <1>3. Len(x) = Len(y)
    BY <1>1, <1>2
  <1>4. \A j \in 1..Len(x) : x[j] = y[j]
    <2> DEFINE u == a \o x
    <2>1. u = a \o y
      OBVIOUS
    <2>2. /\ \A j \in 1..Len(x) : u[Len(a) + j] = x[j]
          /\ \A j \in 1..Len(y) : u[Len(a) + j] = y[j]
      BY <1>1, <1>2, <2>1
    <2> HIDE DEF u
    <2> QED
      BY <1>3, <2>2
  <1> QED
    BY <1>3, <1>4, SameSequence

\* The prefixes of a concatenation, from the empty one to the whole.
Steps(f, seqs, n) ==
  /\ f \in [0..n -> Seq(Nat)] /\ f[0] = <<>>
  /\ \A k \in 0..n-1 : f[k + 1] = f[k] \o seqs[k + 1]

\* Flattening a list of sequences takes one step per part: a function holds
\* every prefix, and its last value is the flat sequence.
LEMMA FlatSteps ==
  ASSUME NEW n \in Nat, NEW seqs \in [1..n -> Seq(Nat)]
  PROVE  \E f : Steps(f, seqs, n) /\ FlattenSeq(seqs) = f[n]
  <1>1. PICK f \in [0..n -> Seq(Nat)] : IsFlat(f, seqs, n) /\ FlattenSeq(seqs) = f[n]
    BY FlattenIs
  <1>2. \A i \in 0..n : f[i] = IF i = 0 THEN <<>> ELSE f[i - 1] \o seqs[i]
    BY <1>1 DEF IsFlat
  <1>3. f[0] = <<>>
    <2>1. 0 \in 0..n
      OBVIOUS
    <2> QED
      BY <1>2, <2>1
  <1>4. ASSUME NEW k \in 0..n-1 PROVE f[k + 1] = f[k] \o seqs[k + 1]
    <2>1. k + 1 \in 0..n /\ k + 1 # 0 /\ (k + 1) - 1 = k
      OBVIOUS
    <2> QED
      BY <1>2, <2>1
  <1>5. Steps(f, seqs, n)
    BY <1>1, <1>3, <1>4 DEF Steps
  <1> QED
    BY <1>1, <1>5

\* Where the part at a place of a concatenation lies, whatever follows: at every
\* prefix from its own on.
Lies(u, o, part) == \A j \in 1..Len(part) : o + j \in 1..Len(u) /\ u[o + j] = part[j]

\* A part that lies in a sequence at an offset still lies there when the
\* sequence grows at its end.
LEMMA LiesOn ==
  ASSUME NEW u \in Seq(Nat), NEW x \in Seq(Nat), NEW part \in Seq(Nat), NEW o \in Nat,
         Lies(u, o, part)
  PROVE  Lies(u \o x, o, part)
  <1> SUFFICES ASSUME NEW j \in 1..Len(part)
               PROVE  o + j \in 1..Len(u \o x) /\ (u \o x)[o + j] = part[j]
    BY DEF Lies
  <1>1. o + j \in 1..Len(u) /\ u[o + j] = part[j]
    BY DEF Lies
  <1> DEFINE m == o + j
  <1>2. m \in 1..Len(u) /\ u[m] = part[j]
    BY <1>1
  <1> HIDE DEF m
  <1>3. m \in 1..Len(u \o x) /\ (u \o x)[m] = u[m]
    BY <1>2, Joined
  <1> QED
    BY <1>2, <1>3 DEF m

\* The part appended last lies where the sequence before it ended.
LEMMA LiesLast ==
  ASSUME NEW u \in Seq(Nat), NEW part \in Seq(Nat)
  PROVE  Lies(u \o part, Len(u), part)
  <1>1. /\ Len(u) \in Nat /\ Len(part) \in Nat /\ Len(u \o part) = Len(u) + Len(part)
        /\ \A j \in 1..Len(part) : (u \o part)[Len(u) + j] = part[j]
    BY Joined
  <1>2. \A j \in 1..Len(part) : Len(u) + j \in 1..Len(u \o part)
    BY <1>1
  <1> QED
    BY <1>1, <1>2 DEF Lies

\* Each part lies in the flat sequence, followed by anything, at the length of
\* the parts before it.
LEMMA PartLies ==
  ASSUME NEW n \in Nat, NEW seqs \in [1..n -> Seq(Nat)], NEW f, Steps(f, seqs, n),
         NEW k \in 0..n-1, NEW x \in Seq(Nat)
  PROVE  Lies(f[n] \o x, Len(f[k]), seqs[k + 1])
  <1> DEFINE o == Len(f[k])
             part == seqs[k + 1]
             S == {m \in Nat : k < m => Lies(f[m], o, part)}
  <1>1. k + 1 \in 1..n /\ k \in 0..n /\ n \in 0..n /\ k < n /\ k \in Nat
    OBVIOUS
  <1>2. f[k] \in Seq(Nat) /\ part \in Seq(Nat) /\ o \in Nat /\ f[n] \in Seq(Nat)
    <2>1. f \in [0..n -> Seq(Nat)]
      BY DEF Steps
    <2>2. f[k] \in Seq(Nat) /\ f[n] \in Seq(Nat)
      BY <1>1, <2>1
    <2>3. part \in Seq(Nat)
      BY <1>1
    <2>4. o \in Nat
      BY <2>2
    <2> QED
      BY <2>2, <2>3, <2>4
  <1>3. f[k + 1] = f[k] \o part
    BY DEF Steps
  <1>4. Lies(f[k + 1], o, part)
    BY <1>2, <1>3, LiesLast
  <1>5. 0 \in S
    BY <1>1
  <1> HIDE DEF o, part
  <1>6. ASSUME NEW m \in 0..n-1, m \in S PROVE m + 1 \in S
    <2>1. CASE k = m
      BY <1>4, <2>1
    <2>2. CASE k < m
      <3>1. m \in 0..n /\ m + 1 \in 1..n
        OBVIOUS
      <3>2. f[m] \in Seq(Nat) /\ seqs[m + 1] \in Seq(Nat) /\ f[m + 1] = f[m] \o seqs[m + 1]
        BY <3>1 DEF Steps
      <3>3. Lies(f[m], o, part)
        BY <1>6, <2>2
      <3>4. Lies(f[m] \o seqs[m + 1], o, part)
        BY <1>2, <3>2, <3>3, LiesOn
      <3>5. Lies(f[m + 1], o, part)
        BY <3>2, <3>4
      <3> QED
        BY <3>1, <3>5
    <2>3. CASE m < k
      <3>1. ~(k < m + 1)
        BY <1>1, <2>3
      <3> QED
        BY <3>1
    <2> QED
      BY <1>1, <2>1, <2>2, <2>3
  <1>7. \A m \in 0..n : m \in S
    <2> HIDE DEF S
    <2> QED
      BY <1>5, <1>6, InductTo
  <1>8. Lies(f[n], o, part)
    BY <1>1, <1>7
  <1>9. Lies(f[n] \o x, o, part)
    BY <1>2, <1>8, LiesOn
  <1> QED
    BY <1>9 DEF o, part

\* Two parts that lie at the same place are the same, if those that begin alike
\* are as long and none is empty.
LEMMA LieAlike ==
  ASSUME NEW u, NEW o \in Nat, NEW a \in Seq(Nat), NEW b \in Seq(Nat),
         Lies(u, o, a), Lies(u, o, b), Len(a) >= 1, Len(b) >= 1,
         a[1] = b[1] => Len(a) = Len(b)
  PROVE  a = b
  <1>1. 1 \in 1..Len(a) /\ 1 \in 1..Len(b)
    OBVIOUS
  <1>2. \A j \in 1..Len(a) : u[o + j] = a[j]
    BY DEF Lies
  <1>3. \A j \in 1..Len(b) : u[o + j] = b[j]
    BY DEF Lies
  <1>4. Len(a) = Len(b)
    BY <1>1, <1>2, <1>3
  <1>5. \A j \in 1..Len(a) : a[j] = b[j]
    BY <1>2, <1>3, <1>4
  <1> QED
    BY <1>4, <1>5, SameSequence

\* Parts that can be told by what they begin with: none is empty, and where two
\* of a place begin alike they are as long.
Telling(p, q, n) ==
  \A i \in 1..n : /\ Len(p[i]) >= 1 /\ Len(q[i]) >= 1
                  /\ p[i][1] = q[i][1] => Len(p[i]) = Len(q[i])

\* From two concatenations that are the same, whatever follows them, such parts
\* can be told.
LEMMA PartsBind ==
  ASSUME NEW n \in Nat, NEW p \in [1..n -> Seq(Nat)], NEW q \in [1..n -> Seq(Nat)],
         NEW x \in Seq(Nat), NEW y \in Seq(Nat),
         Telling(p, q, n), FlattenSeq(p) \o x = FlattenSeq(q) \o y
  PROVE  p = q /\ x = y
  <1>1. PICK f : Steps(f, p, n) /\ FlattenSeq(p) = f[n]
    BY FlatSteps
  <1>2. PICK g : Steps(g, q, n) /\ FlattenSeq(q) = g[n]
    BY FlatSteps
  <1>3. /\ f[0] = g[0] /\ f[n] \in Seq(Nat) /\ f[n] \o x = g[n] \o y
        /\ \A k \in 0..n-1 : /\ f[k] \in Seq(Nat) /\ f[k + 1] = f[k] \o p[k + 1]
                             /\ g[k + 1] = g[k] \o q[k + 1]
    <2>1. /\ f \in [0..n -> Seq(Nat)] /\ f[0] = <<>>
          /\ \A k \in 0..n-1 : f[k + 1] = f[k] \o p[k + 1]
      BY <1>1 DEF Steps
    <2>2. g[0] = <<>> /\ \A k \in 0..n-1 : g[k + 1] = g[k] \o q[k + 1]
      BY <1>2 DEF Steps
    <2>3. f[n] \o x = g[n] \o y
      BY <1>1, <1>2
    <2>4. f[n] \in Seq(Nat) /\ \A k \in 0..n-1 : f[k] \in Seq(Nat)
      BY <2>1
    <2> QED
      BY <2>1, <2>2, <2>3, <2>4
  <1> DEFINE S == {k \in Nat : f[k] = g[k] /\ \A i \in 1..k : p[i] = q[i]}
  <1>4. 0 \in S
    BY <1>3
  <1>5. ASSUME NEW k \in 0..n-1, k \in S PROVE k + 1 \in S
    <2> DEFINE a == p[k + 1]
               b == q[k + 1]
               o == Len(f[k])
               u == f[n] \o x
    <2>1. k + 1 \in 1..n /\ k \in Nat
      OBVIOUS
    <2>2. f[k] = g[k] /\ \A i \in 1..k : p[i] = q[i]
      BY <1>5
    <2> HIDE DEF S
    <2>3. /\ a \in Seq(Nat) /\ b \in Seq(Nat) /\ Len(a) >= 1 /\ Len(b) >= 1
          /\ a[1] = b[1] => Len(a) = Len(b)
      BY <2>1 DEF Telling
    <2>4. o \in Nat
      <3>1. f[k] \in Seq(Nat)
        BY <1>3
      <3> QED
        BY <3>1
    <2>5. Lies(u, o, a)
      <3>1. Steps(f, p, n)
        BY <1>1
      <3> QED
        BY <3>1, PartLies
    <2>6. Lies(u, o, b)
      <3>1. Steps(g, q, n)
        BY <1>2
      <3>2. Lies(g[n] \o y, Len(g[k]), q[k + 1])
        BY <3>1, PartLies
      <3> QED
        BY <1>3, <2>2, <3>2
    <2>7. a = b
      <3> HIDE DEF a, b, o, u
      <3> QED
        BY <2>3, <2>4, <2>5, <2>6, LieAlike
    <2>8. f[k + 1] = g[k + 1]
      BY <1>3, <2>2, <2>7
    <2>9. ASSUME NEW i \in 1..k+1 PROVE p[i] = q[i]
      <3>1. CASE i = k + 1
        BY <2>7, <3>1
      <3>2. CASE i # k + 1
        <4>1. i \in 1..k
          BY <3>2
        <4> QED
          BY <2>2, <4>1
      <3> QED
        BY <3>1, <3>2
    <2> QED
      BY <2>1, <2>8, <2>9 DEF S
  <1>6. \A k \in 0..n : k \in S
    <2> HIDE DEF S
    <2> QED
      BY <1>4, <1>5, InductTo
  <1>7. f[n] = g[n] /\ \A i \in 1..n : p[i] = q[i]
    BY <1>6
  <1>8. p = q
    BY <1>7, SameFunction
  <1>9. x = y
    <2> DEFINE a == f[n]
    <2>1. a \in Seq(Nat) /\ a \o x = a \o y
      BY <1>3, <1>7
    <2> HIDE DEF a
    <2> QED
      BY <2>1, Cancelled
  <1> QED
    BY <1>8, <1>9

\* What goes before is told first.
LEMMA HeadBinds ==
  ASSUME NEW s \in Nat, NEW t \in Nat, NEW a \in Seq(Nat), NEW b \in Seq(Nat),
         NEW c \in Seq(Nat), NEW d \in Seq(Nat),
         Iterate(Iterate(<<s>>, a), b) = Iterate(Iterate(<<t>>, c), d)
  PROVE  s = t /\ Iterate(a, b) = Iterate(c, d)
  <1>1. /\ (<<s>> \o a) \o b = <<s>> \o (a \o b) /\ a \o b \in Seq(Nat)
        /\ (<<t>> \o c) \o d = <<t>> \o (c \o d) /\ c \o d \in Seq(Nat)
    <2>1. \A z \in Nat : <<z>> \in Seq(Nat)
      OBVIOUS
    <2>2. a \o b \in Seq(Nat) /\ c \o d \in Seq(Nat)
      BY Joined
    <2>3. (<<s>> \o a) \o b = <<s>> \o (a \o b)
      <3> DEFINE z == <<s>>
      <3>1. z \in Seq(Nat)
        BY <2>1
      <3> HIDE DEF z
      <3>2. (z \o a) \o b = z \o (a \o b)
        BY <3>1, Grouped
      <3> QED
        BY <3>2 DEF z
    <2>4. (<<t>> \o c) \o d = <<t>> \o (c \o d)
      <3> DEFINE z == <<t>>
      <3>1. z \in Seq(Nat)
        BY <2>1
      <3> HIDE DEF z
      <3>2. (z \o c) \o d = z \o (c \o d)
        BY <3>1, Grouped
      <3> QED
        BY <3>2 DEF z
    <2> QED
      BY <2>2, <2>3, <2>4
  <1> DEFINE ab == a \o b
             cd == c \o d
  <1>2. <<s>> \o ab = <<t>> \o cd /\ ab \in Seq(Nat) /\ cd \in Seq(Nat)
    BY <1>1 DEF Iterate
  <1> HIDE DEF ab, cd
  <1>3. (<<s>> \o ab)[1] = s /\ (<<t>> \o cd)[1] = t
    BY <1>2
  <1>4. s = t
    BY <1>2, <1>3
  <1>5. <<s>> \in Seq(Nat) /\ <<s>> \o ab = <<s>> \o cd
    <2>1. <<s>> \in Seq(Nat)
      OBVIOUS
    <2>2. <<s>> = <<t>>
      BY <1>4
    <2> QED
      BY <1>2, <2>1, <2>2
  <1>6. ab = cd
    <2> DEFINE z == <<s>>
    <2>1. z \in Seq(Nat) /\ z \o ab = z \o cd
      BY <1>5
    <2> HIDE DEF z
    <2> QED
      BY <1>2, <2>1, Cancelled
  <1> QED
    BY <1>4, <1>6 DEF ab, cd, Iterate

-----------------------------------------------------------------------------
(***************************************************************************)
(* What a hash tells of its entity.                                        *)
(***************************************************************************)

\* A value of the struct, and when its groups can be encoded.
IsEntity(e) ==
  /\ DOMAIN e = DOMAIN EntityFields
  /\ \A i \in DOMAIN EntityFields : e[i] \in Values(EntityFields[i].type)

CanEncode(e, S) == \A i \in S : Encodable(EntityFields[i].type, e[i])

\* A group holds all fields of its role, n in number.
IsGroup(g, n, role) ==
  /\ n \in Nat /\ g \in [1..n -> Having(EntityFields, role)]
  /\ \A i \in Having(EntityFields, role) : \E k \in 1..n : g[k] = i

Parts(g, n, e) == [k \in 1..n |-> Encoded(EntityFields[g[k]].type, e[g[k]])]

\* The fields of a role are fields, each of some type.
LEMMA HavingIs ==
  ASSUME NEW role
  PROVE  \A i \in Having(EntityFields, role) :
           i \in DOMAIN EntityFields /\ EntityFields[i].type \in Types
  <1>1. \A i \in DOMAIN EntityFields : EntityFields[i] \in FieldDecls
    BY EntityAssumption
  <1>2. \A i \in DOMAIN EntityFields : EntityFields[i].type \in Types
    BY <1>1 DEF FieldDecls
  <1> QED
    BY <1>2 DEF Having

\* The struct has one seed, a single element, and its groups are all fields of
\* their roles (expand).
LEMMA StructIs ==
  LET impl == Expand(EntityFields).value
  IN /\ \E n : IsGroup(impl.idBody, n, "id_body")
     /\ \E n : IsGroup(impl.body, n, "body")
     /\ Having(EntityFields, "id_seed") = {impl.seed}
     /\ impl.seed \in DOMAIN EntityFields
     /\ EntityFields[impl.seed].type \in Elements
  <1> DEFINE F == EntityFields
             impl == Expand(F).value
             S(role) == Having(F, role)
             g(role) == OrderGroup(F, S(role))
  <1>1. F \in Seq(FieldDecls) /\ Expand(F).ok
    BY EntityAssumption
  <1>2. /\ impl = [seed |-> CHOOSE i \in S("id_seed") : TRUE,
                   idBody |-> g("id_body").value, body |-> g("body").value]
        /\ g("id_body").ok /\ g("body").ok /\ ~Refused(F)
    BY <1>1, ExpandIs
  <1>3. \A role : S(role) \in SUBSET DOMAIN F
    BY DEF Having
  <1>4. ASSUME NEW role, g(role).ok PROVE \E n : IsGroup(g(role).value, n, role)
    <2> DEFINE n == Cardinality(S(role))
    <2>1. /\ n \in Nat /\ g(role).value \in [1..n -> S(role)]
          /\ \A x \in S(role) : \E i \in 1..n : g(role).value[i] = x
      BY <1>1, <1>3, <1>4, GroupIs
    <2>2. IsGroup(g(role).value, n, role)
      BY <2>1 DEF IsGroup
    <2> QED
      BY <2>2
  <1>5. /\ \E n : IsGroup(impl.idBody, n, "id_body")
        /\ \E n : IsGroup(impl.body, n, "body")
    <2>1. impl.idBody = g("id_body").value /\ impl.body = g("body").value
      BY <1>2
    <2> QED
      BY <1>2, <1>4, <2>1
  <1>6. S("id_seed") = {impl.seed}
    <2>1. Cardinality(S("id_seed")) = 1
      BY <1>2 DEF Refused
    <2>2. IsFiniteSet(S("id_seed"))
      BY <1>1, <1>3, GroupIs
    <2>3. impl.seed = CHOOSE i \in S("id_seed") : TRUE
      BY <1>2
    <2> HIDE DEF S
    <2>4. PICK x : S("id_seed") = {x}
      BY <2>1, <2>2, FS_Singleton
    <2> QED
      BY <2>3, <2>4
  <1>7. EntityFields[impl.seed].type \in Elements
    <2>1. impl.seed \in Having(F, "id_seed")
      BY <1>6
    <2>2. ~Refused(F)
      BY <1>2
    <2> HIDE DEF impl
    <2> QED
      BY <2>1, <2>2 DEF Refused
  <1>8. impl.seed \in DOMAIN F
    BY <1>3, <1>6
  <1> QED
    BY <1>5, <1>6, <1>7, <1>8

\* A group is encoded part by part if each of its values can be.
LEMMA GroupEncoded ==
  ASSUME NEW role, NEW n, NEW g, IsGroup(g, n, role), NEW e, IsEntity(e)
  PROVE  EncodeGroup(EntityFields, g, e) =
           IF CanEncode(e, Having(EntityFields, role)) THEN Ok(FlattenSeq(Parts(g, n, e))) ELSE Err
  <1> DEFINE S == Having(EntityFields, role)
             r == [k \in DOMAIN g |-> EncodeField(EntityFields[g[k]], e[g[k]])]
  <1>1. n \in Nat /\ g \in [1..n -> S] /\ \A i \in S : \E k \in 1..n : g[k] = i
    BY DEF IsGroup
  <1>2. DOMAIN g = 1..n /\ DOMAIN r = 1..n
    BY <1>1
  <1>3. \A v : Ok(v).ok = TRUE /\ Ok(v).value = v
    BY DEF Ok
  <1>4. Err.ok = FALSE
    BY DEF Err
  <1>5. ASSUME NEW k \in 1..n
        PROVE  r[k] = IF Encodable(EntityFields[g[k]].type, e[g[k]])
                      THEN Ok(Encoded(EntityFields[g[k]].type, e[g[k]])) ELSE Err
    <2>1. g[k] \in DOMAIN EntityFields /\ EntityFields[g[k]].type \in Types
      BY <1>1, HavingIs
    <2>2. e[g[k]] \in Values(EntityFields[g[k]].type)
      BY <2>1 DEF IsEntity
    <2>3. r[k] = EncodeField(EntityFields[g[k]], e[g[k]])
      BY <1>2
    <2> HIDE DEF r
    <2> DEFINE field == EntityFields[g[k]]
               v == e[g[k]]
    <2>4. field.type \in Types /\ v \in Values(field.type) /\ r[k] = EncodeField(field, v)
      BY <2>1, <2>2, <2>3
    <2> HIDE DEF field, v
    <2>5. r[k] = IF Encodable(field.type, v) THEN Ok(Encoded(field.type, v)) ELSE Err
      BY <2>4, EncodeFieldIs
    <2> QED
      BY <2>5 DEF field, v
  <1>6. EncodeGroup(EntityFields, g, e) =
          IF Collect(r).ok THEN Ok(FlattenSeq(Collect(r).value)) ELSE Err
    BY DEF EncodeGroup, Then
  <1> HIDE DEF r
  <1>7. CASE CanEncode(e, S)
    <2>1. \A k \in 1..n : /\ r[k].ok
                          /\ r[k].value = Encoded(EntityFields[g[k]].type, e[g[k]])
      BY <1>1, <1>3, <1>5, <1>7 DEF CanEncode
    <2>2. Collect(r) = Ok([k \in DOMAIN r |-> r[k].value])
      BY <1>2, <2>1 DEF Collect
    <2>3. [k \in DOMAIN r |-> r[k].value] = Parts(g, n, e)
      BY <1>2, <2>1 DEF Parts
    <2> QED
      BY <1>3, <1>6, <1>7, <2>2, <2>3
  <1>8. CASE ~CanEncode(e, S)
    <2>1. \E k \in 1..n : ~r[k].ok
      BY <1>1, <1>4, <1>5, <1>8 DEF CanEncode
    <2>2. Collect(r) = Err
      BY <1>2, <2>1 DEF Collect
    <2> QED
      BY <1>4, <1>6, <1>8, <2>2
  <1> QED
    BY <1>7, <1>8

\* The parts of a group are sequences that begin with their length's worth.
LEMMA PartsAre ==
  ASSUME NEW role, NEW n, NEW g, IsGroup(g, n, role), NEW e, IsEntity(e), NEW d, IsEntity(d)
  PROVE  /\ Parts(g, n, e) \in [1..n -> Seq(Nat)]
         /\ \A k \in 1..n :
              /\ Len(Parts(g, n, e)[k]) >= 1
              /\ Parts(g, n, e)[k][1] = Parts(g, n, d)[k][1]
                   => Len(Parts(g, n, e)[k]) = Len(Parts(g, n, d)[k])
              /\ Parts(g, n, e)[k] = Parts(g, n, d)[k] => e[g[k]] = d[g[k]]
  <1>1. ASSUME NEW k \in 1..n
        PROVE  LET p == Parts(g, n, e)[k]
                   q == Parts(g, n, d)[k]
               IN /\ p \in Seq(Nat) /\ Len(p) >= 1
                  /\ p[1] = q[1] => Len(p) = Len(q)
                  /\ p = q => e[g[k]] = d[g[k]]
    <2> DEFINE type == EntityFields[g[k]].type
               u == e[g[k]]
               v == d[g[k]]
    <2>1. g[k] \in DOMAIN EntityFields /\ type \in Types
      <3>1. g[k] \in Having(EntityFields, role)
        BY DEF IsGroup
      <3> QED
        BY <3>1, HavingIs
    <2>2. u \in Values(type) /\ v \in Values(type)
      BY <2>1 DEF IsEntity
    <2>3. Parts(g, n, e)[k] = Encoded(type, u) /\ Parts(g, n, d)[k] = Encoded(type, v)
      BY DEF Parts
    <2>4. type \in Types
      BY <2>1
    <2> HIDE DEF type, u, v
    <2>5. /\ Encoded(type, u) \in Seq(Nat) /\ Len(Encoded(type, u)) >= 1
          /\ Encoded(type, u)[1] = Encoded(type, v)[1]
               => Len(Encoded(type, u)) = Len(Encoded(type, v))
          /\ Encoded(type, u) = Encoded(type, v) => u = v
      BY <2>2, <2>4, EncodedBinds
    <2> QED
      BY <2>3, <2>5 DEF u, v
  <1>2. Parts(g, n, e) \in [1..n -> Seq(Nat)]
    BY <1>1 DEF Parts
  <1> QED
    BY <1>1, <1>2

\* Whatever follows, an encoded group tells the values of its fields.
LEMMA GroupBinds ==
  ASSUME NEW role, NEW n, NEW g, IsGroup(g, n, role), NEW e, IsEntity(e), NEW d, IsEntity(d),
         NEW x \in Seq(Nat), NEW y \in Seq(Nat),
         Iterate(FlattenSeq(Parts(g, n, e)), x) = Iterate(FlattenSeq(Parts(g, n, d)), y)
  PROVE  (\A i \in Having(EntityFields, role) : e[i] = d[i]) /\ x = y
  <1> DEFINE p == Parts(g, n, e)
             q == Parts(g, n, d)
  <1>1. n \in Nat
    BY DEF IsGroup
  <1>2. p \in [1..n -> Seq(Nat)] /\ q \in [1..n -> Seq(Nat)]
    BY PartsAre
  <1>3. Telling(p, q, n)
    BY PartsAre DEF Telling
  <1>4. \A k \in 1..n : p[k] = q[k] => e[g[k]] = d[g[k]]
    BY PartsAre
  <1>5. FlattenSeq(p) \o x = FlattenSeq(q) \o y
    BY DEF Iterate
  <1> HIDE DEF p, q
  <1>6. p = q /\ x = y
    BY <1>1, <1>2, <1>3, <1>5, PartsBind
  <1>7. ASSUME NEW i \in Having(EntityFields, role) PROVE e[i] = d[i]
    <2>1. PICK k \in 1..n : g[k] = i
      BY DEF IsGroup
    <2> QED
      BY <1>4, <1>6, <2>1
  <1> QED
    BY <1>6, <1>7

\* An encoded group is a sequence of numbers.
LEMMA GroupFlat ==
  ASSUME NEW role, NEW n, NEW g, IsGroup(g, n, role), NEW e, IsEntity(e)
  PROVE  FlattenSeq(Parts(g, n, e)) \in Seq(Nat)
  <1> DEFINE p == Parts(g, n, e)
  <1>1. n \in Nat /\ p \in [1..n -> Seq(Nat)]
    BY PartsAre DEF IsGroup
  <1> HIDE DEF p
  <1>2. PICK f : Steps(f, p, n) /\ FlattenSeq(p) = f[n]
    BY <1>1, FlatSteps
  <1>3. f[n] \in Seq(Nat)
    BY <1>1, <1>2 DEF Steps
  <1> QED
    BY <1>2, <1>3 DEF p

\* An entity can be hashed if each value that is committed to can be encoded.
LEMMA HashIs ==
  ASSUME NEW e, IsEntity(e)
  PROVE  /\ EntityHash(EntityFields, e).ok <=> CanEncode(e, Committed)
         /\ ~EntityHash(EntityFields, e).ok => EntityHash(EntityFields, e) = Err
  <1> DEFINE F == EntityFields
             impl == Expand(F).value
             ids  == EncodeGroup(F, impl.idBody, e)
             body == EncodeGroup(F, impl.body, e)
             seed == ToField(F[impl.seed].type, e[impl.seed])
  <1>1. PICK n : IsGroup(impl.idBody, n, "id_body")
    BY StructIs
  <1>2. PICK m : IsGroup(impl.body, m, "body")
    BY StructIs
  <1>3. Having(F, "id_seed") = {impl.seed} /\ impl.seed \in DOMAIN F /\ F[impl.seed].type \in Elements
    BY StructIs
  <1>4. Expand(F).ok
    BY EntityAssumption
  <1>5. (\A v : Ok(v).ok = TRUE) /\ Err.ok = FALSE
    BY DEF Ok, Err
  <1>6. ids.ok <=> CanEncode(e, Having(F, "id_body"))
    BY <1>1, <1>5, GroupEncoded
  <1>7. body.ok <=> CanEncode(e, Having(F, "body"))
    BY <1>2, <1>5, GroupEncoded
  <1>8. seed.ok <=> CanEncode(e, Having(F, "id_seed"))
    <2> DEFINE type == F[impl.seed].type
               v == e[impl.seed]
    <2>1. type \in {"bytes32", "address"}
      BY <1>3 DEF Elements
    <2>2. v \in Values(type)
      BY <1>3 DEF IsEntity
    <2>3. seed = ToField(type, v)
      OBVIOUS
    <2>4. CanEncode(e, Having(F, "id_seed")) <=> Encodable(type, v)
      BY <1>3 DEF CanEncode
    <2> HIDE DEF type, v, seed
    <2>5. seed.ok <=> (type = "bytes32" => Number(v) < Modulus)
      BY <1>5, <2>1, <2>2, <2>3, ToFieldIs
    <2>6. Encodable(type, v) <=> (type = "bytes32" => Number(v) < Modulus)
      BY <2>1 DEF Encodable, Canonical
    <2> QED
      BY <2>4, <2>5, <2>6
  <1>9. CanEncode(e, Committed) <=> /\ CanEncode(e, Having(F, "id_seed"))
                                    /\ CanEncode(e, Having(F, "id_body"))
                                    /\ CanEncode(e, Having(F, "body"))
    BY DEF CanEncode, Committed, Hashed
  <1>10. EntityHash(F, e) = IF Expand(F).ok /\ ids.ok /\ body.ok /\ seed.ok
                            THEN Ok((<<seed.value>> \o ids.value) \o body.value) ELSE Err
    BY EntityHashIs
  <1> HIDE DEF F, impl, ids, body, seed
  <1>11. /\ EntityHash(F, e).ok <=> CanEncode(e, Committed)
         /\ ~EntityHash(F, e).ok => EntityHash(F, e) = Err
    BY <1>4, <1>5, <1>6, <1>7, <1>8, <1>9, <1>10
  <1> QED
    BY <1>11 DEF F

\* The hash of one that can be: the seed, then the two groups.
LEMMA HashedAs ==
  ASSUME NEW n, IsGroup(Expand(EntityFields).value.idBody, n, "id_body"),
         NEW m, IsGroup(Expand(EntityFields).value.body, m, "body"),
         NEW e, IsEntity(e), CanEncode(e, Committed)
  PROVE  LET impl == Expand(EntityFields).value
         IN /\ Number(e[impl.seed]) \in Nat
            /\ EntityHash(EntityFields, e) =
                 Ok(Iterate(Iterate(<<Number(e[impl.seed])>>,
                                    FlattenSeq(Parts(impl.idBody, n, e))),
                            FlattenSeq(Parts(impl.body, m, e))))
  <1> DEFINE F == EntityFields
             impl == Expand(F).value
             ids  == EncodeGroup(F, impl.idBody, e)
             body == EncodeGroup(F, impl.body, e)
             seed == ToField(F[impl.seed].type, e[impl.seed])
             a == FlattenSeq(Parts(impl.idBody, n, e))
             b == FlattenSeq(Parts(impl.body, m, e))
             s == Number(e[impl.seed])
  <1>1. Having(F, "id_seed") = {impl.seed} /\ impl.seed \in DOMAIN F /\ F[impl.seed].type \in Elements
    BY StructIs
  <1>2. Expand(F).ok
    BY EntityAssumption
  <1>3. /\ CanEncode(e, Having(F, "id_seed"))
        /\ CanEncode(e, Having(F, "id_body")) /\ CanEncode(e, Having(F, "body"))
    BY DEF CanEncode, Committed, Hashed
  <1>4. ids = Ok(a)
    BY <1>3, GroupEncoded
  <1>5. body = Ok(b)
    BY <1>3, GroupEncoded
  <1>6. seed = Ok(s) /\ s \in Nat
    <2> DEFINE type == F[impl.seed].type
               v == e[impl.seed]
    <2>1. type \in {"bytes32", "address"}
      BY <1>1 DEF Elements
    <2>2. v \in Values(type)
      BY <1>1 DEF IsEntity
    <2>3. seed = ToField(type, v) /\ s = Number(v)
      OBVIOUS
    <2>4. Encodable(type, v)
      BY <1>1, <1>3 DEF CanEncode
    <2> HIDE DEF type, v, seed, s
    <2>5. type = "bytes32" => Number(v) < Modulus
      BY <2>1, <2>4 DEF Encodable, Canonical
    <2>6. ToField(type, v) = Ok(Number(v)) /\ Number(v) \in Nat
      BY <2>1, <2>2, <2>5, ToFieldIs
    <2> QED
      BY <2>3, <2>6
  <1>7. EntityHash(F, e) = IF Expand(F).ok /\ ids.ok /\ body.ok /\ seed.ok
                           THEN Ok((<<seed.value>> \o ids.value) \o body.value) ELSE Err
    BY EntityHashIs
  <1>8. \A v : Ok(v).ok = TRUE /\ Ok(v).value = v
    BY DEF Ok
  <1> HIDE DEF F, impl, ids, body, seed, a, b, s
  <1>9. EntityHash(F, e) = Ok(Iterate(Iterate(<<s>>, a), b)) /\ s \in Nat
    BY <1>2, <1>4, <1>5, <1>6, <1>7, <1>8 DEF Iterate
  <1> QED
    BY <1>9 DEF F, impl, a, b, s

\* Hashes are the same exactly if all that is committed to is.
LEMMA HashTells ==
  ASSUME NEW e, IsEntity(e), CanEncode(e, Committed),
         NEW d, IsEntity(d), CanEncode(d, Committed)
  PROVE  EntityHash(EntityFields, e) = EntityHash(EntityFields, d)
           <=> \A i \in Committed : e[i] = d[i]
  <1> DEFINE F == EntityFields
             impl == Expand(F).value
             p == impl.idBody
             q == impl.body
             o == impl.seed
  <1>1. PICK n : IsGroup(p, n, "id_body")
    BY StructIs
  <1>2. PICK m : IsGroup(q, m, "body")
    BY StructIs
  <1>3. Having(F, "id_seed") = {o} /\ o \in DOMAIN F /\ F[o].type \in Elements
    BY StructIs
  <1> DEFINE s == Number(e[o])
             t == Number(d[o])
             a == FlattenSeq(Parts(p, n, e))
             b == FlattenSeq(Parts(q, m, e))
             aa == FlattenSeq(Parts(p, n, d))
             bb == FlattenSeq(Parts(q, m, d))
  <1>4. /\ s \in Nat /\ EntityHash(F, e) = Ok(Iterate(Iterate(<<s>>, a), b))
        /\ t \in Nat /\ EntityHash(F, d) = Ok(Iterate(Iterate(<<t>>, aa), bb))
    BY <1>1, <1>2, HashedAs
  <1>5. a \in Seq(Nat) /\ b \in Seq(Nat) /\ aa \in Seq(Nat) /\ bb \in Seq(Nat)
    BY <1>1, <1>2, GroupFlat
  <1>6. Committed = Having(F, "id_seed") \cup Having(F, "id_body") \cup Having(F, "body")
    BY DEF Committed, Hashed
  <1>7. ASSUME \A i \in Committed : e[i] = d[i]
        PROVE  EntityHash(F, e) = EntityHash(F, d)
    <2>1. e[o] = d[o]
      BY <1>3, <1>6, <1>7
    <2>2. \A k \in 1..n : e[p[k]] = d[p[k]]
      BY <1>1, <1>6, <1>7 DEF IsGroup
    <2>3. \A k \in 1..m : e[q[k]] = d[q[k]]
      BY <1>2, <1>6, <1>7 DEF IsGroup
    <2>4. Parts(p, n, e) = Parts(p, n, d)
      BY <2>2 DEF Parts
    <2>5. Parts(q, m, e) = Parts(q, m, d)
      BY <2>3 DEF Parts
    <2> QED
      BY <1>4, <2>1, <2>4, <2>5
  <1>8. ASSUME EntityHash(F, e) = EntityHash(F, d)
        PROVE  \A i \in Committed : e[i] = d[i]
    <2>1. Iterate(Iterate(<<s>>, a), b) = Iterate(Iterate(<<t>>, aa), bb)
      <3> DEFINE u == Iterate(Iterate(<<s>>, a), b)
                 v == Iterate(Iterate(<<t>>, aa), bb)
      <3>1. EntityHash(F, e) = Ok(u) /\ EntityHash(F, d) = Ok(v)
        BY <1>4
      <3> HIDE DEF u, v
      <3>2. Ok(u).value = u /\ Ok(v).value = v
        BY DEF Ok
      <3>3. u = v
        BY <1>8, <3>1, <3>2
      <3> QED
        BY <3>3 DEF u, v
    <2>2. s = t /\ Iterate(a, b) = Iterate(aa, bb)
      <3>1. s \in Nat /\ t \in Nat
        BY <1>4
      <3> HIDE DEF s, t, a, b, aa, bb
      <3> QED
        BY <1>5, <2>1, <3>1, HeadBinds
    <2>3. (\A i \in Having(F, "id_body") : e[i] = d[i]) /\ b = bb
      <3>1. Iterate(FlattenSeq(Parts(p, n, e)), b) = Iterate(FlattenSeq(Parts(p, n, d)), bb)
        BY <2>2
      <3>2. b \in Seq(Nat) /\ bb \in Seq(Nat)
        BY <1>5
      <3>3. IsGroup(p, n, "id_body")
        BY <1>1
      <3> HIDE DEF b, bb, p
      <3> QED
        BY <3>1, <3>2, <3>3, GroupBinds
    <2>4. \A i \in Having(F, "body") : e[i] = d[i]
      <3>1. <<>> \in Seq(Nat)
        OBVIOUS
      <3>2. Iterate(FlattenSeq(Parts(q, m, e)), <<>>) = Iterate(FlattenSeq(Parts(q, m, d)), <<>>)
        BY <2>3
      <3>3. IsGroup(q, m, "body")
        BY <1>2
      <3> DEFINE x == <<>>
      <3>4. /\ x \in Seq(Nat)
            /\ Iterate(FlattenSeq(Parts(q, m, e)), x) = Iterate(FlattenSeq(Parts(q, m, d)), x)
        BY <3>1, <3>2
      <3> HIDE DEF q, x
      <3> QED
        BY <3>3, <3>4, GroupBinds
    <2>5. e[o] = d[o]
      <3> DEFINE type == F[o].type
      <3>1. type \in {"bytes32", "address"}
        BY <1>3 DEF Elements
      <3>2. e[o] \in Values(type) /\ d[o] \in Values(type)
        BY <1>3 DEF IsEntity
      <3> HIDE DEF type
      <3> QED
        BY <2>2, <3>1, <3>2, ToFieldBinds
    <2> QED
      BY <1>3, <1>6, <2>3, <2>4, <2>5
  <1> QED
    BY <1>7, <1>8

-----------------------------------------------------------------------------
(***************************************************************************)
(* What a hash binds: the meaning of an entity.                            *)
(***************************************************************************)

\* An entity whose vectors went through sort_set.
IsVector(i) == i \in Committed /\ EntityFields[i].type = "set"

Normal(e) ==
  [i \in DOMAIN EntityFields |-> IF IsVector(i) THEN SortedOf(ToSet(e[i])) ELSE e[i]]

\* Canonical, field by field.
LEMMA CanonicalIs ==
  ASSUME NEW e
  PROVE  IsCanonical(e) <=> \A i \in Committed : Canonical(EntityFields[i].type, e[i])
  BY DEF IsCanonical, Canonical, CanonicalSet

\* The fields that are committed to.
LEMMA CommittedAre ==
  \A i \in Committed : i \in DOMAIN EntityFields /\ EntityFields[i].type \in Types
  BY HavingIs DEF Committed, Hashed

\* Normalising succeeds if the members of all vectors are canonical.
LEMMA NormaliseIs ==
  ASSUME NEW e, IsEntity(e)
  PROVE  Normalise(EntityFields, e) =
           IF \A i \in Committed : IsVector(i) => CanonicalSet(e[i])
           THEN Ok(Normal(e)) ELSE Err
  <1> DEFINE F == EntityFields
             D == DOMAIN F
             r == [i \in D |-> IF i \in Hashed(F) /\ F[i].type = "set"
                               THEN SortSet(e[i]) ELSE Ok(e[i])]
  <1>1. Normalise(F, e) = Collect(r)
    BY DEF Normalise
  <1>2. (\A v : Ok(v).ok = TRUE /\ Ok(v).value = v) /\ Err.ok = FALSE
    BY DEF Ok, Err
  <1>3. ASSUME NEW i \in D
        PROVE  r[i] = IF IsVector(i) => CanonicalSet(e[i]) THEN Ok(Normal(e)[i]) ELSE Err
    <2>1. Normal(e)[i] = IF IsVector(i) THEN SortedOf(ToSet(e[i])) ELSE e[i]
      BY DEF Normal
    <2>2. r[i] = IF IsVector(i) THEN SortSet(e[i]) ELSE Ok(e[i])
      BY DEF IsVector, Committed
    <2> HIDE DEF r
    <2>3. CASE IsVector(i)
      <3>1. e[i] \in Seq(Word)
        BY <2>3 DEF IsVector, IsEntity, Values
      <3>2. SortSet(e[i]) = IF CanonicalSet(e[i]) THEN Ok(SortedOf(ToSet(e[i]))) ELSE Err
        BY <3>1, SetsAre
      <3> QED
        BY <2>1, <2>2, <2>3, <3>2
    <2>4. CASE ~IsVector(i)
      BY <2>1, <2>2, <2>4
    <2> QED
      BY <2>3, <2>4
  <1>4. DOMAIN r = D
    OBVIOUS
  <1>5. \A i : IsVector(i) => i \in Committed /\ i \in D
    BY CommittedAre DEF IsVector
  <1> HIDE DEF r
  <1>6. CASE \A i \in Committed : IsVector(i) => CanonicalSet(e[i])
    <2>1. \A i \in D : r[i].ok /\ r[i].value = Normal(e)[i]
      BY <1>2, <1>3, <1>5, <1>6
    <2>2. Collect(r) = Ok([i \in D |-> r[i].value])
      BY <1>4, <2>1 DEF Collect
    <2>3. [i \in D |-> r[i].value] = Normal(e)
      BY <2>1 DEF Normal
    <2> QED
      BY <1>1, <1>6, <2>2, <2>3
  <1>7. CASE ~\A i \in Committed : IsVector(i) => CanonicalSet(e[i])
    <2>1. \E i \in D : ~r[i].ok
      BY <1>2, <1>3, <1>5, <1>7
    <2>2. Collect(r) = Err
      BY <1>4, <2>1 DEF Collect
    <2> QED
      BY <1>1, <1>7, <2>2
  <1> QED
    BY <1>6, <1>7

\* Normalising leaves an entity that can be hashed if its words are canonical,
\* and is one already if it can.
LEMMA NormalIs ==
  ASSUME NEW e, IsEntity(e)
  PROVE  /\ IsEntity(Normal(e))
         /\ CanEncode(Normal(e), Committed) <=> IsCanonical(e)
         /\ CanEncode(e, Committed) => /\ IsCanonical(e)
                                       /\ \A i \in Committed : Normal(e)[i] = e[i]
  <1>1. \A i \in DOMAIN EntityFields :
          Normal(e)[i] = IF IsVector(i) THEN SortedOf(ToSet(e[i])) ELSE e[i]
    BY DEF Normal
  <1>2. \A i : IsVector(i) =>
          /\ i \in DOMAIN EntityFields /\ EntityFields[i].type = "set" /\ e[i] \in Seq(Word)
          /\ Normal(e)[i] \in Seq(Word) /\ ToSet(Normal(e)[i]) = ToSet(e[i])
          /\ Rising(Normal(e)[i])
    <2> SUFFICES ASSUME NEW i, IsVector(i)
                 PROVE  /\ i \in DOMAIN EntityFields /\ EntityFields[i].type = "set"
                        /\ e[i] \in Seq(Word)
                        /\ Normal(e)[i] \in Seq(Word) /\ ToSet(Normal(e)[i]) = ToSet(e[i])
                        /\ Rising(Normal(e)[i])
      OBVIOUS
    <2>1. i \in DOMAIN EntityFields /\ EntityFields[i].type = "set"
      BY CommittedAre DEF IsVector
    <2>2. e[i] \in Seq(Word)
      BY <2>1 DEF IsEntity, Values
    <2>3. Normal(e)[i] = SortedOf(ToSet(e[i]))
      BY <1>1, <2>1
    <2> QED
      BY <2>1, <2>2, <2>3, SortedOfIs
  <1>3. IsEntity(Normal(e))
    <2>1. DOMAIN Normal(e) = DOMAIN EntityFields
      BY DEF Normal
    <2>2. ASSUME NEW i \in DOMAIN EntityFields
          PROVE  Normal(e)[i] \in Values(EntityFields[i].type)
      <3>1. CASE IsVector(i)
        BY <1>2, <3>1 DEF Values
      <3>2. CASE ~IsVector(i)
        BY <1>1, <3>2 DEF IsEntity
      <3> QED
        BY <3>1, <3>2
    <2> QED
      BY <2>1, <2>2 DEF IsEntity
  <1>4. ASSUME NEW i \in Committed
        PROVE  LET type == EntityFields[i].type
               IN /\ Encodable(type, Normal(e)[i]) <=> Canonical(type, e[i])
                  /\ Encodable(type, e[i]) => Canonical(type, e[i]) /\ Normal(e)[i] = e[i]
    <2>1. i \in DOMAIN EntityFields
      BY CommittedAre
    <2>2. CASE EntityFields[i].type = "set"
      <3>1. IsVector(i)
        BY <2>2 DEF IsVector
      <3>2. /\ e[i] \in Seq(Word) /\ Normal(e)[i] \in Seq(Word)
            /\ ToSet(Normal(e)[i]) = ToSet(e[i]) /\ Rising(Normal(e)[i])
        BY <1>2, <3>1
      <3>3. \A v : Canonical("set", v) <=> CanonicalSet(v)
        BY DEF Canonical
      <3>4. \A v : Encodable("set", v) <=> CanonicalSet(v) /\ Rising(v)
        BY <3>3 DEF Encodable
      <3>5. CanonicalSet(Normal(e)[i]) <=> CanonicalSet(e[i])
        BY <3>2 DEF CanonicalSet
      <3>6. Rising(e[i]) => Normal(e)[i] = e[i]
        BY <3>2, RisingBinds
      <3> QED
        BY <2>2, <3>2, <3>3, <3>4, <3>5, <3>6
    <2>3. CASE EntityFields[i].type # "set"
      <3>1. Normal(e)[i] = e[i]
        BY <1>1, <2>1, <2>3 DEF IsVector
      <3> QED
        BY <2>3, <3>1 DEF Encodable
    <2> QED
      BY <2>2, <2>3
  <1>5. IsCanonical(e) <=> \A i \in Committed : Canonical(EntityFields[i].type, e[i])
    BY CanonicalIs
  <1> QED
    BY <1>3, <1>4, <1>5 DEF CanEncode

\* What a producer that normalises gets: a hash, if all words are canonical.
LEMMA HashOfIs ==
  ASSUME NEW e, IsEntity(e)
  PROVE  LET h == Then(Normalise(EntityFields, e), LAMBDA n : EntityHash(EntityFields, n))
         IN /\ h.ok <=> IsCanonical(e)
            /\ h = IF IsCanonical(e) THEN EntityHash(EntityFields, Normal(e)) ELSE Err
  <1> DEFINE h == Then(Normalise(EntityFields, e), LAMBDA n : EntityHash(EntityFields, n))
             hash == EntityHash(EntityFields, Normal(e))
  <1>1. (\A v : Ok(v).ok = TRUE /\ Ok(v).value = v) /\ Err.ok = FALSE
    BY DEF Ok, Err
  <1>2. /\ hash.ok <=> IsCanonical(e)
        /\ ~hash.ok => hash = Err
    BY NormalIs, HashIs
  <1>3. h = IF Normalise(EntityFields, e).ok
            THEN EntityHash(EntityFields, Normalise(EntityFields, e).value) ELSE Err
    BY DEF Then
  <1>4. IsCanonical(e) => \A i \in Committed : IsVector(i) => CanonicalSet(e[i])
    BY CanonicalIs DEF Canonical, IsVector
  <1> HIDE DEF h
  <1>5. h = IF \A i \in Committed : IsVector(i) => CanonicalSet(e[i]) THEN hash ELSE Err
    BY <1>1, <1>3, NormaliseIs
  <1> HIDE DEF hash
  <1>6. (h.ok <=> IsCanonical(e)) /\ h = IF IsCanonical(e) THEN hash ELSE Err
    BY <1>1, <1>2, <1>4, <1>5
  <1> QED
    BY <1>6 DEF h, hash

\* Two entities mean the same exactly if they are the same once normalised.
LEMMA MeaningIs ==
  ASSUME NEW d, IsEntity(d), NEW e, IsEntity(e)
  PROVE  /\ Meaning(d) = Meaning(e) <=> \A i \in Committed : Normal(d)[i] = Normal(e)[i]
         /\ Meaning(d) = Meaning(e) => (IsCanonical(d) <=> IsCanonical(e))
  <1> DEFINE M(x, i) == IF EntityFields[i].type = "set" THEN ToSet(x[i]) ELSE x[i]
  <1>1. Meaning(d) = [i \in Committed |-> M(d, i)] /\ Meaning(e) = [i \in Committed |-> M(e, i)]
    BY DEF Meaning
  <1>2. Meaning(d) = Meaning(e) <=> \A i \in Committed : M(d, i) = M(e, i)
    <2> HIDE DEF M
    <2>1. ASSUME Meaning(d) = Meaning(e), NEW i \in Committed PROVE M(d, i) = M(e, i)
      <3>1. Meaning(d)[i] = M(d, i) /\ Meaning(e)[i] = M(e, i)
        BY <1>1
      <3> QED
        BY <2>1, <3>1
    <2>2. ASSUME \A i \in Committed : M(d, i) = M(e, i) PROVE Meaning(d) = Meaning(e)
      BY <1>1, <2>2
    <2> QED
      BY <2>1, <2>2
  <1>3. ASSUME NEW i \in Committed
        PROVE  /\ M(d, i) = M(e, i) <=> Normal(d)[i] = Normal(e)[i]
               /\ M(d, i) = M(e, i) => (Canonical(EntityFields[i].type, d[i])
                                          <=> Canonical(EntityFields[i].type, e[i]))
    <2>1. i \in DOMAIN EntityFields
      BY CommittedAre
    <2>2. CASE EntityFields[i].type = "set"
      <3>1. /\ Normal(d)[i] = SortedOf(ToSet(d[i]))
            /\ Normal(e)[i] = SortedOf(ToSet(e[i]))
        BY <2>1, <2>2 DEF Normal, IsVector
      <3>2. d[i] \in Seq(Word) /\ e[i] \in Seq(Word)
        BY <2>1, <2>2 DEF IsEntity, Values
      <3>3. ToSet(Normal(d)[i]) = ToSet(d[i]) /\ ToSet(Normal(e)[i]) = ToSet(e[i])
        BY <3>1, <3>2, SortedOfIs
      <3>4. M(d, i) = ToSet(d[i]) /\ M(e, i) = ToSet(e[i])
        BY <2>2
      <3>5. \A v : Canonical("set", v) <=> \A w \in ToSet(v) : Number(w) < Modulus
        BY DEF Canonical, CanonicalSet
      <3> HIDE DEF M
      <3> QED
        BY <2>2, <3>1, <3>3, <3>4, <3>5
    <2>3. CASE EntityFields[i].type # "set"
      <3>1. Normal(d)[i] = d[i] /\ Normal(e)[i] = e[i]
        BY <2>1, <2>3 DEF Normal, IsVector
      <3> QED
        BY <2>3, <3>1
    <2> QED
      BY <2>2, <2>3
  <1> HIDE DEF M
  <1>4. /\ IsCanonical(d) <=> \A i \in Committed : Canonical(EntityFields[i].type, d[i])
        /\ IsCanonical(e) <=> \A i \in Committed : Canonical(EntityFields[i].type, e[i])
    BY CanonicalIs
  <1> QED
    BY <1>2, <1>3, <1>4

\* The values that are hashed are values of the struct.
LEMMA EntitiesAre == \A e \in Entities : IsEntity(e)
  BY EntityAssumption DEF IsEntity

\* Entities that were normalised hash alike exactly if they mean the same.
LEMMA NormalHashesBind ==
  ASSUME NEW d \in Entities, IsCanonical(d), NEW e \in Entities
  PROVE  HashOf[e] = HashOf[d] <=> Meaning(e) = Meaning(d)
  <1>1. IsEntity(d) /\ IsEntity(e)
    BY EntitiesAre
  <1>2. \A x \in Entities :
          HashOf[x] = Then(Normalise(EntityFields, x), LAMBDA n : EntityHash(EntityFields, n))
    BY DEF HashOf
  <1>3. HashOf[d] = EntityHash(EntityFields, Normal(d)) /\ HashOf[d].ok
    BY <1>1, <1>2, HashOfIs
  <1>4. HashOf[e] = IF IsCanonical(e) THEN EntityHash(EntityFields, Normal(e)) ELSE Err
    BY <1>1, <1>2, HashOfIs
  <1>5. CASE IsCanonical(e)
    <2>1. /\ IsEntity(Normal(d)) /\ CanEncode(Normal(d), Committed)
          /\ IsEntity(Normal(e)) /\ CanEncode(Normal(e), Committed)
      BY <1>1, <1>5, NormalIs
    <2>2. EntityHash(EntityFields, Normal(e)) = EntityHash(EntityFields, Normal(d))
            <=> \A i \in Committed : Normal(e)[i] = Normal(d)[i]
      BY <2>1, HashTells
    <2> QED
      BY <1>1, <1>3, <1>4, <1>5, <2>2, MeaningIs
  <1>6. CASE ~IsCanonical(e)
    <2>1. HashOf[e] # HashOf[d]
      BY <1>3, <1>4, <1>6 DEF Err
    <2>2. Meaning(e) # Meaning(d)
      BY <1>1, <1>6, MeaningIs
    <2> QED
      BY <2>1, <2>2
  <1> QED
    BY <1>5, <1>6

\* An entity that can be hashed as it is was normal already.
LEMMA HashedAsItIs ==
  ASSUME NEW d \in Entities, EntityHash(EntityFields, d).ok
  PROVE  IsCanonical(d) /\ EntityHash(EntityFields, d) = HashOf[d]
  <1>1. IsEntity(d)
    BY EntitiesAre
  <1>2. CanEncode(d, Committed)
    BY <1>1, HashIs
  <1>3. IsCanonical(d) /\ \A i \in Committed : Normal(d)[i] = d[i]
    BY <1>1, <1>2, NormalIs
  <1>4. IsEntity(Normal(d)) /\ CanEncode(Normal(d), Committed)
    BY <1>1, <1>3, NormalIs
  <1>5. EntityHash(EntityFields, Normal(d)) = EntityHash(EntityFields, d)
    BY <1>1, <1>2, <1>3, <1>4, HashTells
  <1>6. HashOf[d] = Then(Normalise(EntityFields, d), LAMBDA n : EntityHash(EntityFields, n))
    BY DEF HashOf
  <1>7. HashOf[d] = EntityHash(EntityFields, Normal(d))
    BY <1>1, <1>3, <1>6, HashOfIs
  <1> QED
    BY <1>3, <1>5, <1>7

\* Two entities of any struct hash alike exactly if they mean the same, and one
\* that was normalised hashes whenever its words are canonical (codec.rs
\* SortedSet, sort_set; entity.rs).
THEOREM HashesBind == Spec => []HashBinds
  <1>1. Init => HashBinds
    BY DEF Init, HashBinds
  <1>2. ASSUME HashBinds, [Next]_vars
        PROVE  HashBinds'
    <2>1. ASSUME NEW d \in Entities, NEW sorts \in BOOLEAN, HashEntity(d, sorts)
          PROVE  HashBinds'
      <3>1. /\ item'.entity = d /\ item'.sorts = sorts
            /\ item'.hash = Then(IF sorts THEN Normalise(EntityFields, d) ELSE Ok(d),
                                 LAMBDA e : EntityHash(EntityFields, e))
        BY <2>1 DEF HashEntity
      <3>2. HashOf[d] = Then(Normalise(EntityFields, d), LAMBDA n : EntityHash(EntityFields, n))
        BY DEF HashOf
      <3>3. sorts => item'.hash = HashOf[d]
        BY <3>1, <3>2
      <3>4. ~sorts => item'.hash = EntityHash(EntityFields, d)
        BY <3>1 DEF Then, Ok
      <3>5. HashOf[d].ok <=> IsCanonical(d)
        BY <3>2, EntitiesAre, HashOfIs
      <3>6. sorts => (item'.hash.ok <=> IsCanonical(d))
        BY <3>3, <3>5
      <3>7. item'.hash.ok => IsCanonical(d) /\ item'.hash = HashOf[d]
        BY <3>3, <3>4, <3>5, HashedAsItIs
      <3>8. ASSUME item'.hash.ok, NEW e \in Entities
            PROVE  HashOf[e] = item'.hash <=> Meaning(e) = Meaning(d)
        BY <3>7, <3>8, NormalHashesBind
      <3> QED
        BY <3>1, <3>6, <3>8 DEF HashBinds
    <2>2. ASSUME NEW fields \in Variants, NEW order \in Reorders, HashReordered(fields, order)
          PROVE  HashBinds'
      BY <2>2 DEF HashReordered, HashBinds
    <2>3. ASSUME NEW sk \in Scalars, NEW digests \in [0..Tries-1 -> Digests],
                 NEW challenge \in [XCoords -> Digests], Sign(sk, digests, challenge)
          PROVE  HashBinds'
      BY <2>3 DEF Sign, HashBinds
    <2>4. CASE ~Produce /\ ~UNCHANGED vars
      BY <1>2, <2>4, OtherSteps DEF HashBinds
    <2>5. CASE UNCHANGED vars
      BY <1>2, <2>5 DEF vars, HashBinds
    <2> QED
      BY <1>2, <2>1, <2>2, <2>3, <2>4, <2>5 DEF Produce
  <1> QED
    BY <1>1, <1>2, PTL DEF Spec

-----------------------------------------------------------------------------
(***************************************************************************)
(* Numbers as bytes.                                                       *)
(***************************************************************************)

\* A place more is Base times as much.
LEMMA PowerMore ==
  /\ Power(0) = 1
  /\ \A n \in Nat : Power(n) \in Nat /\ Power(n) > 0 /\ Power(n + 1) = Base * Power(n)
  <1> DEFINE power(n) == CHOOSE p : p = [i \in 0..n |-> IF i = 0 THEN 1 ELSE Base * p[i - 1]]
  <1>1. ASSUME NEW m \in Nat, NEW n \in 0..m, NEW p, IsPower(p, m), NEW q, IsPower(q, n)
        PROVE  p[n] = q[n]
    <2> DEFINE S == {k \in Nat : p[k] = q[k]}
    <2>1. 0 \in S
      BY <1>1 DEF IsPower
    <2>2. ASSUME NEW k \in 0..n-1, k \in S PROVE k + 1 \in S
      <3>1. k + 1 \in 0..m /\ k + 1 \in 0..n /\ k + 1 # 0 /\ (k + 1) - 1 = k
        OBVIOUS
      <3>2. p[k + 1] = Base * p[k] /\ q[k + 1] = Base * q[k]
        BY <1>1, <3>1 DEF IsPower
      <3> QED
        BY <2>2, <3>2
    <2>3. \A k \in 0..n : k \in S
      <3> HIDE DEF S
      <3> QED
        BY <2>1, <2>2, InductTo
    <2> QED
      BY <2>3
  <1>2. Power(0) = 1
    <2>1. PICK p \in [0..0 -> Nat] : IsPower(p, 0) /\ Power(0) = p[0]
      BY PowerIs
    <2> QED
      BY <2>1 DEF IsPower
  <1>3. ASSUME NEW n \in Nat
        PROVE  Power(n) \in Nat /\ Power(n) > 0 /\ Power(n + 1) = Base * Power(n)
    <2>1. PICK p \in [0..n+1 -> Nat] : IsPower(p, n + 1) /\ Power(n + 1) = p[n + 1]
      <3>1. n + 1 \in Nat
        OBVIOUS
      <3> QED
        BY <3>1, PowerIs
    <2>2. PICK q \in [0..n -> Nat] : IsPower(q, n) /\ Power(n) = q[n] /\ \A i \in 0..n : q[i] > 0
      BY PowerIs
    <2>3. p[n] = q[n]
      <3>1. n + 1 \in Nat /\ n \in 0..n+1
        OBVIOUS
      <3> QED
        BY <1>1, <2>1, <2>2, <3>1
    <2>4. p[n + 1] = Base * p[n]
      <3>1. n + 1 \in 0..n+1 /\ n + 1 # 0 /\ (n + 1) - 1 = n
        OBVIOUS
      <3> QED
        BY <2>1, <3>1 DEF IsPower
    <2> QED
      BY <2>1, <2>2, <2>3, <2>4
  <1> QED
    BY <1>2, <1>3

\* More places are no less.
LEMMA PowerGrows ==
  ASSUME NEW a \in Nat, NEW b \in Nat, a <= b
  PROVE  Power(a) <= Power(b)
  <1> DEFINE S == {k \in Nat : Power(a) <= Power(a + k)}
  <1>1. 0 \in S
    BY PowerMore
  <1>2. ASSUME NEW k \in Nat, k \in S PROVE k + 1 \in S
    <2> DEFINE x == Power(a + k)
    <2>1. x \in Nat /\ Power((a + k) + 1) = Base * x /\ Power(a) <= x /\ Power(a) \in Nat
      <3>1. a + k \in Nat
        OBVIOUS
      <3> QED
        BY <1>2, <3>1, PowerMore
    <2> HIDE DEF x
    <2>2. Base * x >= x
      <3>1. Base * x = (Base - 1) * x + x /\ (Base - 1) * x >= 0
        BY <2>1, Widths
      <3> QED
        BY <2>1, <3>1, Widths
    <2>3. (a + k) + 1 = a + (k + 1)
      OBVIOUS
    <2> QED
      BY <2>1, <2>2, <2>3, Widths
  <1>3. \A k \in Nat : k \in S
    <2> HIDE DEF S
    <2> QED
      BY <1>1, <1>2, Induct
  <1>4. b - a \in Nat /\ a + (b - a) = b
    OBVIOUS
  <1>5. b - a \in S
    <2> HIDE DEF S
    <2> QED
      BY <1>3, <1>4
  <1> QED
    BY <1>4, <1>5

\* Dividing by a product is dividing twice.
LEMMA DivDiv ==
  ASSUME NEW x \in Nat, NEW n \in Nat, n > 0, NEW m \in Nat, m > 0
  PROVE  /\ m * n \in Nat /\ m * n > 0
         /\ (x \div n) \div m = x \div (m * n)
  <1> DEFINE q == x \div n
             r == x % n
             p == q \div m
             t == q % m
  <1>1. q \in Int /\ r \in 0..n-1 /\ x = q * n + r
    BY DivMod
  <1> HIDE DEF q, r
  <1>2. p \in Int /\ t \in 0..m-1 /\ q = p * m + t
    BY <1>1, DivMod
  <1> HIDE DEF p, t
  <1>3. m * n \in Nat /\ m * n > 0
    OBVIOUS
  <1>4. x = p * (m * n) + (t * n + r)
    <2>1. q * n = (p * m) * n + t * n
      BY <1>1, <1>2
    <2>2. (p * m) * n = p * (m * n)
      BY <1>2
    <2>3. t * n \in Nat /\ r \in Nat /\ p * (m * n) \in Int
      BY <1>1, <1>2
    <2> QED
      BY <1>1, <2>1, <2>2, <2>3
  <1>5. t * n + r \in 0..(m*n)-1
    <2>1. t * n >= 0 /\ t * n \in Int
      BY <1>2
    <2>2. m * n = t * n + (m - t) * n
      BY <1>2
    <2>3. (m - t) * n = (m - t - 1) * n + n /\ (m - t - 1) * n >= 0
      BY <1>2
    <2> QED
      BY <1>1, <1>2, <2>1, <2>2, <2>3
  <1>6. x \div (m * n) = p
    <2> DEFINE mn == m * n
               rest == t * n + r
    <2>1. mn \in Nat /\ mn > 0 /\ x = p * mn + rest /\ rest \in 0..mn-1
      BY <1>3, <1>4, <1>5
    <2> HIDE DEF mn, rest
    <2>2. x \div mn = p
      BY <1>2, <2>1, DivModIs
    <2> QED
      BY <2>2 DEF mn
  <1> QED
    BY <1>3, <1>6 DEF p, q

\* What is smaller than its divisor leaves nothing.
LEMMA DivSmall ==
  ASSUME NEW n \in Nat, NEW x \in 0..n-1
  PROVE  x \div n = 0 /\ x % n = x
  <1>1. n > 0 /\ x = 0 * n + x /\ x \in Int /\ 0 \in Int
    OBVIOUS
  <1> QED
    BY <1>1, DivModIs

\* A number that fits a width is the number of its bytes (codec.rs to_array).
LEMMA BytesOfIs ==
  ASSUME NEW w \in Nat, NEW n \in Nat, n < Power(w)
  PROVE  BytesOf(n, w) \in [1..w -> Bytes] /\ Number(BytesOf(n, w)) = n
  <1> DEFINE b == BytesOf(n, w)
             Q(i) == n \div Power(w - i)
  <1>1. \A i \in 0..w : w - i \in Nat /\ Power(w - i) \in Nat /\ Power(w - i) > 0 /\ Q(i) \in Int
    <2>1. ASSUME NEW i \in 0..w
          PROVE  w - i \in Nat /\ Power(w - i) \in Nat /\ Power(w - i) > 0 /\ Q(i) \in Int
      <3>1. w - i \in Nat
        OBVIOUS
      <3>2. Power(w - i) \in Nat /\ Power(w - i) > 0
        BY <3>1, PowerMore
      <3> QED
        BY <3>1, <3>2, DivMod
    <2> QED
      BY <2>1
  <1>2. \A i \in 1..w : b[i] = Q(i) % Base /\ b[i] \in Bytes
    <2>1. ASSUME NEW i \in 1..w PROVE b[i] = Q(i) % Base /\ b[i] \in Bytes
      <3>1. b[i] = Q(i) % Base
        BY DEF BytesOf
      <3>2. Q(i) \in Int
        BY <1>1
      <3> HIDE DEF Q, b
      <3>3. Q(i) % Base \in 0..Base-1
        BY <3>2, Widths, DivMod
      <3> QED
        BY <3>1, <3>3 DEF Bytes
    <2> QED
      BY <2>1
  <1>3. b \in [1..w -> Bytes]
    <2>1. b = [i \in 1..w |-> b[i]]
      BY DEF BytesOf
    <2> QED
      BY <1>2, <2>1
  <1>4. PICK g \in [0..w -> Nat] : IsNumber(g, b, w) /\ Number(b) = g[w]
    BY <1>3, NumberIs
  <1> DEFINE S == {k \in Nat : g[k] = Q(k)}
  <1>5. 0 \in S
    <2>1. g[0] = 0
      BY <1>4 DEF IsNumber
    <2>2. w - 0 = w /\ Power(w) \in Nat
      BY PowerMore
    <2>3. Q(0) = 0
      BY <2>2, DivSmall
    <2> QED
      BY <2>1, <2>3
  <1>6. ASSUME NEW k \in 0..w-1, k \in S PROVE k + 1 \in S
    <2>1. k + 1 \in 0..w /\ k + 1 \in 1..w /\ k + 1 # 0 /\ (k + 1) - 1 = k /\ w - k = (w - (k + 1)) + 1
      OBVIOUS
    <2>2. g[k + 1] = g[k] * Base + b[k + 1]
      BY <1>4, <2>1 DEF IsNumber
    <2> DEFINE P == Power(w - (k + 1))
    <2>3. P \in Nat /\ P > 0 /\ Power(w - k) = Base * P
      BY <1>1, <2>1, PowerMore
    <2>4. Q(k + 1) \div Base = Q(k)
      <3> HIDE DEF P
      <3>1. (n \div P) \div Base = n \div (Base * P)
        BY <2>3, Widths, DivDiv
      <3> QED
        BY <2>3, <3>1 DEF P
    <2>5. b[k + 1] = Q(k + 1) % Base /\ Q(k + 1) \in Int
      BY <1>1, <1>2, <2>1
    <2> HIDE DEF Q, b
    <2>6. Q(k + 1) = (Q(k + 1) \div Base) * Base + (Q(k + 1) % Base)
      <3> DEFINE q == Q(k + 1)
      <3>1. q \in Int
        BY <2>5
      <3> HIDE DEF q
      <3>2. q = (q \div Base) * Base + (q % Base)
        BY <3>1, Widths, DivMod
      <3> QED
        BY <3>2 DEF q
    <2>7. g[k] = Q(k)
      BY <1>6
    <2> QED
      BY <2>2, <2>4, <2>5, <2>6, <2>7
  <1>7. \A k \in 0..w : k \in S
    <2> HIDE DEF S
    <2> QED
      BY <1>5, <1>6, InductTo
  <1>8. Q(w) = n
    <2>1. w - w = 0 /\ Power(0) = 1
      BY PowerMore
    <2>2. n = n * 1 + 0 /\ 0 \in 0..1-1 /\ n \in Int
      OBVIOUS
    <2>3. n \div 1 = n
      BY <2>2, DivModIs
    <2> QED
      BY <2>1, <2>3
  <1> HIDE DEF Q
  <1>9. g[w] = n
    BY <1>7, <1>8
  <1> QED
    BY <1>3, <1>4, <1>9

\* Bytes are the bytes of their number.
LEMMA BytesOfNumber ==
  ASSUME NEW w \in Nat, NEW b \in [1..w -> Bytes]
  PROVE  /\ Number(b) \in Nat /\ Number(b) < Power(w)
         /\ BytesOf(Number(b), w) = b
  <1>1. Number(b) \in Nat /\ Number(b) < Power(w)
    BY NumberBound
  <1>2. /\ BytesOf(Number(b), w) \in [1..w -> Bytes]
        /\ Number(BytesOf(Number(b), w)) = Number(b)
    BY <1>1, BytesOfIs
  <1> QED
    BY <1>1, <1>2, NumberBinds

\* A number fits a shorter width exactly if the bytes before it are zero (read
\* as ReadPadded and the decoder of addresses do).
LEMMA TopZero ==
  ASSUME NEW w \in Nat, NEW a \in 0..w, NEW b \in [1..w -> Bytes]
  PROVE  SubSeq(b, 1, w - a) = Zeros(w - a) <=> Number(b) < Power(a)
  <1>1. w - a \in 0..w /\ a \in Nat
    OBVIOUS
  <1>2. SubSeq(b, 1, w - a) = [i \in 1..w-a |-> b[i]]
    <2>1. b \in Seq(Bytes) /\ Len(b) = w
      OBVIOUS
    <2> QED
      BY <1>1, <2>1
  <1>3. SubSeq(b, 1, w - a) = Zeros(w - a) <=> \A i \in 1..w-a : b[i] = 0
    <2> DEFINE u == SubSeq(b, 1, w - a)
               z == Zeros(w - a)
    <2>1. u = [i \in 1..w-a |-> b[i]] /\ z = [i \in 1..w-a |-> 0]
      BY <1>2 DEF Zeros
    <2>2. ASSUME u = z, NEW i \in 1..w-a PROVE b[i] = 0
      <3>1. u[i] = b[i] /\ z[i] = 0
        BY <2>1
      <3> QED
        BY <2>2, <3>1
    <2>3. (\A i \in 1..w-a : b[i] = 0) => u = z
      BY <2>1
    <2> QED
      BY <2>2, <2>3
  <1>4. PICK g \in [0..w -> Nat] : IsNumber(g, b, w) /\ Number(b) = g[w]
    BY NumberIs
  <1>5. ASSUME \A i \in 1..w-a : b[i] = 0 PROVE Number(b) < Power(a)
    <2> DEFINE S == {k \in Nat : g[k] = 0}
               T == {k \in Nat : g[(w - a) + k] < Power(k)}
    <2>1. 0 \in S
      BY <1>4 DEF IsNumber
    <2>2. ASSUME NEW k \in 0..(w-a)-1, k \in S PROVE k + 1 \in S
      <3>1. k + 1 \in 0..w /\ k + 1 \in 1..w-a /\ k + 1 # 0 /\ (k + 1) - 1 = k
        OBVIOUS
      <3>2. g[k + 1] = g[k] * Base + b[k + 1]
        BY <1>4, <3>1 DEF IsNumber
      <3> QED
        BY <1>5, <2>2, <3>1, <3>2, Widths
    <2>3. \A k \in 0..w-a : k \in S
      <3> DEFINE d == w - a
      <3>1. d \in Nat /\ \A k \in 0..d-1 : k \in S => k + 1 \in S
        BY <1>1, <2>2
      <3> HIDE DEF S, d
      <3>2. \A k \in 0..d : k \in S
        BY <3>1, <2>1, InductTo
      <3> QED
        BY <3>2 DEF d
    <2>4. 0 \in T
      <3>1. g[w - a] = 0
        BY <1>1, <2>3
      <3> QED
        BY <3>1, PowerMore
    <2>5. ASSUME NEW k \in 0..a-1, k \in T PROVE k + 1 \in T
      <3> DEFINE i == (w - a) + k
      <3>1. i + 1 \in 0..w /\ i + 1 \in 1..w /\ i \in 0..w /\ i + 1 # 0 /\ (i + 1) - 1 = i
            /\ i + 1 = (w - a) + (k + 1)
        OBVIOUS
      <3>2. g[i] < Power(k)
        BY <2>5
      <3> HIDE DEF i
      <3>3. g[i + 1] = g[i] * Base + b[i + 1]
        BY <1>4, <3>1 DEF IsNumber
      <3>4. g[i] \in Nat /\ b[i + 1] \in Bytes
        BY <3>1, <1>4
      <3>5. k \in Nat /\ Power(k) \in Nat /\ Power(k + 1) = Base * Power(k)
        <4>1. k \in Nat
          OBVIOUS
        <4> QED
          BY <4>1, PowerMore
      <3>6. g[i] * Base + b[i + 1] < Base * Power(k)
        BY <3>2, <3>4, <3>5, Carries
      <3>7. g[(w - a) + (k + 1)] < Power(k + 1)
        BY <3>1, <3>3, <3>5, <3>6
      <3> QED
        BY <3>5, <3>7
    <2>6. \A k \in 0..a : k \in T
      <3> HIDE DEF T
      <3> QED
        BY <1>1, <2>4, <2>5, InductTo
    <2>7. a \in 0..a /\ (w - a) + a = w
      OBVIOUS
    <2> QED
      BY <1>4, <2>6, <2>7
  <1>6. ASSUME Number(b) < Power(a), NEW i \in 1..w-a PROVE b[i] = 0
    <2>1. Number(b) \in Nat /\ BytesOf(Number(b), w) = b
      BY BytesOfNumber
    <2>2. i \in 1..w /\ w - i \in Nat /\ a <= w - i
      OBVIOUS
    <2> DEFINE n == Number(b)
               P == Power(w - i)
    <2>3. b[i] = (n \div P) % Base
      <3>1. b = [k \in 1..w |-> (n \div Power(w - k)) % Base]
        BY <2>1 DEF BytesOf
      <3> QED
        BY <2>2, <3>1
    <2>4. P \in Nat /\ n < P
      <3>1. P \in Nat /\ Power(a) \in Nat /\ Power(a) <= P
        BY <1>1, <2>2, PowerGrows, PowerMore
      <3> HIDE DEF P
      <3> QED
        BY <1>6, <2>1, <3>1
    <2> HIDE DEF n, P
    <2>5. n \div P = 0
      BY <2>1, <2>4, DivSmall DEF n
    <2>6. 0 % Base = 0
      BY Widths, DivSmall
    <2> QED
      BY <2>3, <2>5, <2>6
  <1> QED
    BY <1>3, <1>5, <1>6

-----------------------------------------------------------------------------
(***************************************************************************)
(* Words and field elements.                                               *)
(***************************************************************************)

\* What a result is.
LEMMA ResultIs ==
  /\ \A v : Ok(v).ok = TRUE /\ Ok(v).value = v
  /\ Err.ok = FALSE
  /\ \A u, v : Ok(u) = Ok(v) => u = v
  <1>1. (\A v : Ok(v).ok = TRUE /\ Ok(v).value = v) /\ Err.ok = FALSE
    BY DEF Ok, Err
  <1>2. ASSUME NEW u, NEW v, Ok(u) = Ok(v) PROVE u = v
    <2>1. Ok(u).value = u /\ Ok(v).value = v
      BY <1>1
    <2> QED
      BY <1>2, <2>1
  <1> QED
    BY <1>1, <1>2

\* A field element has a word, and the word is read back as the element.
LEMMA FieldWord ==
  ASSUME NEW f \in Fields
  PROVE  /\ f \in Nat /\ f < Modulus /\ f < Power(WordBytes)
         /\ FieldToBytes(f) \in Word /\ Number(FieldToBytes(f)) = f
         /\ FieldFromBytes(FieldToBytes(f)) = f
         /\ IsCanonicalFieldWord(FieldToBytes(f))
         /\ FieldToArray(f, WordBytes) = Ok(FieldToBytes(f))
  <1>1. f \in Nat /\ f < Modulus /\ f < Power(WordBytes) /\ WordBytes \in Nat
    <2>1. Power(WordBytes) \in Nat /\ Modulus < Power(WordBytes)
      BY CodecAssumption, Widths, PowerMore
    <2> QED
      BY <2>1, Widths DEF Fields
  <1>2. FieldToBytes(f) \in Word /\ Number(FieldToBytes(f)) = f
    BY <1>1, BytesOfIs DEF FieldToBytes, Word
  <1>3. FieldFromBytes(FieldToBytes(f)) = f
    <2>1. f \in 0..Modulus-1 /\ Modulus \in Nat
      BY Widths DEF Fields
    <2>2. f % Modulus = f
      BY <2>1, DivSmall
    <2> QED
      BY <1>2, <2>2 DEF FieldFromBytes
  <1>4. IsCanonicalFieldWord(FieldToBytes(f))
    BY <1>3 DEF IsCanonicalFieldWord
  <1>5. FieldToArray(f, WordBytes) = Ok(FieldToBytes(f))
    BY <1>1 DEF FieldToArray, FieldToBytes
  <1> QED
    BY <1>1, <1>2, <1>3, <1>4, <1>5

\* The canonical words are those of field elements (is_canonical_field_word).
LEMMA CanonicalWord ==
  ASSUME NEW w \in Word
  PROVE  /\ FieldFromBytes(w) \in Fields
         /\ IsCanonicalFieldWord(w) <=> Number(w) < Modulus
         /\ IsCanonicalFieldWord(w) =>
              FieldToBytes(FieldFromBytes(w)) = w /\ FieldFromBytes(w) = Number(w)
         /\ FieldFromBytesCanonical(w) = IF IsCanonicalFieldWord(w) THEN Ok(Number(w)) ELSE Err
  <1>1. Number(w) \in Nat /\ BytesOf(Number(w), WordBytes) = w
    BY Widths, BytesOfNumber DEF Word
  <1>2. FieldFromBytes(w) \in Fields
    BY <1>1, Widths, DivMod DEF FieldFromBytes, Fields
  <1>3. ASSUME Number(w) < Modulus
        PROVE  FieldFromBytes(w) = Number(w) /\ IsCanonicalFieldWord(w)
    <2>1. Number(w) \in 0..Modulus-1 /\ Modulus \in Nat
      BY <1>1, <1>3, Widths
    <2>2. FieldFromBytes(w) = Number(w)
      BY <2>1, DivSmall DEF FieldFromBytes
    <2> QED
      BY <1>1, <2>2 DEF IsCanonicalFieldWord, FieldToBytes
  <1>4. ASSUME IsCanonicalFieldWord(w) PROVE Number(w) < Modulus
    <2>1. Number(w) = FieldFromBytes(w)
      BY <1>2, <1>4, FieldWord DEF IsCanonicalFieldWord
    <2> QED
      BY <1>2, <2>1, FieldWord
  <1> QED
    BY <1>2, <1>3, <1>4 DEF IsCanonicalFieldWord, FieldFromBytesCanonical

\* An integer is read from a field element if it fits (codec.rs uint_from_field).
LEMMA UintIs ==
  ASSUME NEW n \in Nat, NEW w \in Nat
  PROVE  UintFromField(n, w) = IF n < Power(w) THEN Ok(n) ELSE Err
  <1>1. CASE n < Power(w)
    <2>1. Number(BytesOf(n, w)) = n
      BY <1>1, BytesOfIs
    <2>2. FieldToArray(n, w) = Ok(BytesOf(n, w))
      BY <1>1 DEF FieldToArray
    <2>3. UintFromField(n, w) = Ok(Number(BytesOf(n, w)))
      BY <2>2, ResultIs DEF UintFromField, Then
    <2> QED
      BY <1>1, <2>1, <2>3
  <1>2. CASE ~(n < Power(w))
    <2>1. FieldToArray(n, w) = Err
      BY <1>2 DEF FieldToArray
    <2> QED
      BY <1>2, <2>1, ResultIs DEF UintFromField, Then
  <1> QED
    BY <1>1, <1>2

\* The limbs of a word fit a u128 each, and give the word back (FieldEncode and
\* FieldDecode of U256).
LEMMA LimbsBack ==
  ASSUME NEW w \in Word
  PROVE  Limbs(w) \in [1..3 -> 0..Power(Half)-1] /\ FromLimbs(Limbs(w)) = Ok(w)
  <1> DEFINE top == Radix \div Spill
             hi == Number(High(w))
             lo == Number(Low(w))
             l1 == lo % Radix
             m1 == lo \div Radix
             m2 == hi % top
             l2 == m1 + m2 * Spill
             l3 == hi \div top
  <1>1. /\ Half \in Nat /\ Radix \in Nat /\ Radix > 0 /\ Power(Half) = Radix * Spill
        /\ top \in Nat /\ top > 0 /\ Radix = top * Spill /\ Spill \in Nat /\ Spill > 1
        /\ WordBytes = Half + Half
    BY HalfIs, Widths
  <1>2. High(w) \in [1..Half -> Bytes] /\ Low(w) \in [1..Half -> Bytes]
    BY HalvesBind
  <1>3. hi \in Nat /\ lo \in Nat /\ hi < Radix * Spill /\ lo < Radix * Spill
    BY <1>1, <1>2, NumberBound
  <1>4. Limbs(w) = <<l1, l2, l3>>
    BY DEF Limbs, High, Low
  <1> HIDE DEF top, hi, lo
  <1>5. l1 \in 0..Radix-1 /\ m1 \in 0..Spill-1 /\ lo = m1 * Radix + l1
    BY <1>1, <1>3, DivMod, DivBound
  <1>6. m2 \in 0..top-1 /\ hi = l3 * top + m2 /\ l3 \in 0..Spill*Spill-1
    <2>1. hi < top * (Spill * Spill) /\ Spill * Spill \in Nat
      <3>1. Radix * Spill = top * (Spill * Spill) /\ Spill * Spill \in Nat
        BY <1>1
      <3> QED
        BY <1>3, <3>1
    <2> DEFINE ss == Spill * Spill
    <2>2. ss \in Nat /\ hi < top * ss
      BY <2>1
    <2> HIDE DEF ss
    <2>3. l3 \in 0..ss-1
      BY <1>1, <1>3, <2>2, DivBound
    <2>4. m2 \in 0..top-1 /\ hi = l3 * top + m2
      BY <1>1, <1>3, DivMod
    <2> QED
      BY <2>3, <2>4 DEF ss
  <1> HIDE DEF l1, m1, m2, l3
  <1>7. l2 \in 0..Radix-1 /\ l2 % Spill = m1 /\ l2 \div Spill = m2
    <2>1. m2 * Spill \in Nat /\ m2 \in Int /\ m1 \in 0..Spill-1
      BY <1>1, <1>5, <1>6
    <2>2. l2 \in Int /\ l2 = m2 * Spill + m1 /\ l2 >= 0
      BY <2>1
    <2>3. l2 < Radix
      <3>1. top * Spill = m2 * Spill + (top - m2) * Spill
        BY <1>1, <1>6
      <3>2. (top - m2) * Spill = (top - m2 - 1) * Spill + Spill /\ (top - m2 - 1) * Spill >= 0
        BY <1>1, <1>6
      <3> QED
        BY <1>1, <2>1, <2>2, <3>1, <3>2
    <2> HIDE DEF l2
    <2>4. l2 % Spill = m1 /\ l2 \div Spill = m2
      BY <1>1, <2>1, <2>2, DivModIs
    <2> QED
      BY <1>1, <2>2, <2>3, <2>4
  <1> HIDE DEF l2
  <1>8. l1 < Power(Half) /\ l2 < Power(Half) /\ l3 < Power(Half)
    <2>1. Radix <= Radix * Spill
      <3>1. Radix * Spill = Radix * (Spill - 1) + Radix /\ Radix * (Spill - 1) >= 0
        BY <1>1
      <3> QED
        BY <1>1, <3>1
    <2>2. Spill * Spill <= Radix * Spill
      <3>1. (top * Spill) * Spill = ((top - 1) * (Spill * Spill)) + Spill * Spill
        BY <1>1
      <3>2. (top - 1) * (Spill * Spill) >= 0
        BY <1>1
      <3> QED
        BY <1>1, <3>1, <3>2
    <2>3. Spill * Spill \in Nat /\ Radix * Spill \in Nat
      BY <1>1
    <2> QED
      BY <1>1, <1>5, <1>6, <1>7, <2>1, <2>2, <2>3
  <1>9. Limbs(w) \in [1..3 -> 0..Power(Half)-1]
    <2>1. l1 \in 0..Power(Half)-1 /\ l2 \in 0..Power(Half)-1 /\ l3 \in 0..Power(Half)-1
      <3>1. Power(Half) \in Nat /\ Spill * Spill \in Nat
        BY <1>1, PowerMore
      <3> QED
        BY <1>1, <1>5, <1>6, <1>7, <1>8, <3>1
    <2>2. \A S : \A a, b, c \in S : <<a, b, c>> \in [1..3 -> S]
      OBVIOUS
    <2> QED
      BY <1>4, <2>1, <2>2
  <1>10. FromLimbs(Limbs(w)) = Ok(BytesOf(hi, Half) \o BytesOf(lo, Half))
    <2>1. Limbs(w)[1] = l1 /\ Limbs(w)[2] = l2 /\ Limbs(w)[3] = l3
      BY <1>4
    <2>2. Spill * Spill \in Nat /\ m1 * Radix \in Int
      BY <1>1, <1>5
    <2>3. ~(l1 >= Radix \/ l2 >= Radix \/ l3 >= Spill * Spill)
      BY <1>1, <1>5, <1>6, <1>7, <2>2
    <2>4. l1 + (l2 % Spill) * Radix = lo
      BY <1>1, <1>5, <1>7, <2>2
    <2>5. l3 * (Radix \div Spill) + l2 \div Spill = hi
      <3>1. l3 * (Radix \div Spill) = l3 * top
        BY DEF top
      <3> QED
        BY <1>6, <1>7, <3>1
    <2> QED
      BY <2>1, <2>3, <2>4, <2>5 DEF FromLimbs
  <1>11. BytesOf(hi, Half) = High(w) /\ BytesOf(lo, Half) = Low(w)
    BY <1>1, <1>2, BytesOfNumber DEF hi, lo
  <1>12. High(w) \o Low(w) = w
    <2>1. w \in Seq(Bytes) /\ Len(w) = Half + Half
      BY <1>1 DEF Word
    <2> DEFINE n == WordBytes
    <2>2. SubSeq(w, 1, Half) \o SubSeq(w, Half + 1, Half + Half) = w
      BY <1>1, <2>1
    <2> QED
      BY <1>1, <2>2 DEF High, Low
  <1> QED
    BY <1>9, <1>10, <1>11, <1>12

\* Three field elements are read as a word if each fits a u128 and they are limbs
\* (FieldDecode of U256).
LEMMA U256Is ==
  ASSUME NEW c \in [1..3 -> Nat]
  PROVE  /\ FieldsToU256(c) = IF \A i \in 1..3 : c[i] < Power(Half) THEN FromLimbs(c) ELSE Err
         /\ FromLimbs(c).ok \in BOOLEAN
         /\ ~FromLimbs(c).ok => FromLimbs(c) = Err
  <1>1. Len(c) = 3 /\ Half \in Nat
    BY HalfIs
  <1> DEFINE r == [i \in 1..3 |-> UintFromField(c[i], Half)]
  <1>2. FieldsToU256(c) = Then(Collect(r), FromLimbs)
    BY <1>1 DEF FieldsToU256
  <1>3. \A i \in 1..3 : r[i] = IF c[i] < Power(Half) THEN Ok(c[i]) ELSE Err
    BY <1>1, UintIs
  <1>4. DOMAIN r = 1..3
    OBVIOUS
  <1> HIDE DEF r
  <1>5. CASE \A i \in 1..3 : c[i] < Power(Half)
    <2>1. \A i \in 1..3 : r[i].ok /\ r[i].value = c[i]
      BY <1>3, <1>5, ResultIs
    <2>2. [i \in 1..3 |-> r[i].value] = c
      BY <2>1
    <2>3. Collect(r) = Ok(c)
      BY <1>4, <2>1, <2>2 DEF Collect
    <2>4. FieldsToU256(c) = FromLimbs(c)
      BY <1>2, <2>3, ResultIs DEF Then
    <2> QED
      BY <1>5, <2>4, ResultIs DEF FromLimbs
  <1>6. CASE ~\A i \in 1..3 : c[i] < Power(Half)
    <2>1. \E i \in 1..3 : ~r[i].ok
      BY <1>3, <1>6, ResultIs
    <2>2. Collect(r) = Err
      BY <1>4, <2>1 DEF Collect
    <2>3. FieldsToU256(c) = Err
      BY <1>2, <2>2, ResultIs DEF Then
    <2> QED
      BY <1>6, <2>3, ResultIs DEF FromLimbs
  <1> QED
    BY <1>5, <1>6

-----------------------------------------------------------------------------
(***************************************************************************)
(* Parts of sequences.                                                     *)
(***************************************************************************)

\* A sequence of a length is a function on its places.
LEMMA SequenceIs ==
  ASSUME NEW X, NEW n \in Nat, NEW s
  PROVE  s \in [1..n -> X] <=> s \in Seq(X) /\ Len(s) = n
  OBVIOUS

\* Two sequences put together, over any set.
LEMMA Put ==
  ASSUME NEW X, NEW a \in Seq(X), NEW b \in Seq(X)
  PROVE  /\ a \o b \in Seq(X)
         /\ Len(a) \in Nat /\ Len(b) \in Nat /\ Len(a \o b) = Len(a) + Len(b)
         /\ \A j \in 1..Len(a) : (a \o b)[j] = a[j]
         /\ \A j \in 1..Len(b) : (a \o b)[Len(a) + j] = b[j]
  OBVIOUS

\* A part of a sequence.
LEMMA Cut ==
  ASSUME NEW X, NEW s \in Seq(X), NEW a \in Nat, NEW b \in Nat, a <= b, b <= Len(s)
  PROVE  /\ SubSeq(s, a + 1, b) \in Seq(X) /\ Len(SubSeq(s, a + 1, b)) = b - a
         /\ \A j \in 1..b-a : a + j \in 1..Len(s) /\ SubSeq(s, a + 1, b)[j] = s[a + j]
  OBVIOUS

\* Two parts that meet make one.
LEMMA CutPut ==
  ASSUME NEW X, NEW s \in Seq(X), NEW a \in Nat, NEW b \in Nat, NEW c \in Nat,
         a <= b, b <= c, c <= Len(s)
  PROVE  SubSeq(s, a + 1, b) \o SubSeq(s, b + 1, c) = SubSeq(s, a + 1, c)
  <1> DEFINE u == SubSeq(s, a + 1, b)
             v == SubSeq(s, b + 1, c)
             t == SubSeq(s, a + 1, c)
             uv == u \o v
  <1>1. b <= Len(s) /\ a <= c /\ Len(s) \in Nat
    OBVIOUS
  <1>2. u \in Seq(X) /\ Len(u) = b - a /\ \A j \in 1..b-a : u[j] = s[a + j]
    BY <1>1, Cut
  <1>3. v \in Seq(X) /\ Len(v) = c - b /\ \A j \in 1..c-b : v[j] = s[b + j]
    BY <1>1, Cut
  <1>4. t \in Seq(X) /\ Len(t) = c - a /\ \A j \in 1..c-a : t[j] = s[a + j]
    BY <1>1, Cut
  <1> HIDE DEF u, v, t
  <1>5. /\ uv \in Seq(X) /\ Len(uv) = Len(u) + Len(v)
        /\ \A j \in 1..Len(u) : uv[j] = u[j]
        /\ \A j \in 1..Len(v) : uv[Len(u) + j] = v[j]
    <2>1. u \in Seq(X) /\ v \in Seq(X)
      BY <1>2, <1>3
    <2> QED
      BY <2>1, Put
  <1> HIDE DEF uv
  <1>6. Len(uv) = Len(t)
    BY <1>2, <1>3, <1>4, <1>5
  <1>7. ASSUME NEW j \in 1..Len(uv) PROVE uv[j] = t[j]
    <2>1. CASE j <= b - a
      <3>1. j \in 1..b-a /\ j \in 1..c-a
        BY <1>2, <1>3, <1>5, <2>1
      <3> QED
        BY <1>2, <1>4, <1>5, <3>1
    <2>2. CASE ~(j <= b - a)
      <3> DEFINE k == j - (b - a)
      <3>1. k \in 1..c-b /\ (b - a) + k = j /\ j \in 1..c-a /\ b + k = a + j
        BY <1>2, <1>3, <1>5, <2>2
      <3> HIDE DEF k
      <3>2. uv[j] = v[k] /\ v[k] = s[b + k]
        BY <1>2, <1>3, <1>5, <3>1
      <3>3. t[j] = s[a + j]
        BY <1>4, <3>1
      <3> QED
        BY <3>1, <3>2, <3>3
    <2> QED
      BY <2>1, <2>2
  <1>8. uv = t
    BY <1>4, <1>5, <1>6, <1>7, SameSequence
  <1> QED
    BY <1>8 DEF uv, t, u, v

\* What is cut from the first of two sequences, and from the second.
LEMMA PutCut ==
  ASSUME NEW X, NEW s \in Seq(X), NEW t \in Seq(X)
  PROVE  /\ \A a, b \in Nat : a <= b /\ b <= Len(s) =>
              SubSeq(s \o t, a + 1, b) = SubSeq(s, a + 1, b)
         /\ \A a, b \in Nat : a <= b /\ b <= Len(t) =>
              SubSeq(s \o t, Len(s) + a + 1, Len(s) + b) = SubSeq(t, a + 1, b)
  <1> DEFINE st == s \o t
  <1>1. /\ st \in Seq(X) /\ Len(s) \in Nat /\ Len(t) \in Nat /\ Len(st) = Len(s) + Len(t)
        /\ \A j \in 1..Len(s) : st[j] = s[j]
        /\ \A j \in 1..Len(t) : st[Len(s) + j] = t[j]
    BY Put
  <1> HIDE DEF st
  <1>2. ASSUME NEW a \in Nat, NEW b \in Nat, a <= b, b <= Len(s)
        PROVE  SubSeq(st, a + 1, b) = SubSeq(s, a + 1, b)
    <2> DEFINE u == SubSeq(st, a + 1, b)
               v == SubSeq(s, a + 1, b)
    <2>0. st \in Seq(X) /\ b <= Len(st)
      BY <1>1, <1>2
    <2>1. u \in Seq(X) /\ Len(u) = b - a /\ \A j \in 1..b-a : u[j] = st[a + j]
      BY <2>0, <1>2, Cut
    <2>2. v \in Seq(X) /\ Len(v) = b - a /\ \A j \in 1..b-a : a + j \in 1..Len(s) /\ v[j] = s[a + j]
      BY <1>2, Cut
    <2> HIDE DEF u, v
    <2>3. \A j \in 1..Len(u) : u[j] = v[j]
      BY <1>1, <2>1, <2>2
    <2>4. u = v
      BY <2>1, <2>2, <2>3, SameSequence
    <2> QED
      BY <2>4 DEF u, v
  <1>3. ASSUME NEW a \in Nat, NEW b \in Nat, a <= b, b <= Len(t)
        PROVE  SubSeq(st, Len(s) + a + 1, Len(s) + b) = SubSeq(t, a + 1, b)
    <2> DEFINE c == Len(s) + a
               d == Len(s) + b
               u == SubSeq(st, c + 1, d)
               v == SubSeq(t, a + 1, b)
    <2>1. c \in Nat /\ d \in Nat /\ c <= d /\ d <= Len(st) /\ d - c = b - a
      BY <1>1, <1>3
    <2>2. v \in Seq(X) /\ Len(v) = b - a /\ \A j \in 1..b-a : a + j \in 1..Len(t) /\ v[j] = t[a + j]
      BY <1>3, Cut
    <2>3. \A j \in Int : c + j = Len(s) + (a + j)
      BY <1>1
    <2> HIDE DEF c, d, v
    <2>4. u \in Seq(X) /\ Len(u) = d - c /\ \A j \in 1..d-c : u[j] = st[c + j]
      BY <1>1, <2>1, Cut
    <2> HIDE DEF u
    <2>5. ASSUME NEW j \in 1..Len(u) PROVE u[j] = v[j]
      <3>1. j \in 1..b-a /\ j \in 1..d-c /\ j \in Int
        BY <1>3, <2>1, <2>4
      <3>2. u[j] = st[Len(s) + (a + j)]
        BY <2>3, <2>4, <3>1
      <3>3. a + j \in 1..Len(t) /\ v[j] = t[a + j]
        BY <2>2, <3>1
      <3> QED
        BY <1>1, <3>2, <3>3
    <2>6. u = v
      BY <2>1, <2>2, <2>4, <2>5, SameSequence
    <2> QED
      BY <2>6 DEF u, v, c, d
  <1> QED
    BY <1>2, <1>3 DEF st

\* All of a sequence.
LEMMA CutAll ==
  ASSUME NEW X, NEW s \in Seq(X)
  PROVE  SubSeq(s, 1, Len(s)) = s /\ s \o <<>> = s /\ <<>> \o s = s
  OBVIOUS

-----------------------------------------------------------------------------
(***************************************************************************)
(* Concatenations by their parts.                                          *)
(***************************************************************************)

\* How many elements the first i parts have.
Start(seqs, i) == SumOf([k \in DOMAIN seqs |-> Len(seqs[k])], i)

\* Where a part starts: at 0 for the first, and then after the part before it.
LEMMA StartIs ==
  ASSUME NEW n \in Nat, NEW X, NEW seqs \in [1..n -> Seq(X)]
  PROVE  /\ Start(seqs, 0) = 0
         /\ \A i \in 0..n : Start(seqs, i) \in Nat
         /\ \A i \in 0..n-1 : Start(seqs, i + 1) = Start(seqs, i) + Len(seqs[i + 1])
  <1> DEFINE f == [k \in DOMAIN seqs |-> Len(seqs[k])]
  <1>1. \A k \in 1..n : f[k] = Len(seqs[k]) /\ f[k] \in Nat
    OBVIOUS
  <1>2. \A i : Start(seqs, i) = SumOf(f, i)
    BY DEF Start
  <1> HIDE DEF f
  <1>3. ASSUME NEW i \in 0..n PROVE SumOf(f, i) \in Nat
    <2>1. i \in Nat /\ \A k \in 1..i : f[k] \in Nat
      BY <1>1
    <2> QED
      BY <2>1, SumNat
  <1>4. ASSUME NEW i \in 0..n-1 PROVE SumOf(f, i + 1) = SumOf(f, i) + Len(seqs[i + 1])
    <2>1. i \in Nat /\ \A k \in 1..i+1 : f[k] \in Int
      BY <1>1
    <2>2. f[i + 1] = Len(seqs[i + 1])
      BY <1>1
    <2> QED
      BY <2>1, <2>2, SumMore
  <1> QED
    BY <1>2, <1>3, <1>4, SumZero

\* Each part lies where those before it end.
LEMMA FlatAt ==
  ASSUME NEW n \in Nat, NEW X, NEW seqs \in [1..n -> Seq(X)]
  PROVE  /\ FlattenSeq(seqs) \in Seq(X) /\ Len(FlattenSeq(seqs)) = Start(seqs, n)
         /\ \A i \in 1..n :
              SubSeq(FlattenSeq(seqs), Start(seqs, i - 1) + 1, Start(seqs, i)) = seqs[i]
         /\ \A i \in 0..n : Start(seqs, i) <= Start(seqs, n)
  <1>1. PICK f \in [0..n -> Seq(X)] : IsFlat(f, seqs, n) /\ FlattenSeq(seqs) = f[n]
    BY FlattenIs
  <1> DEFINE at(i) == Start(seqs, i)
  <1>2. /\ at(0) = 0 /\ \A i \in 0..n : at(i) \in Nat
        /\ \A i \in 0..n-1 : at(i + 1) = at(i) + Len(seqs[i + 1])
    BY StartIs
  <1> HIDE DEF at
  <1>3. f[0] = <<>> /\ \A i \in 0..n-1 : f[i + 1] = f[i] \o seqs[i + 1]
    <2>1. \A i \in 0..n : f[i] = IF i = 0 THEN <<>> ELSE f[i - 1] \o seqs[i]
      BY <1>1 DEF IsFlat
    <2>2. ASSUME NEW i \in 0..n-1 PROVE f[i + 1] = f[i] \o seqs[i + 1]
      <3>1. i + 1 \in 0..n /\ i + 1 # 0 /\ (i + 1) - 1 = i
        OBVIOUS
      <3> QED
        BY <2>1, <3>1
    <2>3. f[0] = <<>>
      <3>1. 0 \in 0..n
        OBVIOUS
      <3> QED
        BY <1>1, <3>1 DEF IsFlat
    <2> QED
      BY <2>2, <2>3
  <1> DEFINE S == {m \in Nat :
                     /\ Len(f[m]) = at(m)
                     /\ \A i \in 0..m : at(i) <= at(m)
                     /\ \A i \in 1..m : SubSeq(f[m], at(i - 1) + 1, at(i)) = seqs[i]}
  <1>4. 0 \in S
    <2>1. Len(f[0]) = 0
      BY <1>3
    <2>2. \A i \in 0..0 : i = 0
      OBVIOUS
    <2>3. \A i \in 1..0 : FALSE
      OBVIOUS
    <2> QED
      BY <1>2, <2>1, <2>2, <2>3
  <1>5. ASSUME NEW m \in 0..n-1, m \in S PROVE m + 1 \in S
    <2> DEFINE u == f[m]
               v == seqs[m + 1]
               uv == u \o v
    <2>1. /\ m \in 0..n /\ m + 1 \in 0..n /\ m + 1 \in 1..n
          /\ u \in Seq(X) /\ v \in Seq(X) /\ f[m + 1] = uv
      <3>1. m \in 0..n /\ m + 1 \in 0..n /\ m + 1 \in 1..n
        OBVIOUS
      <3>2. u \in Seq(X) /\ v \in Seq(X)
        BY <1>1, <3>1
      <3> QED
        BY <1>3, <3>1, <3>2
    <2>2. Len(u) = at(m) /\ at(m) \in Nat /\ at(m + 1) = at(m) + Len(v) /\ Len(v) \in Nat
      BY <1>2, <1>5, <2>1
    <2>3. \A i \in 0..m : at(i) <= at(m)
      BY <1>5
    <2>4. \A i \in 1..m : SubSeq(u, at(i - 1) + 1, at(i)) = seqs[i]
      BY <1>5
    <2> HIDE DEF u, v, S
    <2>5. Len(uv) = at(m + 1)
      <3>1. u \in Seq(X) /\ v \in Seq(X)
        BY <2>1
      <3>2. Len(uv) = Len(u) + Len(v)
        BY <3>1, Put
      <3> QED
        BY <2>2, <3>2
    <2>6. ASSUME NEW i \in 0..m+1 PROVE at(i) <= at(m + 1)
      <3>1. CASE i \in 0..m
        <4>1. at(i) <= at(m) /\ at(i) \in Nat
          BY <1>2, <2>3, <3>1
        <4> QED
          BY <2>2, <4>1
      <3>2. CASE i = m + 1
        BY <3>2, <2>2
      <3> QED
        BY <3>1, <3>2
    <2>7. ASSUME NEW i \in 1..m+1 PROVE SubSeq(uv, at(i - 1) + 1, at(i)) = seqs[i]
      <3>0. i \in 1..m \/ i = m + 1
        OBVIOUS
      <3>1. CASE i \in 1..m
        <4> DEFINE a == at(i - 1)
                   b == at(i)
        <4>1. i - 1 \in 0..n-1 /\ i \in 0..n /\ (i - 1) + 1 = i /\ i \in 0..m /\ i \in 1..n
          BY <3>1
        <4>2. a \in Nat /\ b \in Nat /\ Len(seqs[i]) \in Nat /\ b = a + Len(seqs[i])
          BY <1>2, <4>1
        <4>3. b <= Len(u)
          BY <2>2, <2>3, <4>1
        <4>4. SubSeq(u, a + 1, b) = seqs[i]
          BY <2>4, <3>1
        <4> HIDE DEF a, b
        <4>5. a <= b
          BY <4>2
        <4>6. SubSeq(uv, a + 1, b) = SubSeq(u, a + 1, b)
          <5>1. u \in Seq(X) /\ v \in Seq(X) /\ a \in Nat /\ b \in Nat
            BY <2>1, <4>2
          <5> QED
            BY <4>3, <4>5, <5>1, PutCut
        <4> QED
          BY <4>4, <4>6 DEF a, b
      <3>2. CASE i = m + 1
        <4>1. i - 1 = m
          BY <3>2
        <4>2. SubSeq(uv, Len(u) + 0 + 1, Len(u) + Len(v)) = SubSeq(v, 0 + 1, Len(v))
          <5>1. u \in Seq(X) /\ v \in Seq(X) /\ 0 <= Len(v) /\ Len(v) \in Nat /\ 0 \in Nat
            BY <2>1, <2>2
          <5> QED
            BY <5>1, PutCut
        <4>3. SubSeq(v, 0 + 1, Len(v)) = v
          BY <2>1, CutAll
        <4>4. Len(u) + 0 + 1 = at(m) + 1 /\ Len(u) + Len(v) = at(m + 1)
          BY <2>2
        <4>5. SubSeq(uv, at(m) + 1, at(m + 1)) = v
          BY <4>2, <4>3, <4>4
        <4> QED
          BY <3>2, <4>1, <4>5 DEF v
      <3> QED
        BY <3>0, <3>1, <3>2
    <2> HIDE DEF uv
    <2>8. f[m + 1] = uv /\ m + 1 \in Nat
      BY <2>1
    <2> QED
      BY <2>5, <2>6, <2>7, <2>8 DEF S
  <1>6. \A m \in 0..n : m \in S
    <2> HIDE DEF S
    <2> QED
      BY <1>4, <1>5, InductTo
  <1>7. n \in S
    <2> HIDE DEF S
    <2> QED
      BY <1>6
  <1> QED
    BY <1>1, <1>7 DEF at

\* And a sequence with these parts is the concatenation.
LEMMA FlatOnly ==
  ASSUME NEW n \in Nat, NEW X, NEW seqs \in [1..n -> Seq(X)], NEW u \in Seq(X),
         Len(u) = Start(seqs, n),
         \A i \in 1..n : SubSeq(u, Start(seqs, i - 1) + 1, Start(seqs, i)) = seqs[i]
  PROVE  FlattenSeq(seqs) = u
  <1>1. PICK f \in [0..n -> Seq(X)] : IsFlat(f, seqs, n) /\ FlattenSeq(seqs) = f[n]
    BY FlattenIs
  <1> DEFINE at(i) == Start(seqs, i)
  <1>2. /\ at(0) = 0 /\ \A i \in 0..n : at(i) \in Nat
        /\ \A i \in 0..n-1 : at(i + 1) = at(i) + Len(seqs[i + 1])
    BY StartIs
  <1>3. \A i \in 0..n : at(i) <= at(n)
    BY FlatAt
  <1>4. Len(u) = at(n) /\ \A i \in 1..n : SubSeq(u, at(i - 1) + 1, at(i)) = seqs[i]
    OBVIOUS
  <1> HIDE DEF at
  <1> DEFINE S == {m \in Nat : f[m] = SubSeq(u, 1, at(m))}
  <1>5. 0 \in S
    <2>1. f[0] = <<>>
      <3>1. 0 \in 0..n
        OBVIOUS
      <3> QED
        BY <1>1, <3>1 DEF IsFlat
    <2>2. SubSeq(u, 1, 0) = <<>>
      OBVIOUS
    <2> QED
      BY <1>2, <2>1, <2>2
  <1>6. ASSUME NEW m \in 0..n-1, m \in S PROVE m + 1 \in S
    <2>1. m + 1 \in 0..n /\ m \in 0..n /\ m + 1 \in 1..n /\ m + 1 # 0 /\ (m + 1) - 1 = m
      OBVIOUS
    <2>2. f[m + 1] = f[m] \o seqs[m + 1]
      BY <1>1, <2>1 DEF IsFlat
    <2> DEFINE a == at(m)
               b == at(m + 1)
    <2>3. seqs[m + 1] = SubSeq(u, a + 1, b)
      BY <1>4, <2>1
    <2>4. a \in Nat /\ b \in Nat /\ a <= b /\ b <= Len(u)
      <3>1. Len(seqs[m + 1]) \in Nat
        BY <2>1
      <3>2. a \in Nat /\ b \in Nat /\ b = a + Len(seqs[m + 1])
        BY <1>2, <2>1
      <3>3. b <= Len(u)
        BY <1>3, <1>4, <2>1
      <3> QED
        BY <3>1, <3>2, <3>3
    <2>5. f[m] = SubSeq(u, 1, a)
      BY <1>6
    <2> HIDE DEF a, b
    <2>6. SubSeq(u, 0 + 1, a) \o SubSeq(u, a + 1, b) = SubSeq(u, 0 + 1, b)
      <3>1. 0 \in Nat /\ 0 <= a
        BY <2>4
      <3> QED
        BY <2>4, <3>1, CutPut, Zenon
    <2>7. f[m + 1] = SubSeq(u, 1, b)
      <3>1. 0 + 1 = 1
        OBVIOUS
      <3> QED
        BY <2>2, <2>3, <2>5, <2>6, <3>1
    <2> QED
      BY <2>7 DEF b
  <1>7. \A m \in 0..n : m \in S
    <2> HIDE DEF S
    <2> QED
      BY <1>5, <1>6, InductTo
  <1>8. f[n] = SubSeq(u, 1, at(n))
    BY <1>7
  <1> QED
    BY <1>1, <1>4, <1>8, CutAll

-----------------------------------------------------------------------------
(***************************************************************************)
(* Words in a row.                                                         *)
(***************************************************************************)

\* Where words start.
LEMMA StartWords ==
  ASSUME NEW n \in Nat, NEW ws \in [1..n -> Word]
  PROVE  /\ ws \in [1..n -> Seq(Bytes)]
         /\ \A i \in 0..n : Start(ws, i) = i * WordBytes
  <1>1. \A i \in 1..n : ws[i] \in Seq(Bytes) /\ Len(ws[i]) = WordBytes
    <2>1. ASSUME NEW i \in 1..n PROVE ws[i] \in Seq(Bytes) /\ Len(ws[i]) = WordBytes
      BY Widths, SequenceIs DEF Word
    <2> QED
      BY <2>1
  <1>2. ws \in [1..n -> Seq(Bytes)]
    BY <1>1
  <1>3. /\ Start(ws, 0) = 0
        /\ \A i \in 0..n : Start(ws, i) \in Nat
        /\ \A i \in 0..n-1 : Start(ws, i + 1) = Start(ws, i) + Len(ws[i + 1])
    BY <1>2, StartIs
  <1> DEFINE S == {m \in Nat : Start(ws, m) = m * WordBytes}
  <1>4. 0 \in S
    BY <1>3, Widths
  <1>5. ASSUME NEW m \in 0..n-1, m \in S PROVE m + 1 \in S
    <2>1. m + 1 \in 1..n /\ m \in Nat
      OBVIOUS
    <2>2. Start(ws, m + 1) = m * WordBytes + WordBytes
      BY <1>1, <1>3, <1>5, <2>1
    <2>3. m * WordBytes + WordBytes = (m + 1) * WordBytes
      BY <2>1, Widths
    <2> QED
      BY <2>1, <2>2, <2>3
  <1>6. \A m \in 0..n : m \in S
    <2> HIDE DEF S
    <2> QED
      BY <1>4, <1>5, InductTo
  <1> QED
    BY <1>2, <1>6

\* The place of a word.
LEMMA WordAt ==
  ASSUME NEW n \in Nat, NEW i \in 1..n
  PROVE  /\ (i - 1) * WordBytes \in Nat /\ i * WordBytes \in Nat /\ n * WordBytes \in Nat
         /\ i * WordBytes = (i - 1) * WordBytes + WordBytes
         /\ i * WordBytes <= n * WordBytes
  <1>1. i \in Nat /\ i - 1 \in Nat /\ n - i \in Nat /\ WordBytes \in Nat
    BY Widths
  <1>2. n * WordBytes = i * WordBytes + (n - i) * WordBytes
    BY <1>1
  <1>3. (i - 1) * WordBytes \in Nat /\ i * WordBytes \in Nat /\ (n - i) * WordBytes \in Nat
    BY <1>1
  <1>4. i * WordBytes = (i - 1) * WordBytes + WordBytes
    BY <1>1
  <1> QED
    BY <1>2, <1>3, <1>4

\* Whole words are counted.
LEMMA WordCount ==
  ASSUME NEW n \in Nat
  PROVE  n * WordBytes \in Nat /\ (n * WordBytes) \div WordBytes = n /\ (n * WordBytes) % WordBytes = 0
  <1>1. WordBytes \in Nat /\ WordBytes > 0
    BY CodecAssumption
  <1> DEFINE x == n * WordBytes
             r == 0
  <1>2. x \in Nat /\ x = n * WordBytes + r /\ r \in 0..WordBytes-1 /\ n \in Int
    BY <1>1
  <1> HIDE DEF x, r
  <1>3. x \div WordBytes = n /\ x % WordBytes = r
    BY <1>1, <1>2, DivModIs
  <1> QED
    BY <1>2, <1>3 DEF x, r

\* Words put in a row are taken out again.
LEMMA WordsFlat ==
  ASSUME NEW n \in Nat, NEW ws \in [1..n -> Word]
  PROVE  /\ FlattenSeq(ws) \in Seq(Bytes) /\ Len(FlattenSeq(ws)) = n * WordBytes
         /\ WordsOf(FlattenSeq(ws)) = ws
  <1>1. ws \in [1..n -> Seq(Bytes)] /\ \A i \in 0..n : Start(ws, i) = i * WordBytes
    BY StartWords
  <1> DEFINE u == FlattenSeq(ws)
  <1>2. /\ u \in Seq(Bytes) /\ Len(u) = Start(ws, n)
        /\ \A i \in 1..n : SubSeq(u, Start(ws, i - 1) + 1, Start(ws, i)) = ws[i]
    BY <1>1, FlatAt
  <1> HIDE DEF u
  <1>3. Len(u) = n * WordBytes
    BY <1>1, <1>2
  <1>4. Len(u) \div WordBytes = n
    BY <1>3, WordCount
  <1>5. \A i \in 1..n : SubSeq(u, (i - 1) * WordBytes + 1, i * WordBytes) = ws[i]
    <2>1. \A i \in 1..n : i - 1 \in 0..n /\ i \in 0..n
      OBVIOUS
    <2> QED
      BY <1>1, <1>2, <2>1
  <1>6. WordsOf(u) = [i \in 1..n |-> SubSeq(u, (i - 1) * WordBytes + 1, i * WordBytes)]
    BY <1>4 DEF WordsOf
  <1>7. WordsOf(u) = ws
    BY <1>5, <1>6
  <1> QED
    BY <1>2, <1>3, <1>7 DEF u

\* And words taken out of bytes make up these bytes.
LEMMA FlatWords ==
  ASSUME NEW n \in Nat, NEW bytes \in Seq(Bytes), Len(bytes) = n * WordBytes
  PROVE  WordsOf(bytes) \in [1..n -> Word] /\ FlattenSeq(WordsOf(bytes)) = bytes
  <1> DEFINE ws == WordsOf(bytes)
  <1>1. Len(bytes) \div WordBytes = n
    BY WordCount
  <1>2. ws = [i \in 1..n |-> SubSeq(bytes, (i - 1) * WordBytes + 1, i * WordBytes)]
    BY <1>1 DEF WordsOf
  <1> HIDE DEF ws
  <1>3. ASSUME NEW i \in 1..n
        PROVE  ws[i] = SubSeq(bytes, (i - 1) * WordBytes + 1, i * WordBytes) /\ ws[i] \in Word
    <2>1. ws[i] = SubSeq(bytes, (i - 1) * WordBytes + 1, i * WordBytes)
      BY <1>2
    <2> DEFINE a == (i - 1) * WordBytes
               b == i * WordBytes
    <2>2. a \in Nat /\ b \in Nat /\ b = a + WordBytes /\ b <= Len(bytes)
      BY WordAt
    <2>3. ws[i] = SubSeq(bytes, a + 1, b)
      BY <2>1
    <2> HIDE DEF a, b
    <2>4. a <= b /\ b - a = WordBytes /\ WordBytes \in Nat
      BY <2>2, Widths
    <2>5. ws[i] \in Seq(Bytes) /\ Len(ws[i]) = WordBytes
      <3>1. SubSeq(bytes, a + 1, b) \in Seq(Bytes) /\ Len(SubSeq(bytes, a + 1, b)) = b - a
        BY <2>2, <2>4, Cut
      <3> QED
        BY <2>3, <2>4, <3>1
    <2>6. ws[i] \in Word
      BY <2>4, <2>5, SequenceIs DEF Word
    <2> QED
      BY <2>1, <2>6
  <1>4. ws \in [1..n -> Word]
    BY <1>2, <1>3
  <1>5. ws \in [1..n -> Seq(Bytes)] /\ \A i \in 0..n : Start(ws, i) = i * WordBytes
    BY <1>4, StartWords
  <1>6. Len(bytes) = Start(ws, n)
    BY <1>5
  <1>7. \A i \in 1..n : SubSeq(bytes, Start(ws, i - 1) + 1, Start(ws, i)) = ws[i]
    <2>1. \A i \in 1..n : i - 1 \in 0..n /\ i \in 0..n
      OBVIOUS
    <2> QED
      BY <1>3, <1>5, <2>1, Zenon
  <1>8. FlattenSeq(ws) = bytes
    BY <1>5, <1>6, <1>7, FlatOnly
  <1> QED
    BY <1>4, <1>8 DEF ws

-----------------------------------------------------------------------------
(***************************************************************************)
(* Three in a row.                                                         *)
(***************************************************************************)

\* What three sequences put together are made of.
LEMMA PutThree ==
  ASSUME NEW X, NEW a \in Seq(X), NEW b \in Seq(X), NEW c \in Seq(X),
         NEW s, s = a \o b \o c, NEW m, m = Len(a) + Len(b)
  PROVE  /\ s \in Seq(X) /\ Len(s) = m + Len(c)
         /\ SubSeq(s, 1, Len(a)) = a
         /\ SubSeq(s, Len(a) + 1, m) = b
         /\ SubSeq(s, m + 1, Len(s)) = c
  <1> DEFINE ab == a \o b
             u == ab \o c
  <1>1. ab \in Seq(X) /\ Len(ab) = m /\ Len(a) \in Nat /\ Len(b) \in Nat /\ Len(c) \in Nat /\ m \in Nat
    BY Put
  <1>2. u \in Seq(X) /\ Len(u) = m + Len(c)
    <2> HIDE DEF ab
    <2>1. ab \in Seq(X)
      BY <1>1
    <2>2. u \in Seq(X) /\ Len(u) = Len(ab) + Len(c)
      BY <2>1, Put
    <2> QED
      BY <1>1, <2>2
  <1>3. SubSeq(ab, 0 + 1, Len(a)) = a
    <2>1. SubSeq(ab, 0 + 1, Len(a)) = SubSeq(a, 0 + 1, Len(a))
      <3>1. 0 \in Nat /\ Len(a) \in Nat /\ 0 <= Len(a) /\ Len(a) <= Len(a)
        BY <1>1
      <3> QED
        BY <3>1, PutCut
    <2> QED
      BY <2>1, CutAll
  <1>4. SubSeq(ab, Len(a) + 1, m) = b
    <2>1. SubSeq(ab, Len(a) + 0 + 1, Len(a) + Len(b)) = SubSeq(b, 0 + 1, Len(b))
      <3>1. 0 \in Nat /\ Len(b) \in Nat /\ 0 <= Len(b) /\ Len(b) <= Len(b)
        BY <1>1
      <3> QED
        BY <3>1, PutCut
    <2>2. Len(a) + 0 + 1 = Len(a) + 1
      BY <1>1
    <2>3. SubSeq(b, 0 + 1, Len(b)) = b
      BY CutAll
    <2> QED
      BY <2>1, <2>2, <2>3
  <1> HIDE DEF ab
  <1>5. SubSeq(u, 0 + 1, Len(a)) = SubSeq(ab, 0 + 1, Len(a))
    <2>1. 0 \in Nat /\ Len(a) \in Nat /\ 0 <= Len(a) /\ Len(a) <= Len(ab)
      BY <1>1
    <2> QED
      BY <1>1, <2>1, PutCut
  <1>6. SubSeq(u, Len(a) + 1, m) = SubSeq(ab, Len(a) + 1, m)
    <2>1. Len(a) <= m /\ m <= Len(ab)
      BY <1>1
    <2> QED
      BY <1>1, <2>1, PutCut
  <1>7. SubSeq(u, m + 1, Len(u)) = c
    <2>1. SubSeq(u, Len(ab) + 0 + 1, Len(ab) + Len(c)) = SubSeq(c, 0 + 1, Len(c))
      <3>1. 0 \in Nat /\ Len(c) \in Nat /\ 0 <= Len(c) /\ Len(c) <= Len(c)
        BY <1>1
      <3> QED
        BY <1>1, <3>1, PutCut
    <2>2. Len(ab) + 0 + 1 = m + 1 /\ Len(ab) + Len(c) = Len(u)
      BY <1>1, <1>2
    <2>3. SubSeq(c, 0 + 1, Len(c)) = c
      BY CutAll
    <2> QED
      BY <2>1, <2>2, <2>3
  <1>8. SubSeq(u, 1, Len(a)) = a
    <2>1. 0 + 1 = 1
      OBVIOUS
    <2> QED
      BY <1>3, <1>5, <2>1, Zenon
  <1> QED
    BY <1>2, <1>4, <1>6, <1>7, <1>8 DEF u, ab

\* A sequence is its three parts.
LEMMA CutThree ==
  ASSUME NEW X, NEW u \in Seq(X), NEW l \in Nat, NEW m \in Nat, l <= m, m <= Len(u)
  PROVE  /\ SubSeq(u, 1, l) \in Seq(X) /\ Len(SubSeq(u, 1, l)) = l
         /\ SubSeq(u, l + 1, m) \in Seq(X) /\ Len(SubSeq(u, l + 1, m)) = m - l
         /\ SubSeq(u, m + 1, Len(u)) \in Seq(X) /\ Len(SubSeq(u, m + 1, Len(u))) = Len(u) - m
         /\ SubSeq(u, 1, l) \o SubSeq(u, l + 1, m) \o SubSeq(u, m + 1, Len(u)) = u
  <1>1. Len(u) \in Nat /\ 0 \in Nat /\ 0 <= l /\ l <= Len(u) /\ 0 <= m /\ Len(u) <= Len(u)
    OBVIOUS
  <1>2. SubSeq(u, 0 + 1, l) \in Seq(X) /\ Len(SubSeq(u, 0 + 1, l)) = l - 0
    BY <1>1, Cut
  <1>3. SubSeq(u, l + 1, m) \in Seq(X) /\ Len(SubSeq(u, l + 1, m)) = m - l
    BY <1>1, Cut
  <1>4. SubSeq(u, m + 1, Len(u)) \in Seq(X) /\ Len(SubSeq(u, m + 1, Len(u))) = Len(u) - m
    BY <1>1, Cut
  <1>5. SubSeq(u, 0 + 1, l) \o SubSeq(u, l + 1, m) = SubSeq(u, 0 + 1, m)
    BY <1>1, CutPut
  <1>6. SubSeq(u, 0 + 1, m) \o SubSeq(u, m + 1, Len(u)) = SubSeq(u, 0 + 1, Len(u))
    BY <1>1, CutPut
  <1>7. 0 + 1 = 1 /\ l - 0 = l /\ SubSeq(u, 1, Len(u)) = u
    BY CutAll
  <1> QED
    BY <1>2, <1>3, <1>4, <1>5, <1>6, <1>7, Zenon

-----------------------------------------------------------------------------
(***************************************************************************)
(* The layout of an ABI.                                                   *)
(***************************************************************************)

Plain == {"field", "boolean", "integer"}

\* The places of a sequence.
LEMMA PlacesOf ==
  ASSUME NEW X, NEW s \in Seq(X)
  PROVE  Len(s) \in Nat /\ DOMAIN s = 1..Len(s) /\ \A i \in 1..Len(s) : s[i] \in X
  OBVIOUS

\* What a type is made of comes before it.
LEMMA TypeIs ==
  /\ Len(AbiTypes) \in Nat /\ DOMAIN AbiTypes = 1..Len(AbiTypes)
  /\ \A t \in DOMAIN AbiTypes :
       LET ty == AbiTypes[t]
       IN /\ ty.kind \in Plain \cup {"array", "struct"}
          /\ ty.kind = "integer" => ty.bytes \in 1..Half
          /\ ty.kind = "array" => ty.of \in 1..t-1 /\ ty.length \in Nat
          /\ ty.kind = "struct" => ty.fields \in Seq(1..t-1)
  <1>1. Len(AbiTypes) \in Nat /\ DOMAIN AbiTypes = 1..Len(AbiTypes)
    BY AbiAssumption
  <1>2. ASSUME NEW t \in DOMAIN AbiTypes
        PROVE  LET ty == AbiTypes[t]
               IN /\ ty.kind \in Plain \cup {"array", "struct"}
                  /\ ty.kind = "integer" => ty.bytes \in 1..Half
                  /\ ty.kind = "array" => ty.of \in 1..t-1 /\ ty.length \in Nat
                  /\ ty.kind = "struct" => ty.fields \in Seq(1..t-1)
    <2> DEFINE ty == AbiTypes[t]
    <2>1. ty \in TypesBefore(t)
      BY AbiAssumption
    <2>2. \/ ty \in [kind : {"field", "boolean"}]
          \/ ty \in [kind : {"integer"}, bytes : 1..Half]
          \/ ty \in [kind : {"array"}, of : 1..t-1, length : Nat]
          \/ ty \in [kind : {"struct"}, path : STRING, fields : Seq(1..t-1)]
      BY <2>1 DEF TypesBefore
    <2> HIDE DEF ty
    <2>3. /\ ty.kind \in Plain \cup {"array", "struct"}
          /\ ty.kind = "integer" => ty.bytes \in 1..Half
          /\ ty.kind = "array" => ty.of \in 1..t-1 /\ ty.length \in Nat
          /\ ty.kind = "struct" => ty.fields \in Seq(1..t-1)
      BY <2>2 DEF Plain
    <2> QED
      BY <2>3 DEF ty
  <1> QED
    BY <1>1, <1>2

\* The leaves of a part, as seen from the whole.
PartLeaves(f, i, part) ==
  [n \in DOMAIN f[part] |-> [path    |-> <<i>> \o f[part][n].path,
                             boolean |-> f[part][n].boolean]]

\* The leaves of a type, given those of the types before it.
LeafBody(f, t) ==
  LET ty == AbiTypes[t]
  IN CASE ty.kind = "array"  -> FlattenSeq([i \in 1..ty.length |-> PartLeaves(f, i, ty.of)])
       [] IsNewtype(ty)      -> f[ty.fields[1]]
       [] ty.kind = "struct" /\ ~IsNewtype(ty) ->
            FlattenSeq([i \in DOMAIN ty.fields |-> PartLeaves(f, i, ty.fields[i])])
       [] OTHER              -> <<[path |-> <<>>, boolean |-> ty.kind = "boolean"]>>

\* That, kind by kind.
LEMMA LeafKinds ==
  ASSUME NEW f, NEW t \in DOMAIN AbiTypes
  PROVE  LET ty == AbiTypes[t]
         IN /\ ty.kind \in Plain =>
                 LeafBody(f, t) = <<[path |-> <<>>, boolean |-> ty.kind = "boolean"]>>
            /\ ty.kind = "array" =>
                 LeafBody(f, t) = FlattenSeq([i \in 1..ty.length |-> PartLeaves(f, i, ty.of)])
            /\ ty.kind = "struct" /\ Len(ty.fields) = 1 => LeafBody(f, t) = f[ty.fields[1]]
            /\ ty.kind = "struct" /\ Len(ty.fields) # 1 =>
                 LeafBody(f, t) =
                   FlattenSeq([i \in DOMAIN ty.fields |-> PartLeaves(f, i, ty.fields[i])])
  <1> DEFINE ty == AbiTypes[t]
             A == FlattenSeq([i \in 1..ty.length |-> PartLeaves(f, i, ty.of)])
             N == f[ty.fields[1]]
             F == FlattenSeq([i \in DOMAIN ty.fields |-> PartLeaves(f, i, ty.fields[i])])
             P == <<[path |-> <<>>, boolean |-> ty.kind = "boolean"]>>
  <1>1. LeafBody(f, t) = CASE ty.kind = "array" -> A
                           [] ty.kind = "struct" /\ Len(ty.fields) = 1 -> N
                           [] ty.kind = "struct" /\ ~(ty.kind = "struct" /\ Len(ty.fields) = 1) -> F
                           [] OTHER -> P
    BY DEF LeafBody, IsNewtype
  <1>2. ty.kind \in Plain => ty.kind # "array" /\ ty.kind # "struct"
    BY DEF Plain
  <1> HIDE DEF ty, A, N, F, P
  <1>3. ty.kind \in Plain => LeafBody(f, t) = P
    BY <1>1, <1>2
  <1>4. ty.kind = "array" => LeafBody(f, t) = A
    BY <1>1
  <1>5. ty.kind = "struct" /\ Len(ty.fields) = 1 => LeafBody(f, t) = N
    BY <1>1
  <1>6. ty.kind = "struct" /\ Len(ty.fields) # 1 => LeafBody(f, t) = F
    BY <1>1
  <1> QED
    BY <1>3, <1>4, <1>5, <1>6 DEF ty, A, N, F, P

\* The leaves of a type depend on what comes before it only.
LEMMA LeafLocal ==
  ASSUME NEW t \in DOMAIN AbiTypes, NEW f, NEW g, \A p \in 1..t-1 : f[p] = g[p]
  PROVE  LeafBody(f, t) = LeafBody(g, t)
  <1> DEFINE ty == AbiTypes[t]
  <1>1. /\ ty.kind \in Plain \cup {"array", "struct"}
        /\ ty.kind = "array" => ty.of \in 1..t-1
        /\ ty.kind = "struct" => ty.fields \in Seq(1..t-1)
    BY TypeIs
  <1>2. \A i : \A p \in 1..t-1 : PartLeaves(f, i, p) = PartLeaves(g, i, p)
    <2>1. ASSUME NEW i, NEW p \in 1..t-1 PROVE PartLeaves(f, i, p) = PartLeaves(g, i, p)
      <3>1. f[p] = g[p]
        OBVIOUS
      <3> QED
        BY <3>1 DEF PartLeaves
    <2> QED
      BY <2>1
  <1>3. CASE ty.kind \in Plain
    BY <1>3, LeafKinds
  <1>4. CASE ty.kind = "array"
    <2>1. \A i : PartLeaves(f, i, ty.of) = PartLeaves(g, i, ty.of)
      BY <1>1, <1>2, <1>4
    <2>2. [i \in 1..ty.length |-> PartLeaves(f, i, ty.of)]
            = [i \in 1..ty.length |-> PartLeaves(g, i, ty.of)]
      BY <2>1
    <2>3. LeafBody(f, t) = FlattenSeq([i \in 1..ty.length |-> PartLeaves(f, i, ty.of)])
      BY <1>4, LeafKinds
    <2>4. LeafBody(g, t) = FlattenSeq([i \in 1..ty.length |-> PartLeaves(g, i, ty.of)])
      BY <1>4, LeafKinds
    <2> QED
      BY <2>2, <2>3, <2>4
  <1>5. CASE ty.kind = "struct" /\ Len(ty.fields) = 1
    <2>1. ty.fields[1] \in 1..t-1
      <3>1. ty.fields \in Seq(1..t-1) /\ 1 \in 1..Len(ty.fields)
        BY <1>1, <1>5
      <3> HIDE DEF ty
      <3> QED
        BY <3>1, PlacesOf
    <2>2. LeafBody(f, t) = f[ty.fields[1]] /\ LeafBody(g, t) = g[ty.fields[1]]
      BY <1>5, LeafKinds
    <2> QED
      BY <2>1, <2>2
  <1>6. CASE ty.kind = "struct" /\ Len(ty.fields) # 1
    <2>1. \A i \in DOMAIN ty.fields : ty.fields[i] \in 1..t-1
      <3>1. ty.fields \in Seq(1..t-1)
        BY <1>1, <1>6
      <3> HIDE DEF ty
      <3> QED
        BY <3>1, PlacesOf
    <2>2. \A i \in DOMAIN ty.fields : PartLeaves(f, i, ty.fields[i]) = PartLeaves(g, i, ty.fields[i])
      BY <1>2, <2>1
    <2>3. [i \in DOMAIN ty.fields |-> PartLeaves(f, i, ty.fields[i])]
            = [i \in DOMAIN ty.fields |-> PartLeaves(g, i, ty.fields[i])]
      BY <2>2
    <2>4. LeafBody(f, t) = FlattenSeq([i \in DOMAIN ty.fields |-> PartLeaves(f, i, ty.fields[i])])
      BY <1>6, LeafKinds
    <2>5. LeafBody(g, t) = FlattenSeq([i \in DOMAIN ty.fields |-> PartLeaves(g, i, ty.fields[i])])
      BY <1>6, LeafKinds
    <2> QED
      BY <2>3, <2>4, <2>5
  <1> QED
    BY <1>1, <1>3, <1>4, <1>5, <1>6

\* AbiLeaf is what it is defined to be: there is such a function.
LEMMA AbiLeafIs == \A t \in DOMAIN AbiTypes : AbiLeaf[t] = LeafBody(AbiLeaf, t)
  <1> DEFINE n == Len(AbiTypes)
             S == {m \in Nat : \E f : DOMAIN f = 1..m /\ \A t \in 1..m : f[t] = LeafBody(f, t)}
  <1>1. n \in Nat /\ DOMAIN AbiTypes = 1..n
    BY TypeIs
  <1>2. 0 \in S
    <2>1. DOMAIN <<>> = 1..0 /\ \A t \in 1..0 : FALSE
      OBVIOUS
    <2> QED
      BY <2>1
  <1> HIDE DEF n
  <1>3. ASSUME NEW m \in 0..n-1, m \in S PROVE m + 1 \in S
    <2>1. PICK f : DOMAIN f = 1..m /\ \A t \in 1..m : f[t] = LeafBody(f, t)
      BY <1>3
    <2> DEFINE h == [t \in 1..m+1 |-> IF t = m + 1 THEN LeafBody(f, t) ELSE f[t]]
    <2>2. DOMAIN h = 1..m+1
      OBVIOUS
    <2>3. ASSUME NEW t \in 1..m+1 PROVE h[t] = LeafBody(h, t)
      <3>1. t \in DOMAIN AbiTypes
        BY <1>1
      <3>2. \A p \in 1..t-1 : f[p] = h[p]
        OBVIOUS
      <3> HIDE DEF h
      <3>3. LeafBody(f, t) = LeafBody(h, t)
        BY <3>1, <3>2, LeafLocal
      <3>4. h[t] = LeafBody(f, t)
        <4>1. CASE t = m + 1
          BY <4>1 DEF h
        <4>2. CASE t # m + 1
          <5>1. t \in 1..m /\ h[t] = f[t]
            BY <4>2 DEF h
          <5> QED
            BY <2>1, <5>1
        <4> QED
          BY <4>1, <4>2
      <3> QED
        BY <3>3, <3>4
    <2> HIDE DEF h
    <2> QED
      BY <2>2, <2>3
  <1>4. \A m \in 0..n : m \in S
    <2> HIDE DEF S
    <2> QED
      BY <1>1, <1>2, <1>3, InductTo
  <1>5. n \in S
    <2> HIDE DEF S
    <2> QED
      BY <1>1, <1>4
  <1>6. PICK f : DOMAIN f = 1..n /\ \A t \in 1..n : f[t] = LeafBody(f, t)
    BY <1>5
  <1> DEFINE g == [t \in 1..n |-> f[t]]
  <1>7. \A t \in 1..n : g[t] = LeafBody(g, t)
    <2>1. ASSUME NEW t \in 1..n PROVE g[t] = LeafBody(g, t)
      <3>1. t \in DOMAIN AbiTypes /\ \A p \in 1..t-1 : f[p] = g[p]
        BY <1>1
      <3>2. g[t] = f[t]
        OBVIOUS
      <3> HIDE DEF g
      <3>3. LeafBody(f, t) = LeafBody(g, t)
        BY <3>1, LeafLocal
      <3> QED
        BY <1>6, <3>2, <3>3
    <2> QED
      BY <2>1
  <1>8. g = [t \in DOMAIN AbiTypes |-> LeafBody(g, t)]
    BY <1>1, <1>7
  <1> HIDE DEF g
  <1>9. AbiLeaf = [t \in DOMAIN AbiTypes |-> LeafBody(AbiLeaf, t)]
    <2>1. \A h : [t \in DOMAIN AbiTypes |-> LeafBody(h, t)] =
            [t \in DOMAIN AbiTypes |->
               LET ty == AbiTypes[t]
                   At(i, part) == [k \in DOMAIN h[part] |->
                                     [path    |-> <<i>> \o h[part][k].path,
                                      boolean |-> h[part][k].boolean]]
               IN CASE ty.kind = "array"  -> FlattenSeq([i \in 1..ty.length |-> At(i, ty.of)])
                    [] IsNewtype(ty)      -> h[ty.fields[1]]
                    [] ty.kind = "struct" /\ ~IsNewtype(ty) ->
                         FlattenSeq([i \in DOMAIN ty.fields |-> At(i, ty.fields[i])])
                    [] OTHER              -> <<[path |-> <<>>, boolean |-> ty.kind = "boolean"]>>]
      BY DEF LeafBody, PartLeaves
    <2>2. AbiLeaf = CHOOSE h : h = [t \in DOMAIN AbiTypes |-> LeafBody(h, t)]
      BY <2>1, Zenon DEF AbiLeaf
    <2> QED
      BY <1>8, <2>2
  <1> QED
    BY <1>9

Leaf == [path : Seq(Nat), boolean : BOOLEAN]

\* As many leaves as the part has.
LEMMA PartLeavesAre ==
  ASSUME NEW f, NEW p, f[p] \in Seq(Leaf), NEW i \in Nat
  PROVE  PartLeaves(f, i, p) \in Seq(Leaf) /\ Len(PartLeaves(f, i, p)) = Len(f[p])
  <1> DEFINE s == f[p]
             r == [n \in DOMAIN s |-> [path |-> <<i>> \o s[n].path, boolean |-> s[n].boolean]]
  <1>1. s \in Seq(Leaf) /\ Len(s) \in Nat /\ DOMAIN s = 1..Len(s)
    BY PlacesOf
  <1> HIDE DEF s
  <1>2. ASSUME NEW n \in 1..Len(s) PROVE [path |-> <<i>> \o s[n].path, boolean |-> s[n].boolean] \in Leaf
    <2>1. s[n] \in Leaf
      BY <1>1
    <2>2. s[n].path \in Seq(Nat) /\ s[n].boolean \in BOOLEAN
      BY <2>1 DEF Leaf
    <2>3. <<i>> \o s[n].path \in Seq(Nat)
      <3>1. <<i>> \in Seq(Nat)
        OBVIOUS
      <3> QED
        BY <2>2, <3>1, Joined
    <2> QED
      BY <2>2, <2>3 DEF Leaf
  <1>3. r \in [1..Len(s) -> Leaf]
    BY <1>1, <1>2
  <1>4. r \in Seq(Leaf) /\ Len(r) = Len(s)
    BY <1>1, <1>3, SequenceIs
  <1>5. PartLeaves(f, i, p) = r
    BY DEF PartLeaves, s
  <1> QED
    BY <1>4, <1>5 DEF s

\* The parts of the leaves of an array and of a struct.
LeafParts(f, t) ==
  LET ty == AbiTypes[t]
  IN IF ty.kind = "array" THEN [i \in 1..ty.length |-> PartLeaves(f, i, ty.of)]
     ELSE [i \in 1..Len(ty.fields) |-> PartLeaves(f, i, ty.fields[i])]

\* The leaves of an array or a struct are those of its items, one sequence of
\* leaves for each, under the path of the item.
LEMMA LeafPartsAre ==
  ASSUME NEW t \in DOMAIN AbiTypes, AbiTypes[t].kind \in {"array", "struct"},
         NEW f, \A p \in 1..t-1 : f[p] \in Seq(Leaf)
  PROVE  LET ty == AbiTypes[t]
             n  == IF ty.kind = "array" THEN ty.length ELSE Len(ty.fields)
             q  == LeafParts(f, t)
         IN /\ n \in Nat /\ q \in [1..n -> Seq(Leaf)]
            /\ \A i \in 1..n : Len(q[i]) = IF ty.kind = "array" THEN Len(f[ty.of])
                                           ELSE Len(f[ty.fields[i]])
            /\ ~(ty.kind = "struct" /\ Len(ty.fields) = 1) => LeafBody(f, t) = FlattenSeq(q)
  <1> DEFINE ty == AbiTypes[t]
             n  == IF ty.kind = "array" THEN ty.length ELSE Len(ty.fields)
             q  == LeafParts(f, t)
  <1>1. CASE ty.kind = "array"
    <2>1. ty.of \in 1..t-1 /\ ty.length \in Nat /\ n = ty.length
      BY <1>1, TypeIs
    <2>2. q = [i \in 1..n |-> PartLeaves(f, i, ty.of)]
      BY <1>1 DEF LeafParts
    <2>3. \A i \in 1..n : PartLeaves(f, i, ty.of) \in Seq(Leaf)
                            /\ Len(PartLeaves(f, i, ty.of)) = Len(f[ty.of])
      <3>1. f[ty.of] \in Seq(Leaf)
        BY <2>1
      <3>2. ASSUME NEW i \in 1..n
            PROVE  /\ PartLeaves(f, i, ty.of) \in Seq(Leaf)
                   /\ Len(PartLeaves(f, i, ty.of)) = Len(f[ty.of])
        <4>1. i \in Nat
          BY <2>1
        <4> HIDE DEF ty
        <4> QED
          BY <3>1, <4>1, PartLeavesAre
      <3> QED
        BY <3>2
    <2>4. LeafBody(f, t) = FlattenSeq([i \in 1..ty.length |-> PartLeaves(f, i, ty.of)])
      BY <1>1, LeafKinds
    <2> HIDE DEF ty, n, q
    <2>5. q \in [1..n -> Seq(Leaf)] /\ \A i \in 1..n : Len(q[i]) = Len(f[ty.of])
      BY <2>2, <2>3
    <2>6. LeafBody(f, t) = FlattenSeq(q)
      BY <2>1, <2>2, <2>4
    <2> QED
      BY <1>1, <2>1, <2>5, <2>6 DEF ty, n, q
  <1>2. CASE ty.kind = "struct"
    <2>1. ty.fields \in Seq(1..t-1) /\ n = Len(ty.fields)
      BY <1>2, TypeIs
    <2>2. q = [i \in 1..n |-> PartLeaves(f, i, ty.fields[i])]
      BY <1>2 DEF LeafParts
    <2>3. Len(ty.fields) # 1 =>
            LeafBody(f, t) = FlattenSeq([i \in DOMAIN ty.fields |-> PartLeaves(f, i, ty.fields[i])])
      BY <1>2, LeafKinds
    <2> HIDE DEF ty, n, q
    <2>4. n \in Nat /\ DOMAIN ty.fields = 1..n /\ \A i \in 1..n : ty.fields[i] \in 1..t-1
      BY <2>1, PlacesOf
    <2>5. ASSUME NEW i \in 1..n
          PROVE  /\ PartLeaves(f, i, ty.fields[i]) \in Seq(Leaf)
                 /\ Len(PartLeaves(f, i, ty.fields[i])) = Len(f[ty.fields[i]])
      <3>1. i \in Nat /\ f[ty.fields[i]] \in Seq(Leaf)
        BY <2>4
      <3> QED
        BY <3>1, PartLeavesAre
    <2>6. q \in [1..n -> Seq(Leaf)] /\ \A i \in 1..n : Len(q[i]) = Len(f[ty.fields[i]])
      BY <2>2, <2>5
    <2>7. Len(ty.fields) # 1 => LeafBody(f, t) = FlattenSeq(q)
      BY <2>2, <2>3, <2>4
    <2> QED
      BY <1>2, <2>4, <2>6, <2>7 DEF ty, n, q
  <1> QED
    BY <1>1, <1>2

\* Leaves are ways to numbers.
LEMMA LeafTyped == \A t \in DOMAIN AbiTypes : AbiLeaf[t] \in Seq(Leaf)
  <1> DEFINE n == Len(AbiTypes)
             S == {m \in Nat : \A t \in 1..m : AbiLeaf[t] \in Seq(Leaf)}
  <1>1. n \in Nat /\ DOMAIN AbiTypes = 1..n
    BY TypeIs
  <1> HIDE DEF n
  <1>2. 0 \in S
    OBVIOUS
  <1>3. ASSUME NEW m \in 0..n-1, m \in S PROVE m + 1 \in S
    <2> DEFINE t == m + 1
               ty == AbiTypes[t]
    <2>1. t \in DOMAIN AbiTypes /\ \A p \in 1..t-1 : AbiLeaf[p] \in Seq(Leaf)
      BY <1>1, <1>3
    <2>2. AbiLeaf[t] = LeafBody(AbiLeaf, t)
      BY <2>1, AbiLeafIs
    <2> HIDE DEF t
    <2>3. /\ ty.kind \in Plain \cup {"array", "struct"}
          /\ ty.kind = "struct" => ty.fields \in Seq(1..t-1)
      BY <2>1, TypeIs
    <2>4. ASSUME ty.kind \in Plain PROVE AbiLeaf[t] \in Seq(Leaf)
      <3>1. AbiLeaf[t] = <<[path |-> <<>>, boolean |-> ty.kind = "boolean"]>>
        BY <2>1, <2>2, <2>4, LeafKinds
      <3>2. [path |-> <<>>, boolean |-> ty.kind = "boolean"] \in Leaf
        BY DEF Leaf
      <3> QED
        BY <3>1, <3>2
    <2>5. ASSUME ty.kind = "struct" /\ Len(ty.fields) = 1 PROVE AbiLeaf[t] \in Seq(Leaf)
      <3>1. AbiLeaf[t] = AbiLeaf[ty.fields[1]]
        BY <2>1, <2>2, <2>5, LeafKinds
      <3>2. ty.fields[1] \in 1..t-1
        <4>1. ty.fields \in Seq(1..t-1) /\ 1 \in 1..Len(ty.fields)
          BY <2>3, <2>5
        <4> HIDE DEF ty
        <4> QED
          BY <4>1, PlacesOf
      <3> QED
        BY <2>1, <3>1, <3>2
    <2>6. ASSUME ty.kind \in {"array", "struct"} /\ ~(ty.kind = "struct" /\ Len(ty.fields) = 1)
          PROVE  AbiLeaf[t] \in Seq(Leaf)
      <3> DEFINE k == IF ty.kind = "array" THEN ty.length ELSE Len(ty.fields)
                 q == LeafParts(AbiLeaf, t)
      <3>1. k \in Nat /\ q \in [1..k -> Seq(Leaf)] /\ AbiLeaf[t] = FlattenSeq(q)
        BY <2>1, <2>2, <2>6, LeafPartsAre
      <3> HIDE DEF k, q
      <3> QED
        BY <3>1, FlatAt
    <2>7. AbiLeaf[t] \in Seq(Leaf)
      BY <2>3, <2>4, <2>5, <2>6
    <2> QED
      BY <1>3, <2>7 DEF t
  <1>4. \A m \in 0..n : m \in S
    <2> HIDE DEF S
    <2> QED
      BY <1>1, <1>2, <1>3, InductTo
  <1>5. n \in S
    <2> HIDE DEF S
    <2> QED
      BY <1>1, <1>4
  <1> QED
    BY <1>1, <1>5

\* The sum of as many equal numbers.
LEMMA SumEven ==
  ASSUME NEW m \in Nat, NEW c \in Int, NEW f, \A n \in 1..m : f[n] = c
  PROVE  SumOf(f, m) = m * c
  <1> DEFINE S == {k \in Nat : SumOf(f, k) = k * c}
  <1>1. 0 \in S
    BY SumZero
  <1>2. ASSUME NEW k \in 0..m-1, k \in S PROVE k + 1 \in S
    <2>1. k \in Nat /\ \A n \in 1..k+1 : f[n] \in Int
      OBVIOUS
    <2>2. SumOf(f, k + 1) = SumOf(f, k) + f[k + 1]
      BY <2>1, SumMore
    <2>3. f[k + 1] = c /\ SumOf(f, k) = k * c
      BY <1>2
    <2>4. k * c + c = (k + 1) * c
      BY <2>1
    <2> QED
      BY <2>1, <2>2, <2>3, <2>4
  <1>3. \A k \in 0..m : k \in S
    <2> HIDE DEF S
    <2> QED
      BY <1>1, <1>2, InductTo
  <1> QED
    BY <1>3

\* The count of the fields of a type, given those of the types before it.
CountBody(f, t) ==
  LET ty == AbiTypes[t]
  IN CASE ty.kind = "array"  -> ty.length * f[ty.of]
       [] ty.kind = "struct" -> SumOf([i \in DOMAIN ty.fields |-> f[ty.fields[i]]], Len(ty.fields))
       [] OTHER              -> 1

\* How many leaves a type has depends on the counts of earlier types only, so
\* the recursion over the type list is well founded.
LEMMA CountLocal ==
  ASSUME NEW t \in DOMAIN AbiTypes, NEW f, NEW g, \A p \in 1..t-1 : f[p] = g[p]
  PROVE  CountBody(f, t) = CountBody(g, t)
  <1> DEFINE ty == AbiTypes[t]
  <1>1. /\ ty.kind = "array" => ty.of \in 1..t-1
        /\ ty.kind = "struct" => ty.fields \in Seq(1..t-1)
    BY TypeIs
  <1>2. ty.kind = "array" => f[ty.of] = g[ty.of]
    BY <1>1
  <1>3. ASSUME ty.kind = "struct"
        PROVE  [i \in DOMAIN ty.fields |-> f[ty.fields[i]]] = [i \in DOMAIN ty.fields |-> g[ty.fields[i]]]
    <2>1. \A i \in DOMAIN ty.fields : ty.fields[i] \in 1..t-1
      <3>1. ty.fields \in Seq(1..t-1)
        BY <1>1, <1>3
      <3> HIDE DEF ty
      <3> QED
        BY <3>1, PlacesOf
    <2> HIDE DEF ty
    <2>2. \A i \in DOMAIN ty.fields : f[ty.fields[i]] = g[ty.fields[i]]
      BY <2>1
    <2> QED
      BY <2>2
  <1>4. CountBody(f, t) = CASE ty.kind = "array" -> ty.length * f[ty.of]
                            [] ty.kind = "struct" ->
                                 SumOf([i \in DOMAIN ty.fields |-> f[ty.fields[i]]], Len(ty.fields))
                            [] OTHER -> 1
    BY DEF CountBody
  <1>5. CountBody(g, t) = CASE ty.kind = "array" -> ty.length * g[ty.of]
                            [] ty.kind = "struct" ->
                                 SumOf([i \in DOMAIN ty.fields |-> g[ty.fields[i]]], Len(ty.fields))
                            [] OTHER -> 1
    BY DEF CountBody
  <1> HIDE DEF ty
  <1>6. CASE ty.kind = "array"
    BY <1>2, <1>4, <1>5, <1>6
  <1>7. CASE ty.kind = "struct"
    BY <1>3, <1>4, <1>5, <1>7
  <1>8. CASE ty.kind # "array" /\ ty.kind # "struct"
    BY <1>4, <1>5, <1>8
  <1> QED
    BY <1>6, <1>7, <1>8

\* The count that build.rs takes of a type is how many leaves the generated code
\* pushes for any value of it.
LEMMA CountIs ==
  \A t \in DOMAIN AbiTypes : AbiFieldCount[t] = Len(AbiLeaf[t]) /\ AbiFieldCount[t] \in Nat
  <1> DEFINE n == Len(AbiTypes)
             g == [t \in DOMAIN AbiTypes |-> Len(AbiLeaf[t])]
  <1>1. n \in Nat /\ DOMAIN AbiTypes = 1..n
    BY TypeIs
  <1>2. \A t \in DOMAIN AbiTypes : g[t] \in Nat /\ g[t] = Len(AbiLeaf[t]) /\ AbiLeaf[t] \in Seq(Leaf)
    BY LeafTyped
  <1>3. ASSUME NEW t \in DOMAIN AbiTypes PROVE g[t] = CountBody(g, t)
    <2> DEFINE ty == AbiTypes[t]
    <2>1. /\ ty.kind \in Plain \cup {"array", "struct"}
          /\ ty.kind = "array" => ty.of \in 1..t-1 /\ ty.length \in Nat
          /\ ty.kind = "struct" => ty.fields \in Seq(1..t-1)
      BY TypeIs
    <2>2. \A p \in 1..t-1 : p \in DOMAIN AbiTypes /\ AbiLeaf[p] \in Seq(Leaf)
      BY <1>1, <1>2
    <2>3. AbiLeaf[t] = LeafBody(AbiLeaf, t) /\ g[t] = Len(AbiLeaf[t])
      BY <1>2, AbiLeafIs
    <2>4. CountBody(g, t) = CASE ty.kind = "array" -> ty.length * g[ty.of]
                              [] ty.kind = "struct" ->
                                   SumOf([i \in DOMAIN ty.fields |-> g[ty.fields[i]]], Len(ty.fields))
                              [] OTHER -> 1
      BY DEF CountBody
    <2> HIDE DEF g
    <2>5. ASSUME ty.kind \in Plain PROVE g[t] = CountBody(g, t)
      <3>1. AbiLeaf[t] = <<[path |-> <<>>, boolean |-> ty.kind = "boolean"]>>
        BY <2>3, <2>5, LeafKinds
      <3>2. Len(AbiLeaf[t]) = 1
        BY <3>1
      <3>3. ty.kind # "array" /\ ty.kind # "struct"
        BY <2>5 DEF Plain
      <3> HIDE DEF ty
      <3>4. CountBody(g, t) = 1
        BY <2>4, <3>3
      <3> QED
        BY <2>3, <3>2, <3>4
    <2>6. ASSUME ty.kind = "struct", Len(ty.fields) = 1 PROVE g[t] = CountBody(g, t)
      <3>1. AbiLeaf[t] = AbiLeaf[ty.fields[1]]
        BY <2>3, <2>6, LeafKinds
      <3> DEFINE p == ty.fields[1]
                 c == [i \in DOMAIN ty.fields |-> g[ty.fields[i]]]
      <3> HIDE DEF ty
      <3>2. p \in 1..t-1 /\ DOMAIN ty.fields = 1..1
        <4>1. ty.fields \in Seq(1..t-1) /\ 1 \in 1..Len(ty.fields)
          BY <2>1, <2>6
        <4> QED
          BY <2>6, <4>1, PlacesOf
      <3>3. c[1] = g[p] /\ g[p] \in Int
        BY <1>2, <2>2, <3>2
      <3>4. CountBody(g, t) = SumOf(c, 1)
        BY <2>4, <2>6
      <3> HIDE DEF c, p
      <3>5. CountBody(g, t) = g[p]
        BY <3>3, <3>4, SumOne
      <3>6. g[p] = Len(AbiLeaf[p]) /\ AbiLeaf[t] = AbiLeaf[p]
        BY <1>2, <2>2, <3>1, <3>2 DEF p
      <3> QED
        BY <2>3, <3>5, <3>6
    <2>7. ASSUME ty.kind \in {"array", "struct"}, ~(ty.kind = "struct" /\ Len(ty.fields) = 1)
          PROVE  g[t] = CountBody(g, t)
      <3> DEFINE k == IF ty.kind = "array" THEN ty.length ELSE Len(ty.fields)
                 q == LeafParts(AbiLeaf, t)
                 c == [i \in DOMAIN q |-> Len(q[i])]
      <3>1. k \in Nat /\ q \in [1..k -> Seq(Leaf)] /\ AbiLeaf[t] = FlattenSeq(q)
        BY <2>2, <2>3, <2>7, LeafPartsAre
      <3>2. \A i \in 1..k : Len(q[i]) = IF ty.kind = "array" THEN Len(AbiLeaf[ty.of])
                                        ELSE Len(AbiLeaf[ty.fields[i]])
        BY <2>2, <2>7, LeafPartsAre
      <3> HIDE DEF q
      <3>3. g[t] = Start(q, k)
        <4> HIDE DEF k
        <4> QED
          BY <2>3, <3>1, FlatAt
      <3>4. Start(q, k) = SumOf(c, k)
        BY DEF Start
      <3>5. DOMAIN c = 1..k /\ \A i \in 1..k : c[i] = Len(q[i])
        BY <3>1
      <3> HIDE DEF c
      <3>6. CASE ty.kind = "array"
        <4>1. k = ty.length /\ g[ty.of] = Len(AbiLeaf[ty.of]) /\ g[ty.of] \in Int
          BY <1>2, <2>1, <2>2, <3>6
        <4>2. \A i \in 1..k : c[i] = g[ty.of]
          BY <3>2, <3>5, <3>6, <4>1
        <4> HIDE DEF ty
        <4>3. SumOf(c, k) = k * g[ty.of]
          <5> DEFINE e == g[ty.of]
          <5>1. e \in Int /\ k \in Nat /\ \A i \in 1..k : c[i] = e
            BY <3>1, <4>1, <4>2
          <5> HIDE DEF e, k
          <5>2. SumOf(c, k) = k * e
            BY <5>1, SumEven
          <5> QED
            BY <5>2 DEF e
        <4>4. CountBody(g, t) = ty.length * g[ty.of]
          BY <2>4, <3>6
        <4> QED
          BY <3>3, <3>4, <4>1, <4>3, <4>4
      <3>7. CASE ty.kind = "struct"
        <4> DEFINE e == [i \in DOMAIN ty.fields |-> g[ty.fields[i]]]
        <4>1. k = Len(ty.fields) /\ ty.fields \in Seq(1..t-1)
          BY <2>1, <3>7
        <4> HIDE DEF k
        <4>2. CountBody(g, t) = SumOf(e, k)
          <5> HIDE DEF ty
          <5> QED
            BY <2>4, <3>7, <4>1
        <4>3. ASSUME NEW i \in 1..k PROVE c[i] \in Int /\ c[i] = e[i]
          <5>1. i \in DOMAIN ty.fields /\ ty.fields[i] \in 1..t-1
            <6> HIDE DEF ty
            <6> QED
              BY <4>1, PlacesOf
          <5>2. g[ty.fields[i]] = Len(AbiLeaf[ty.fields[i]]) /\ g[ty.fields[i]] \in Nat
            BY <1>2, <2>2, <5>1
          <5>3. c[i] = Len(AbiLeaf[ty.fields[i]])
            BY <3>2, <3>5, <3>7
          <5>4. e[i] = g[ty.fields[i]]
            BY <5>1
          <5> QED
            BY <5>2, <5>3, <5>4
        <4> HIDE DEF e
        <4>4. SumOf(c, k) = SumOf(e, k)
          BY <3>1, <4>3, SumSame
        <4> QED
          BY <3>3, <3>4, <4>2, <4>4
      <3> QED
        BY <2>7, <3>6, <3>7
    <2> QED
      BY <2>1, <2>5, <2>6, <2>7
  <1>4. g = [t \in DOMAIN AbiTypes |-> CountBody(g, t)]
    <2>1. DOMAIN g = DOMAIN AbiTypes /\ g = [t \in DOMAIN AbiTypes |-> g[t]]
      OBVIOUS
    <2> HIDE DEF g
    <2> QED
      BY <1>3, <2>1
  <1> HIDE DEF g
  <1>5. AbiFieldCount = [t \in DOMAIN AbiTypes |-> CountBody(AbiFieldCount, t)]
    <2>1. \A h : [t \in DOMAIN AbiTypes |-> CountBody(h, t)] =
            [t \in DOMAIN AbiTypes |->
               LET ty == AbiTypes[t]
               IN CASE ty.kind = "array"  -> ty.length * h[ty.of]
                    [] ty.kind = "struct" ->
                         SumOf([i \in DOMAIN ty.fields |-> h[ty.fields[i]]], Len(ty.fields))
                    [] OTHER -> 1]
      BY DEF CountBody
    <2>2. AbiFieldCount = CHOOSE h : h = [t \in DOMAIN AbiTypes |-> CountBody(h, t)]
      BY <2>1 DEF AbiFieldCount
    <2> QED
      BY <1>4, <2>2
  <1> DEFINE S == {m \in Nat : \A t \in 1..m : AbiFieldCount[t] = g[t]}
  <1>6. 0 \in S
    OBVIOUS
  <1> HIDE DEF n
  <1>7. ASSUME NEW m \in 0..n-1, m \in S PROVE m + 1 \in S
    <2> DEFINE t == m + 1
    <2>1. t \in DOMAIN AbiTypes /\ \A p \in 1..t-1 : AbiFieldCount[p] = g[p]
      BY <1>1, <1>7
    <2> HIDE DEF t
    <2>2. CountBody(AbiFieldCount, t) = CountBody(g, t)
      BY <2>1, CountLocal
    <2>3. AbiFieldCount[t] = CountBody(AbiFieldCount, t)
      BY <1>5, <2>1
    <2>4. AbiFieldCount[t] = g[t]
      BY <1>3, <2>1, <2>2, <2>3
    <2> QED
      BY <1>7, <2>4 DEF t
  <1>8. \A m \in 0..n : m \in S
    <2> HIDE DEF S
    <2> QED
      BY <1>1, <1>6, <1>7, InductTo
  <1>9. \A t \in 1..n : AbiFieldCount[t] = g[t]
    <2>1. n \in S
      <3> HIDE DEF S
      <3> QED
        BY <1>1, <1>8
    <2> QED
      BY <2>1
  <1> QED
    BY <1>1, <1>2, <1>9

\* A way of no step, and of one.
LEMMA FollowIs ==
  /\ \A v : Follow(v, <<>>) = v
  /\ \A v, i : Follow(v, <<i>>) = v[i]
  <1>1. ASSUME NEW v PROVE Follow(v, <<>>) = v
    <2> DEFINE path == <<>>
               part == CHOOSE p : p = [n \in 0..Len(path) |->
                                         IF n = 0 THEN v ELSE p[n - 1][path[n]]]
               q == [n \in 0..0 |-> v]
    <2>1. Len(path) = 0 /\ \A n \in 0..0 : n = 0
      OBVIOUS
    <2>2. q = [n \in 0..Len(path) |-> IF n = 0 THEN v ELSE q[n - 1][path[n]]]
      BY <2>1
    <2> HIDE DEF q
    <2>3. part = [n \in 0..Len(path) |-> IF n = 0 THEN v ELSE part[n - 1][path[n]]]
      BY <2>2
    <2>4. Follow(v, path) = part[Len(path)]
      BY DEF Follow
    <2> HIDE DEF part, path
    <2>5. part[0] = v
      <3>1. 0 \in 0..Len(path)
        BY <2>1
      <3> QED
        BY <2>3, <3>1
    <2> QED
      BY <2>1, <2>4, <2>5 DEF path
  <1>2. ASSUME NEW v, NEW i PROVE Follow(v, <<i>>) = v[i]
    <2> DEFINE path == <<i>>
               part == CHOOSE p : p = [n \in 0..Len(path) |->
                                         IF n = 0 THEN v ELSE p[n - 1][path[n]]]
               q == [n \in 0..1 |-> IF n = 0 THEN v ELSE v[i]]
    <2>1. Len(path) = 1 /\ path[1] = i
      OBVIOUS
    <2> HIDE DEF path
    <2>2. q = [n \in 0..Len(path) |-> IF n = 0 THEN v ELSE q[n - 1][path[n]]]
      <3>1. \A n \in 0..1 : q[n] = IF n = 0 THEN v ELSE q[n - 1][path[n]]
        <4>1. q[0] = v /\ q[1] = v[i]
          OBVIOUS
        <4> HIDE DEF q
        <4>2. \A n \in 0..1 : n = 0 \/ (n = 1 /\ n - 1 = 0)
          OBVIOUS
        <4> QED
          BY <2>1, <4>1, <4>2
      <3>2. q = [n \in 0..1 |-> q[n]]
        OBVIOUS
      <3> HIDE DEF q
      <3> QED
        BY <2>1, <3>1, <3>2
    <2> HIDE DEF q
    <2>3. part = [n \in 0..Len(path) |-> IF n = 0 THEN v ELSE part[n - 1][path[n]]]
      BY <2>2
    <2>4. Follow(v, path) = part[Len(path)]
      BY DEF Follow
    <2> HIDE DEF part
    <2>5. part[0] = v /\ part[1] = part[0][path[1]]
      <3>1. 0 \in 0..Len(path) /\ 1 \in 0..Len(path) /\ 1 # 0 /\ 1 - 1 = 0
        BY <2>1
      <3>2. \A n \in 0..Len(path) : part[n] = IF n = 0 THEN v ELSE part[n - 1][path[n]]
        BY <2>3
      <3> QED
        BY <3>1, <3>2
    <2> QED
      BY <2>1, <2>4, <2>5 DEF path
  <1> QED
    BY <1>1, <1>2

\* What the code pushes for a value is as long as its type says.
LEMMA LeavesAre ==
  ASSUME NEW t \in DOMAIN AbiTypes, NEW v
  PROVE  /\ AbiLeaves(t, v) = [n \in 1..AbiFieldCount[t] |-> AbiLeaves(t, v)[n]]
         /\ Len(AbiLeaves(t, v)) = AbiFieldCount[t]
         /\ \A X : (\A n \in 1..AbiFieldCount[t] : AbiLeaves(t, v)[n] \in X) => AbiLeaves(t, v) \in Seq(X)
  <1>1. AbiLeaf[t] \in Seq(Leaf) /\ AbiFieldCount[t] = Len(AbiLeaf[t]) /\ AbiFieldCount[t] \in Nat
    BY LeafTyped, CountIs
  <1>2. DOMAIN AbiLeaf[t] = 1..AbiFieldCount[t]
    BY <1>1, PlacesOf
  <1>3. AbiLeaves(t, v) = [n \in 1..AbiFieldCount[t] |-> AbiLeaves(t, v)[n]]
    BY <1>2 DEF AbiLeaves
  <1> DEFINE s == AbiLeaves(t, v)
             m == AbiFieldCount[t]
  <1>4. s = [n \in 1..m |-> s[n]] /\ m \in Nat
    BY <1>1, <1>3
  <1> HIDE DEF s, m
  <1>5. Len(s) = m
    BY <1>4
  <1>6. \A X : (\A n \in 1..m : s[n] \in X) => s \in Seq(X)
    BY <1>4
  <1> QED
    BY <1>3, <1>5, <1>6 DEF s, m

\* Offsets are where the leaves of a list of values start.
LEMMA OffsetIs ==
  ASSUME NEW ts \in Seq(DOMAIN AbiTypes), NEW X, NEW seqs \in [1..Len(ts) -> Seq(X)],
         \A i \in 1..Len(ts) : Len(seqs[i]) = AbiFieldCount[ts[i]]
  PROVE  \A i \in 0..Len(ts) : Offset(ts, i) = Start(seqs, i)
  <1> SUFFICES ASSUME NEW i \in 0..Len(ts)
               PROVE  Offset(ts, i) = Start(seqs, i)
    OBVIOUS
  <1> DEFINE f == [k \in DOMAIN ts |-> AbiFieldCount[ts[k]]]
             e == [k \in DOMAIN seqs |-> Len(seqs[k])]
  <1>1. Len(ts) \in Nat /\ DOMAIN ts = 1..Len(ts) /\ DOMAIN seqs = 1..Len(ts)
    BY PlacesOf
  <1>2. i \in Nat /\ \A k \in 1..i : k \in 1..Len(ts)
    BY <1>1
  <1>3. \A k \in 1..Len(ts) : f[k] \in Int /\ f[k] = e[k]
    <2>1. ASSUME NEW k \in 1..Len(ts) PROVE f[k] \in Int /\ f[k] = e[k]
      <3>1. f[k] = AbiFieldCount[ts[k]] /\ e[k] = Len(seqs[k]) /\ ts[k] \in DOMAIN AbiTypes
        BY <1>1
      <3>2. AbiFieldCount[ts[k]] \in Nat
        BY <3>1, CountIs
      <3> QED
        BY <3>1, <3>2
    <2> QED
      BY <2>1
  <1>4. Offset(ts, i) = SumOf(f, i) /\ Start(seqs, i) = SumOf(e, i)
    BY DEF Offset, Start
  <1> HIDE DEF f, e
  <1>5. SumOf(f, i) = SumOf(e, i)
    BY <1>2, <1>3, SumSame
  <1> QED
    BY <1>4, <1>5

\* Lists of leaves, one of each value.
LEMMA LeavesOfAll ==
  ASSUME NEW ts \in Seq(DOMAIN AbiTypes), NEW vs
  PROVE  LET seqs == [i \in 1..Len(ts) |-> AbiLeaves(ts[i], vs[i])]
             X    == UNION {{AbiLeaves(ts[i], vs[i])[n] : n \in 1..AbiFieldCount[ts[i]]} : i \in 1..Len(ts)}
         IN /\ seqs \in [1..Len(ts) -> Seq(X)]
            /\ \A i \in 1..Len(ts) : Len(seqs[i]) = AbiFieldCount[ts[i]]
            /\ \A i \in 0..Len(ts) : Offset(ts, i) = Start(seqs, i) /\ Offset(ts, i) \in Nat
            /\ \A i \in 1..Len(ts) : Offset(ts, i) = Offset(ts, i - 1) + AbiFieldCount[ts[i]]
            /\ \A i \in 0..Len(ts) : Offset(ts, i) <= Offset(ts, Len(ts))
            /\ Len(FlattenSeq(seqs)) = Offset(ts, Len(ts))
            /\ \A i \in 1..Len(ts) :
                 SubSeq(FlattenSeq(seqs), Offset(ts, i - 1) + 1, Offset(ts, i)) = AbiLeaves(ts[i], vs[i])
  <1> DEFINE m == Len(ts)
             seqs == [i \in 1..m |-> AbiLeaves(ts[i], vs[i])]
             X == UNION {{AbiLeaves(ts[i], vs[i])[n] : n \in 1..AbiFieldCount[ts[i]]} : i \in 1..m}
  <1>1. m \in Nat /\ \A i \in 1..m : ts[i] \in DOMAIN AbiTypes
    BY PlacesOf
  <1>2. ASSUME NEW i \in 1..m
        PROVE  /\ AbiLeaves(ts[i], vs[i]) \in Seq(X)
               /\ Len(AbiLeaves(ts[i], vs[i])) = AbiFieldCount[ts[i]]
    <2>1. ts[i] \in DOMAIN AbiTypes
      BY <1>1
    <2>2. \A n \in 1..AbiFieldCount[ts[i]] : AbiLeaves(ts[i], vs[i])[n] \in X
      OBVIOUS
    <2> HIDE DEF X
    <2> QED
      BY <2>1, <2>2, LeavesAre
  <1> HIDE DEF X
  <1>3. seqs \in [1..m -> Seq(X)] /\ \A i \in 1..m : Len(seqs[i]) = AbiFieldCount[ts[i]]
                                                   /\ seqs[i] = AbiLeaves(ts[i], vs[i])
    BY <1>2
  <1> HIDE DEF seqs
  <1>4. \A i \in 0..m : Offset(ts, i) = Start(seqs, i)
    BY <1>3, OffsetIs
  <1> HIDE DEF m
  <1>5. /\ \A i \in 0..m : Start(seqs, i) \in Nat
        /\ \A i \in 0..m-1 : Start(seqs, i + 1) = Start(seqs, i) + Len(seqs[i + 1])
    BY <1>1, <1>3, StartIs
  <1>6. /\ Len(FlattenSeq(seqs)) = Start(seqs, m)
        /\ \A i \in 1..m : SubSeq(FlattenSeq(seqs), Start(seqs, i - 1) + 1, Start(seqs, i)) = seqs[i]
        /\ \A i \in 0..m : Start(seqs, i) <= Start(seqs, m)
    BY <1>1, <1>3, FlatAt
  <1>7. ASSUME NEW i \in 1..m
        PROVE  /\ Offset(ts, i) = Offset(ts, i - 1) + AbiFieldCount[ts[i]]
               /\ SubSeq(FlattenSeq(seqs), Offset(ts, i - 1) + 1, Offset(ts, i)) = AbiLeaves(ts[i], vs[i])
    <2>1. i \in 0..m /\ i - 1 \in 0..m-1 /\ i - 1 \in 0..m /\ (i - 1) + 1 = i
      BY <1>1
    <2>2. Start(seqs, i) = Start(seqs, i - 1) + Len(seqs[i])
      BY <1>5, <2>1
    <2> QED
      BY <1>3, <1>4, <1>6, <2>1, <2>2
  <1>8. Offset(ts, m) = Start(seqs, m)
    BY <1>1, <1>4
  <1> QED
    BY <1>3, <1>4, <1>5, <1>6, <1>7, <1>8 DEF m, seqs, X

\* The parameters of an ABI.
LEMMA ParametersAre ==
  /\ Len(Abi) \in Nat /\ DOMAIN Abi = 1..Len(Abi)
  /\ \A j \in DOMAIN Abi : Abi[j].type \in DOMAIN AbiTypes /\ Abi[j].public \in BOOLEAN
  <1> DEFINE D == DOMAIN AbiTypes
             R == [type : D, public : BOOLEAN]
  <1>1. Abi \in Seq(R)
    BY AbiAssumption
  <1> HIDE DEF D
  <1>2. \A r \in R : r.type \in D /\ r.public \in BOOLEAN
    OBVIOUS
  <1> HIDE DEF R
  <1>3. Len(Abi) \in Nat /\ DOMAIN Abi = 1..Len(Abi) /\ \A j \in 1..Len(Abi) : Abi[j] \in R
    BY <1>1, PlacesOf
  <1> QED
    BY <1>2, <1>3 DEF D

\* The solver finds each parameter at its slot (witness_decl).
LEMMA SolverSlots ==
  ASSUME NEW witness, NEW inputs, NEW i \in DOMAIN Abi
  PROVE  LET leaves == AbiLeaves(Abi[i].type, IF Abi[i].public THEN inputs[Rank(i)] ELSE witness[Rank(i)])
             first  == Offset([j \in DOMAIN Abi |-> Abi[j].type], i - 1)
         IN SubSeq(WitnessFields(witness, inputs), first + 1, first + Len(leaves)) = leaves
  <1> DEFINE ts == [j \in DOMAIN Abi |-> Abi[j].type]
             vs == [j \in DOMAIN Abi |-> IF Abi[j].public THEN inputs[Rank(j)] ELSE witness[Rank(j)]]
             flat == FlattenSeq([j \in 1..Len(ts) |-> AbiLeaves(ts[j], vs[j])])
  <1>1. Len(Abi) \in Nat /\ DOMAIN Abi = 1..Len(Abi) /\ \A j \in DOMAIN Abi : Abi[j].type \in DOMAIN AbiTypes
    BY ParametersAre
  <1>2. ts \in Seq(DOMAIN AbiTypes) /\ Len(ts) = Len(Abi) /\ ts[i] = Abi[i].type
    BY <1>1
  <1>3. [j \in DOMAIN Abi |->
           AbiLeaves(Abi[j].type, IF Abi[j].public THEN inputs[Rank(j)] ELSE witness[Rank(j)])]
          = [j \in 1..Len(ts) |-> AbiLeaves(ts[j], vs[j])]
    <2>1. \A j \in DOMAIN Abi :
            AbiLeaves(Abi[j].type, IF Abi[j].public THEN inputs[Rank(j)] ELSE witness[Rank(j)])
              = AbiLeaves(ts[j], vs[j])
      OBVIOUS
    <2> HIDE DEF ts, vs
    <2> QED
      BY <1>1, <1>2, <2>1
  <1>4. WitnessFields(witness, inputs) = flat
    BY <1>3 DEF WitnessFields
  <1>5. vs[i] = IF Abi[i].public THEN inputs[Rank(i)] ELSE witness[Rank(i)]
    OBVIOUS
  <1>6. i \in 1..Len(ts)
    BY <1>1, <1>2
  <1> HIDE DEF ts, vs
  <1>7. /\ SubSeq(flat, Offset(ts, i - 1) + 1, Offset(ts, i)) = AbiLeaves(ts[i], vs[i])
        /\ Offset(ts, i) = Offset(ts, i - 1) + AbiFieldCount[ts[i]]
    BY <1>2, <1>6, LeavesOfAll
  <1> HIDE DEF flat
  <1>8. Len(AbiLeaves(ts[i], vs[i])) = AbiFieldCount[ts[i]]
    BY <1>1, <1>2, LeavesAre
  <1> QED
    BY <1>2, <1>4, <1>5, <1>7, <1>8 DEF ts

\* The types of the public parameters.
LEMMA PublicIs ==
  Public \in Seq(DOMAIN AbiTypes) /\ \A i \in DOMAIN Public : IsPublicType(Public[i])
  <1> DEFINE n == Len(Abi)
             X == {t \in DOMAIN AbiTypes : IsPublicType(t)}
             more(s, k) == IF Abi[k].public THEN Append(s, Abi[k].type) ELSE s
             IsKept(f, m) == \A k \in 0..m : f[k] = IF k = 0 THEN <<>> ELSE more(f[k - 1], k)
             kept == CHOOSE f : f = [k \in 0..n |-> IF k = 0 THEN <<>> ELSE more(f[k - 1], k)]
             S == {m \in Nat : \E f \in [0..m -> Seq(X)] : IsKept(f, m)}
  <1>1. n \in Nat /\ \A k \in 1..n : Abi[k].public => Abi[k].type \in X
    BY ParametersAre, WireAssumption
  <1>2. ASSUME NEW k \in 1..n, NEW s \in Seq(X) PROVE more(s, k) \in Seq(X)
    <2>1. CASE Abi[k].public
      <3>1. Abi[k].type \in X
        BY <1>1, <2>1
      <3> HIDE DEF X
      <3> QED
        BY <2>1, <3>1
    <2>2. CASE ~Abi[k].public
      BY <2>2
    <2> QED
      BY <2>1, <2>2
  <1> HIDE DEF X, more, n
  <1>3. 0 \in S
    <2> DEFINE f == [k \in 0..0 |-> <<>>]
    <2>1. f \in [0..0 -> Seq(X)] /\ IsKept(f, 0)
      OBVIOUS
    <2> QED
      BY <2>1
  <1>4. ASSUME NEW m \in 0..n-1, m \in S PROVE m + 1 \in S
    <2>1. PICK f \in [0..m -> Seq(X)] : IsKept(f, m)
      BY <1>4
    <2> DEFINE h == [k \in 0..m+1 |-> IF k = m + 1 THEN more(f[m], m + 1) ELSE f[k]]
    <2>2. more(f[m], m + 1) \in Seq(X)
      <3>1. f[m] \in Seq(X) /\ m + 1 \in 1..n
        BY <1>1, <2>1
      <3> QED
        BY <1>2, <3>1
    <2>3. h \in [0..m+1 -> Seq(X)]
      BY <2>1, <2>2
    <2>4. IsKept(h, m + 1)
      <3>1. ASSUME NEW k \in 0..m+1 PROVE h[k] = IF k = 0 THEN <<>> ELSE more(h[k - 1], k)
        <4>1. CASE k = m + 1
          <5>1. h[m + 1] = more(f[m], m + 1) /\ h[m] = f[m] /\ k - 1 = m /\ k # 0
            BY <4>1
          <5> HIDE DEF h
          <5> QED
            BY <4>1, <5>1
        <4>2. CASE k # m + 1
          <5>1. k \in 0..m /\ h[k] = f[k] /\ (k # 0 => h[k - 1] = f[k - 1])
            BY <4>2
          <5>2. f[k] = IF k = 0 THEN <<>> ELSE more(f[k - 1], k)
            BY <2>1, <5>1
          <5> HIDE DEF h
          <5> QED
            BY <5>1, <5>2
        <4> QED
          BY <4>1, <4>2
      <3> HIDE DEF h
      <3> QED
        BY <3>1
    <2> HIDE DEF h, IsKept
    <2> QED
      BY <2>3, <2>4
  <1>5. \A m \in 0..n : m \in S
    <2> HIDE DEF S
    <2> QED
      BY <1>1, <1>3, <1>4, InductTo
  <1>6. PICK f \in [0..n -> Seq(X)] : IsKept(f, n)
    <2>1. n \in S
      <3> HIDE DEF S
      <3> QED
        BY <1>1, <1>5
    <2> HIDE DEF kept
    <2> QED
      BY <2>1
  <1>7. f = [k \in 0..n |-> IF k = 0 THEN <<>> ELSE more(f[k - 1], k)]
    BY <1>6
  <1>8. kept = [k \in 0..n |-> IF k = 0 THEN <<>> ELSE more(kept[k - 1], k)]
    BY <1>7
  <1>9. Public = kept[n]
    BY DEF Public, more, n
  <1> HIDE DEF kept
  <1>10. \A k \in 0..n : kept[k] = IF k = 0 THEN <<>> ELSE more(kept[k - 1], k)
    BY <1>8
  <1> DEFINE T == {m \in Nat : kept[m] = f[m]}
  <1>11. 0 \in T
    <2>1. 0 \in 0..n
      BY <1>1
    <2> QED
      BY <1>6, <1>10, <2>1
  <1>12. ASSUME NEW m \in 0..n-1, m \in T PROVE m + 1 \in T
    <2>1. m + 1 \in 0..n /\ m + 1 # 0 /\ (m + 1) - 1 = m
      BY <1>1
    <2>2. f[m + 1] = more(f[m], m + 1)
      BY <1>6, <2>1
    <2>3. kept[m + 1] = more(kept[m], m + 1)
      BY <1>10, <2>1
    <2> QED
      BY <1>12, <2>2, <2>3
  <1>13. \A m \in 0..n : m \in T
    <2> HIDE DEF T
    <2> QED
      BY <1>1, <1>11, <1>12, InductTo
  <1>14. Public \in Seq(X)
    <2>1. n \in 0..n
      BY <1>1
    <2> QED
      BY <1>6, <1>9, <1>13, <2>1
  <1>15. \A i \in DOMAIN Public : Public[i] \in X
    BY <1>14, PlacesOf
  <1>16. Public \in Seq(DOMAIN AbiTypes)
    <2>1. \A x \in X : x \in DOMAIN AbiTypes
      BY DEF X
    <2> QED
      BY <1>14, <2>1
  <1> QED
    BY <1>15, <1>16 DEF X

\* The leaf of a value that is one field.
Only == <<[path |-> <<>>, boolean |-> FALSE]>>

\* A field or an integer is one leaf, at the empty path, that is not a boolean.
LEMMA PlainLeaf ==
  ASSUME NEW t \in DOMAIN AbiTypes, AbiTypes[t].kind \in {"field", "integer"}
  PROVE  AbiLeaf[t] = Only
  <1>1. AbiLeaf[t] = LeafBody(AbiLeaf, t) /\ AbiTypes[t].kind \in Plain
    BY AbiLeafIs DEF Plain
  <1>2. AbiLeaf[t] = <<[path |-> <<>>, boolean |-> AbiTypes[t].kind = "boolean"]>>
    BY <1>1, LeafKinds
  <1>3. (AbiTypes[t].kind = "boolean") = FALSE
    OBVIOUS
  <1> QED
    BY <1>2, <1>3 DEF Only

\* The leaves of an array of such values.
LEMMA ArrayLeaves ==
  ASSUME NEW t \in DOMAIN AbiTypes, AbiTypes[t].kind = "array",
         AbiTypes[AbiTypes[t].of].kind \in {"field", "integer"}
  PROVE  AbiLeaf[t] = [i \in 1..AbiTypes[t].length |-> [path |-> <<i>>, boolean |-> FALSE]]
  <1> DEFINE n == AbiTypes[t].length
             p == AbiTypes[t].of
             q == [i \in 1..n |-> PartLeaves(AbiLeaf, i, p)]
             one(i) == [path |-> <<i>>, boolean |-> FALSE]
             u == [i \in 1..n |-> one(i)]
  <1>1. n \in Nat /\ p \in 1..t-1
    BY TypeIs
  <1>2. p \in DOMAIN AbiTypes
    <2>1. DOMAIN AbiTypes = 1..Len(AbiTypes)
      BY TypeIs
    <2> QED
      BY <1>1, <2>1
  <1>3. AbiLeaf[p] = Only
    BY <1>2, PlainLeaf
  <1>4. AbiLeaf[t] = FlattenSeq(q)
    BY AbiLeafIs, LeafKinds
  <1> HIDE DEF n, p
  <1>5. \A i \in 1..n : q[i] = <<one(i)>>
    <2>1. ASSUME NEW i \in 1..n PROVE q[i] = <<one(i)>>
      <3> DEFINE o == Only[1]
      <3>1. q[i] = [k \in DOMAIN Only |-> [path |-> <<i>> \o Only[k].path, boolean |-> Only[k].boolean]]
        BY <1>3 DEF PartLeaves
      <3>2. DOMAIN Only = 1..1 /\ Only[1].path = <<>> /\ Only[1].boolean = FALSE
        BY DEF Only
      <3>3. <<i>> \o <<>> = <<i>>
        OBVIOUS
      <3>4. q[i] = [k \in 1..1 |-> one(i)]
        BY <3>1, <3>2, <3>3
      <3> HIDE DEF one
      <3>5. [k \in 1..1 |-> one(i)] = <<one(i)>>
        OBVIOUS
      <3> QED
        BY <3>4, <3>5
    <2> QED
      BY <2>1
  <1>6. \A i \in 1..n : one(i) \in Leaf
    BY <1>1 DEF Leaf
  <1> HIDE DEF one
  <1>7. u \in Seq(Leaf) /\ Len(u) = n /\ \A i \in 1..n : u[i] = one(i)
    BY <1>1, <1>6
  <1>8. q \in [1..n -> Seq(Leaf)] /\ \A i \in 1..n : Len(q[i]) = 1
    <2>1. \A i \in 1..n : <<one(i)>> \in Seq(Leaf) /\ Len(<<one(i)>>) = 1
      BY <1>6
    <2>2. q = [i \in 1..n |-> q[i]]
      OBVIOUS
    <2> HIDE DEF q
    <2> QED
      BY <1>5, <2>1, <2>2
  <1> HIDE DEF q, u
  <1>9. \A i \in 0..n : Start(q, i) = i
    <2> DEFINE e == [k \in DOMAIN q |-> Len(q[k])]
    <2>1. \A k \in 1..n : e[k] = 1
      BY <1>8
    <2>2. \A i : Start(q, i) = SumOf(e, i)
      BY DEF Start
    <2> HIDE DEF e
    <2>3. ASSUME NEW i \in 0..n PROVE SumOf(e, i) = i
      <3>1. i \in Nat /\ \A k \in 1..i : e[k] = 1
        BY <1>1, <2>1
      <3> DEFINE c == 1
      <3>2. c \in Int /\ \A k \in 1..i : e[k] = c
        BY <3>1
      <3> HIDE DEF c
      <3>3. SumOf(e, i) = i * c
        BY <3>1, <3>2, SumEven
      <3> QED
        BY <3>1, <3>3 DEF c
    <2> QED
      BY <2>2, <2>3
  <1>10. Len(u) = Start(q, n)
    BY <1>1, <1>7, <1>9
  <1>11. ASSUME NEW i \in 1..n PROVE SubSeq(u, Start(q, i - 1) + 1, Start(q, i)) = q[i]
    <2>1. i \in 0..n /\ i - 1 \in 0..n /\ (i - 1) + 1 = i
      BY <1>1
    <2>2. Start(q, i - 1) + 1 = i /\ Start(q, i) = i
      BY <1>9, <2>1
    <2>3. SubSeq(u, i, i) = <<u[i]>>
      <3> DEFINE a == i - 1
                 s == SubSeq(u, a + 1, i)
      <3>1. u \in Seq(Leaf)
        BY <1>7
      <3>2. a \in Nat /\ i \in Nat /\ a <= i /\ i <= Len(u) /\ i - a = 1 /\ a + 1 = i
        BY <1>1, <1>7
      <3> HIDE DEF a
      <3>3. s \in Seq(Leaf) /\ Len(s) = 1 /\ s[1] = u[i]
        <4>1. s \in Seq(Leaf) /\ Len(s) = i - a /\ \A j \in 1..i-a : s[j] = u[a + j]
          BY <3>1, <3>2, Cut
        <4> HIDE DEF s
        <4>2. 1 \in 1..i-a
          BY <3>2
        <4> QED
          BY <3>2, <4>1, <4>2
      <3>4. SubSeq(u, i, i) = s
        BY <3>2
      <3> HIDE DEF s
      <3> QED
        BY <3>3, <3>4
    <2> QED
      BY <1>5, <1>7, <2>2, <2>3
  <1>12. FlattenSeq(q) = u
    BY <1>1, <1>7, <1>8, <1>10, <1>11, FlatOnly
  <1> QED
    BY <1>4, <1>12 DEF u, n, one

-----------------------------------------------------------------------------
(***************************************************************************)
(* The leaves of public values.                                            *)
(***************************************************************************)

\* The leaves of a row of n fields, and the types whose values are one field.
Row(n) == [i \in 1..n |-> [path |-> <<i>>, boolean |-> FALSE]]

Single(ty) == \/ ty.kind \in {"field", "integer"}
              \/ ty.kind = "struct" /\ ty.path = EthAddress

Columns(ty) == IF ty.kind = "array" THEN ty.length ELSE 3

\* A public type is one of five.
LEMMA PublicShape ==
  ASSUME NEW t \in DOMAIN AbiTypes, IsPublicType(t)
  PROVE  LET ty == AbiTypes[t]
         IN /\ ty.kind \in {"field", "integer", "array", "struct"}
            /\ ty.kind = "struct" => ty.path \in {EthAddress, U256}
            /\ ty.kind = "integer" => ty.bytes \in 1..Half
            /\ Columns(ty) \in Nat
            /\ AbiLeaf[t] = IF Single(ty) THEN Only ELSE Row(Columns(ty))
  <1> DEFINE ty == AbiTypes[t]
             p == ty.fields[1]
  <1>1. /\ ty.kind = "integer" => ty.bytes \in 1..Half
        /\ ty.kind = "array" => ty.of \in 1..t-1 /\ ty.length \in Nat
        /\ ty.kind = "struct" => ty.fields \in Seq(1..t-1)
    BY TypeIs
  <1>2. AbiLeaf[t] = LeafBody(AbiLeaf, t)
    BY AbiLeafIs
  <1>3. CASE ty.kind \in {"field", "integer"}
    <2>1. AbiLeaf[t] = Only /\ Single(ty)
      BY <1>3, PlainLeaf DEF Single
    <2>2. Columns(ty) = 3 /\ ty.kind # "struct"
      BY <1>3 DEF Columns
    <2> QED
      BY <1>1, <1>3, <2>1, <2>2
  <1>4. CASE ty.kind = "array"
    <2>1. AbiTypes[ty.of].kind = "field"
      BY <1>4 DEF IsPublicType
    <2>2. AbiLeaf[t] = Row(ty.length)
      BY <1>4, <2>1, ArrayLeaves DEF Row
    <2>3. ~Single(ty) /\ Columns(ty) = ty.length
      BY <1>4 DEF Single, Columns
    <2> QED
      BY <1>1, <1>4, <2>2, <2>3
  <1>5. CASE ty.kind = "struct"
    <2>1. /\ Len(ty.fields) = 1 /\ ty.path \in {EthAddress, U256}
          /\ ty.path = EthAddress => AbiTypes[p].kind = "field"
          /\ ty.path = U256 => /\ AbiTypes[p].kind = "array"
                               /\ AbiTypes[p].length = 3
                               /\ AbiTypes[AbiTypes[p].of] = [kind |-> "integer", bytes |-> Half]
      BY <1>5 DEF IsPublicType, IsNewtype, EthAddress, U256
    <2>2. p \in DOMAIN AbiTypes
      <3>1. DOMAIN AbiTypes = 1..Len(AbiTypes) /\ Len(AbiTypes) \in Nat
        BY TypeIs
      <3>2. p \in 1..t-1
        <4>1. ty.fields \in Seq(1..t-1) /\ 1 \in 1..Len(ty.fields)
          BY <1>1, <1>5, <2>1
        <4> HIDE DEF ty
        <4> QED
          BY <4>1, PlacesOf
      <3> QED
        BY <3>1, <3>2
    <2>3. AbiLeaf[t] = AbiLeaf[p]
      BY <1>2, <1>5, <2>1, LeafKinds
    <2>4. CASE ty.path = EthAddress
      <3>1. AbiLeaf[p] = Only
        BY <2>1, <2>2, <2>4, PlainLeaf
      <3>2. Single(ty) /\ Columns(ty) = 3
        BY <1>5, <2>4 DEF Single, Columns
      <3> QED
        BY <1>5, <2>1, <2>3, <3>1, <3>2
    <2>5. CASE ty.path = U256
      <3>1. AbiTypes[AbiTypes[p].of].kind = "integer"
        BY <2>1, <2>5
      <3>2. AbiLeaf[p] = Row(3)
        BY <2>1, <2>2, <2>5, <3>1, ArrayLeaves DEF Row
      <3>3. ~Single(ty) /\ Columns(ty) = 3
        BY <1>5, <2>5 DEF Single, Columns, EthAddress, U256
      <3> QED
        BY <1>5, <2>1, <2>3, <3>2, <3>3
    <2> QED
      BY <2>1, <2>4, <2>5
  <1> QED
    BY <1>3, <1>4, <1>5 DEF IsPublicType

\* What the generated code pushes for a public value: the value, or its parts.
LEMMA PublicLeaves ==
  ASSUME NEW t \in DOMAIN AbiTypes, IsPublicType(t), NEW v
  PROVE  LET ty == AbiTypes[t]
         IN /\ Single(ty) => /\ AbiFieldCount[t] = 1
                             /\ AbiLeaves(t, v) = [n \in 1..1 |-> v]
            /\ ~Single(ty) => /\ AbiFieldCount[t] = Columns(ty)
                              /\ AbiLeaves(t, v) = [n \in 1..Columns(ty) |-> v[n]]
  <1> DEFINE ty == AbiTypes[t]
             m == Columns(ty)
  <1>1. m \in Nat /\ AbiLeaf[t] = IF Single(ty) THEN Only ELSE Row(m)
    BY PublicShape
  <1>2. AbiFieldCount[t] = Len(AbiLeaf[t])
    BY CountIs
  <1>3. AbiLeaves(t, v) = [n \in DOMAIN AbiLeaf[t] |->
                             LET leaf == Follow(v, AbiLeaf[t][n].path)
                             IN IF AbiLeaf[t][n].boolean THEN IF leaf THEN 1 ELSE 0 ELSE leaf]
    BY DEF AbiLeaves
  <1>4. CASE Single(ty)
    <2>1. /\ Len(Only) = 1 /\ DOMAIN Only = 1..1
          /\ \A n \in 1..1 : Only[n].path = <<>> /\ Only[n].boolean = FALSE
      BY DEF Only
    <2>2. AbiLeaves(t, v) = [n \in 1..1 |-> Follow(v, <<>>)]
      BY <1>1, <1>3, <1>4, <2>1
    <2> QED
      BY <1>1, <1>2, <1>4, <2>1, <2>2, FollowIs
  <1>5. CASE ~Single(ty)
    <2> HIDE DEF m
    <2>1. /\ Len(Row(m)) = m /\ DOMAIN Row(m) = 1..m
          /\ \A n \in 1..m : Row(m)[n].path = <<n>> /\ Row(m)[n].boolean = FALSE
      BY <1>1 DEF Row
    <2>2. AbiLeaves(t, v) = [n \in 1..m |-> Follow(v, <<n>>)]
      BY <1>1, <1>3, <1>5, <2>1
    <2>3. [n \in 1..m |-> Follow(v, <<n>>)] = [n \in 1..m |-> v[n]]
      BY FollowIs
    <2> QED
      BY <1>1, <1>2, <1>5, <2>1, <2>2, <2>3 DEF m
  <1> QED
    BY <1>4, <1>5

\* A value's type tells how many fields it is, and that they are fields.
LEMMA CircuitLeaves ==
  ASSUME NEW t \in DOMAIN AbiTypes, IsPublicType(t), NEW c \in CircuitValues(AbiTypes[t])
  PROVE  LET ty == AbiTypes[t]
         IN /\ AbiFieldCount[t] \in Nat
            /\ AbiLeaves(t, c) \in [1..AbiFieldCount[t] -> Fields]
            /\ ~Single(ty) => AbiLeaves(t, c) = c
  <1> DEFINE ty == AbiTypes[t]
             m == Columns(ty)
  <1>1. /\ ty.kind \in {"field", "integer", "array", "struct"}
        /\ ty.kind = "struct" => ty.path \in {EthAddress, U256}
        /\ ty.kind = "integer" => ty.bytes \in 1..Half
        /\ m \in Nat
    BY PublicShape
  <1>2. /\ Single(ty) => AbiFieldCount[t] = 1 /\ AbiLeaves(t, c) = [n \in 1..1 |-> c]
        /\ ~Single(ty) => AbiFieldCount[t] = m /\ AbiLeaves(t, c) = [n \in 1..m |-> c[n]]
    BY PublicLeaves
  <1>3. AbiFieldCount[t] \in Nat
    BY CountIs
  <1>4. /\ Half \in Nat /\ Power(Half) < Modulus /\ Modulus \in Nat
        /\ \A w \in 0..Half : Power(w) \in Nat /\ Power(w) <= Power(Half)
    <2>1. /\ Half \in Nat /\ Power(Half) < Modulus /\ Modulus \in Nat
          /\ \A w \in Nat : Power(w) \in Nat
      BY HalfIs, Widths, CodecAssumption, PowerMore
    <2>2. \A w \in 0..Half : w \in Nat /\ w <= Half
      BY <2>1
    <2> QED
      BY <2>1, <2>2, PowerGrows
  <1>5. CASE Single(ty)
    <2>1. c \in Fields
      <3>1. CASE ty.kind = "field"
        BY <3>1 DEF CircuitValues
      <3>2. CASE ty.kind = "integer"
        <4>1. c \in 0..Power(ty.bytes)-1
          BY <3>2 DEF CircuitValues
        <4>2. Power(ty.bytes) \in Nat /\ Power(ty.bytes) <= Power(Half)
          BY <1>1, <1>4, <3>2
        <4>3. Power(Half) \in Nat
          BY <1>4
        <4> QED
          BY <1>4, <4>1, <4>2, <4>3 DEF Fields
      <3>3. CASE ty.kind = "struct" /\ ty.path = EthAddress
        BY <3>3 DEF CircuitValues, EthAddress, U256
      <3> QED
        BY <1>5, <3>1, <3>2, <3>3 DEF Single
    <2> QED
      BY <1>2, <1>3, <1>5, <2>1
  <1>6. CASE ~Single(ty)
    <2>1. c \in [1..m -> Fields]
      <3>1. CASE ty.kind = "array"
        BY <3>1 DEF CircuitValues, Columns
      <3>2. CASE ty.kind = "struct"
        <4>1. ty.path = U256 /\ m = 3
          BY <1>1, <1>6, <3>2 DEF Single, Columns
        <4>2. c \in [1..3 -> 0..Power(Half)-1]
          BY <3>2, <4>1 DEF CircuitValues, EthAddress, U256
        <4>3. Power(Half) \in Nat
          BY <1>4
        <4>4. \A x \in 0..Power(Half)-1 : x \in Fields
          BY <1>4, <4>3 DEF Fields
        <4> QED
          BY <4>1, <4>2, <4>4
      <3> QED
        BY <1>1, <1>6, <3>1, <3>2 DEF Single
    <2> HIDE DEF m
    <2> QED
      BY <1>2, <1>3, <1>6, <2>1
  <1> QED
    BY <1>3, <1>5, <1>6

-----------------------------------------------------------------------------
(***************************************************************************)
(* One public input there and back.                                        *)
(***************************************************************************)

IsResult(r) == r = Err \/ r = Ok(r.value)

\* What a collected sequence of results is.
LEMMA CollectIs ==
  ASSUME NEW r
  PROVE  /\ IsResult(Collect(r))
         /\ Collect(r).ok <=> \A i \in DOMAIN r : r[i].ok
         /\ Collect(r).ok => Collect(r) = Ok([i \in DOMAIN r |-> r[i].value])
  <1>1. CASE \A i \in DOMAIN r : r[i].ok
    <2> DEFINE v == [i \in DOMAIN r |-> r[i].value]
    <2>1. Collect(r) = Ok(v)
      BY <1>1 DEF Collect
    <2> HIDE DEF v
    <2>2. Ok(v).ok = TRUE /\ Ok(v).value = v
      BY ResultIs
    <2> QED
      BY <1>1, <2>1, <2>2 DEF IsResult, v
  <1>2. CASE ~\A i \in DOMAIN r : r[i].ok
    <2>1. Collect(r) = Err
      BY <1>2 DEF Collect
    <2> QED
      BY <1>2, <2>1, ResultIs DEF IsResult
  <1> QED
    BY <1>1, <1>2

\* A fallible step after another.
LEMMA ResultKinds ==
  ASSUME NEW r, IsResult(r)
  PROVE  /\ r.ok => r = Ok(r.value) /\ r.ok = TRUE
         /\ ~r.ok => r = Err
  <1>1. CASE r = Err
    BY <1>1, ResultIs
  <1>2. CASE r = Ok(r.value)
    BY <1>2, ResultIs
  <1> QED
    BY <1>1, <1>2 DEF IsResult

\* What the typed decoder makes of the words of a value that the prover holds:
\* that value, when it has an Alloy form.
LEMMA DecodesOwn ==
  ASSUME NEW t \in DOMAIN AbiTypes, IsPublicType(t), NEW c \in CircuitValues(AbiTypes[t]),
         NEW words, words = [n \in 1..AbiFieldCount[t] |-> FieldToBytes(AbiLeaves(t, c)[n])]
  PROVE  LET ty == AbiTypes[t]
         IN /\ IsResult(CircuitToAlloy(ty, c))
            /\ DecodeInput(ty, words) = IF CircuitToAlloy(ty, c).ok THEN Ok(c) ELSE Err
  <1> DEFINE ty == AbiTypes[t]
             leaves == AbiLeaves(t, c)
             fields == [i \in DOMAIN words |-> FieldFromBytes(words[i])]
             alloy == CircuitToAlloy(ty, c)
  <1>1. /\ ty.kind \in {"field", "integer", "array", "struct"}
        /\ ty.kind = "struct" => ty.path \in {EthAddress, U256}
        /\ ty.kind = "integer" => ty.bytes \in 1..Half
        /\ Columns(ty) \in Nat
    BY PublicShape
  <1>2. /\ Single(ty) => AbiFieldCount[t] = 1 /\ leaves = [n \in 1..1 |-> c]
        /\ ~Single(ty) => AbiFieldCount[t] = Columns(ty)
    BY PublicLeaves
  <1>3. /\ AbiFieldCount[t] \in Nat /\ leaves \in [1..AbiFieldCount[t] -> Fields]
        /\ ~Single(ty) => leaves = c
    BY CircuitLeaves
  <1> HIDE DEF leaves
  <1>4. fields = leaves
    <2>1. \A n \in 1..AbiFieldCount[t] : fields[n] = FieldFromBytes(FieldToBytes(leaves[n]))
      BY DEF leaves
    <2>2. \A n \in 1..AbiFieldCount[t] : fields[n] = leaves[n]
      BY <1>3, <2>1, FieldWord
    <2>3. fields = [n \in 1..AbiFieldCount[t] |-> fields[n]]
      OBVIOUS
    <2> HIDE DEF fields
    <2> QED
      BY <1>3, <2>2, <2>3
  <1> HIDE DEF fields
  <1>5. CASE ty.kind = "field"
    <2>1. c \in Fields /\ fields[1] = c
      BY <1>2, <1>4, <1>5 DEF Single, CircuitValues
    <2>2. alloy = Ok(FieldToBytes(c))
      BY <1>5, <2>1, FieldWord DEF CircuitToAlloy
    <2>3. DecodeInput(ty, words) = Ok(c)
      BY <1>5, <2>1 DEF DecodeInput, fields
    <2> QED
      BY <2>2, <2>3, ResultIs DEF IsResult
  <1>6. CASE ty.kind = "array"
    <2>1. c \in [1..ty.length -> Fields] /\ fields = c
      BY <1>3, <1>4, <1>6 DEF Single, CircuitValues
    <2> DEFINE r == [i \in DOMAIN c |-> FieldToArray(c[i], WordBytes)]
    <2>2. alloy = Collect(r)
      BY <1>6 DEF CircuitToAlloy
    <2>3. \A i \in DOMAIN r : r[i].ok
      <3>1. ASSUME NEW i \in DOMAIN r PROVE r[i].ok
        <4>1. c[i] \in Fields /\ r[i] = FieldToArray(c[i], WordBytes)
          BY <2>1
        <4>2. r[i] = Ok(FieldToBytes(c[i]))
          BY <4>1, FieldWord
        <4> HIDE DEF r
        <4> QED
          BY <4>2, ResultIs
      <3> HIDE DEF r
      <3> QED
        BY <3>1
    <2> HIDE DEF r
    <2>4. IsResult(alloy) /\ alloy.ok
      BY <2>2, <2>3, CollectIs
    <2>5. DecodeInput(ty, words) = Ok(c)
      BY <1>6, <2>1 DEF DecodeInput, fields
    <2> QED
      BY <2>4, <2>5
  <1>7. CASE ty.kind = "integer"
    <2>1. c \in 0..Power(ty.bytes)-1 /\ fields[1] = c
      BY <1>2, <1>4, <1>7 DEF Single, CircuitValues
    <2>2. ty.bytes \in Nat /\ Power(ty.bytes) \in Nat
      <3>1. ty.bytes \in Nat
        BY <1>1, <1>7, HalfIs
      <3> QED
        BY <3>1, PowerMore
    <2>3. UintFromField(c, ty.bytes) = Ok(c)
      BY <2>1, <2>2, UintIs
    <2>4. alloy = Ok(c)
      BY <1>7 DEF CircuitToAlloy
    <2>5. DecodeInput(ty, words) = Ok(c)
      BY <1>7, <2>1, <2>3 DEF DecodeInput, fields
    <2> QED
      BY <2>4, <2>5, ResultIs DEF IsResult
  <1>8. CASE ty.kind = "struct" /\ ty.path = EthAddress
    <2>1. c \in Fields /\ fields[1] = c /\ words[1] = FieldToBytes(c) /\ DOMAIN words = 1..1
      BY <1>2, <1>3, <1>4, <1>8 DEF Single, CircuitValues, EthAddress, U256, leaves
    <2>2. FieldToBytes(c) \in Word /\ Number(FieldToBytes(c)) = c
      BY <2>1, FieldWord
    <2>3. /\ AddrBytes \in 0..WordBytes /\ WordBytes \in Nat
      BY Widths, WireAssumption
    <2>4. SubSeq(words[1], 1, WordBytes - AddrBytes) = Zeros(WordBytes - AddrBytes)
            <=> c < Power(AddrBytes)
      BY <2>1, <2>2, <2>3, TopZero DEF Word
    <2>5. alloy = FieldToArray(c, AddrBytes)
      BY <1>8 DEF CircuitToAlloy, EthAddress, U256
    <2>6. DecodeInput(ty, words) = IF c < Power(AddrBytes) THEN Ok(c) ELSE Err
      BY <1>8, <2>1, <2>4 DEF DecodeInput, fields, EthAddress, U256
    <2>7. IsResult(alloy) /\ (alloy.ok <=> c < Power(AddrBytes))
      BY <2>5, ResultIs DEF FieldToArray, IsResult
    <2> QED
      BY <2>6, <2>7
  <1>9. CASE ty.kind = "struct" /\ ty.path = U256
    <2>1. c \in [1..3 -> 0..Power(Half)-1] /\ fields = c
      BY <1>3, <1>4, <1>9 DEF Single, CircuitValues, EthAddress, U256
    <2>2. Power(Half) \in Nat
      BY HalfIs, PowerMore
    <2>3. c \in [1..3 -> Nat] /\ \A i \in 1..3 : c[i] < Power(Half)
      BY <2>1, <2>2
    <2>4. FieldsToU256(c) = FromLimbs(c)
      BY <2>3, U256Is
    <2>5. alloy = FromLimbs(c)
      BY <1>9 DEF CircuitToAlloy, EthAddress, U256
    <2>6. IsResult(FromLimbs(c))
      BY ResultIs DEF IsResult, FromLimbs
    <2>7. DecodeInput(ty, words) = IF FromLimbs(c).ok THEN Ok(c) ELSE Err
      BY <1>9, <2>1, <2>4 DEF DecodeInput, fields, Then, EthAddress, U256
    <2> QED
      BY <2>5, <2>6, <2>7
  <1> QED
    BY <1>1, <1>5, <1>6, <1>7, <1>8, <1>9

\* An Alloy value that has a circuit form has it back.
LEMMA AlloyBack ==
  ASSUME NEW t \in DOMAIN AbiTypes, IsPublicType(t), NEW v \in AlloyValues(AbiTypes[t])
  PROVE  LET ty == AbiTypes[t]
             circuit == AlloyToCircuit(ty, v)
         IN /\ IsResult(circuit)
            /\ circuit.ok => /\ circuit.value \in CircuitValues(ty)
                             /\ CircuitToAlloy(ty, circuit.value) = Ok(v)
  <1> DEFINE ty == AbiTypes[t]
             circuit == AlloyToCircuit(ty, v)
             Holds(c) == c \in CircuitValues(ty) /\ CircuitToAlloy(ty, c) = Ok(v)
  <1>1. /\ ty.kind \in {"field", "integer", "array", "struct"}
        /\ ty.kind = "struct" => ty.path \in {EthAddress, U256}
    BY PublicShape
  <1>2. ASSUME NEW w \in Word, Number(w) < Modulus
        PROVE  /\ Number(w) \in Fields
               /\ FieldToArray(Number(w), WordBytes) = Ok(w)
    <2>1. /\ IsCanonicalFieldWord(w) /\ FieldFromBytes(w) \in Fields
          /\ FieldFromBytes(w) = Number(w) /\ FieldToBytes(FieldFromBytes(w)) = w
      BY <1>2, CanonicalWord
    <2> QED
      BY <2>1, FieldWord
  <1>3. \A w \in Word : /\ IsResult(FieldFromBytesCanonical(w))
                        /\ FieldFromBytesCanonical(w).ok =>
                             Number(w) < Modulus /\ FieldFromBytesCanonical(w).value = Number(w)
    BY ResultIs DEF FieldFromBytesCanonical, IsResult
  <1>4. CASE ty.kind = "field"
    <2>1. v \in Word
      BY <1>4 DEF AlloyValues
    <2>2. circuit = FieldFromBytesCanonical(v)
      BY <1>4 DEF AlloyToCircuit
    <2>3. ASSUME circuit.ok PROVE Holds(circuit.value)
      <3>1. Number(v) < Modulus /\ circuit.value = Number(v)
        BY <1>3, <2>1, <2>2, <2>3
      <3>2. Number(v) \in Fields /\ FieldToArray(Number(v), WordBytes) = Ok(v)
        BY <1>2, <2>1, <3>1
      <3> HIDE DEF circuit
      <3> QED
        BY <1>4, <3>1, <3>2 DEF CircuitValues, CircuitToAlloy
    <2> QED
      BY <1>3, <2>1, <2>2, <2>3
  <1>5. CASE ty.kind = "array"
    <2>1. v \in [1..ty.length -> Word]
      BY <1>5 DEF AlloyValues
    <2> DEFINE r == [i \in DOMAIN v |-> FieldFromBytesCanonical(v[i])]
               c == [i \in DOMAIN r |-> r[i].value]
               s == [i \in DOMAIN c |-> FieldToArray(c[i], WordBytes)]
    <2>2. circuit = Collect(r)
      BY <1>5 DEF AlloyToCircuit
    <2>3. ASSUME circuit.ok PROVE Holds(circuit.value)
      <3>1. circuit = Ok(c) /\ \A i \in DOMAIN r : r[i].ok
        BY <2>2, <2>3, CollectIs
      <3>2. circuit.value = c
        BY <3>1, ResultIs
      <3>3. \A i \in 1..ty.length : /\ v[i] \in Word /\ Number(v[i]) < Modulus
                                    /\ c[i] = Number(v[i])
        <4>1. ASSUME NEW i \in 1..ty.length
              PROVE  v[i] \in Word /\ Number(v[i]) < Modulus /\ c[i] = Number(v[i])
          <5>1. v[i] \in Word /\ i \in DOMAIN r /\ r[i] = FieldFromBytesCanonical(v[i]) /\ c[i] = r[i].value
            BY <2>1
          <5>2. FieldFromBytesCanonical(v[i]).ok
            BY <3>1, <5>1
          <5> HIDE DEF r, c
          <5> QED
            BY <1>3, <5>1, <5>2
        <4> QED
          BY <4>1
      <3>4. DOMAIN c = 1..ty.length /\ c = [i \in 1..ty.length |-> c[i]]
        BY <2>1
      <3>5. c \in [1..ty.length -> Fields]
        <4> HIDE DEF c
        <4> QED
          BY <1>2, <3>3, <3>4
      <3>6. DOMAIN s = 1..ty.length /\ \A i \in 1..ty.length : s[i] = Ok(v[i])
        <4>1. DOMAIN s = 1..ty.length /\ \A i \in 1..ty.length : s[i] = FieldToArray(c[i], WordBytes)
          BY <3>4
        <4> HIDE DEF s, c
        <4> QED
          BY <1>2, <3>3, <4>1
      <3>7. CircuitToAlloy(ty, c) = Collect(s)
        BY <1>5 DEF CircuitToAlloy
      <3> HIDE DEF s, c
      <3>8. Collect(s) = Ok([i \in DOMAIN s |-> s[i].value])
        <4>1. \A i \in DOMAIN s : s[i].ok
          BY <3>6, ResultIs
        <4> QED
          BY <4>1, CollectIs
      <3>9. [i \in DOMAIN s |-> s[i].value] = v
        <4>1. \A i \in 1..ty.length : s[i].value = v[i]
          BY <3>6, ResultIs
        <4> QED
          BY <2>1, <3>6, <4>1
      <3>10. c \in CircuitValues(ty)
        BY <1>5, <3>5 DEF CircuitValues
      <3> HIDE DEF circuit
      <3> QED
        BY <3>2, <3>7, <3>8, <3>9, <3>10
    <2> HIDE DEF r
    <2> QED
      BY <2>2, <2>3, CollectIs
  <1>6. CASE ty.kind = "integer"
    <2>1. circuit = Ok(v) /\ v \in CircuitValues(ty) /\ CircuitToAlloy(ty, v) = Ok(v)
      BY <1>6 DEF AlloyToCircuit, CircuitToAlloy, AlloyValues, CircuitValues
    <2> QED
      BY <2>1, ResultIs DEF IsResult
  <1>7. CASE ty.kind = "struct" /\ ty.path = EthAddress
    <2>1. v \in [1..AddrBytes -> Bytes]
      BY <1>7 DEF AlloyValues, EthAddress, U256
    <2>2. circuit = Ok(FieldFromBytes(v))
      BY <1>7 DEF AlloyToCircuit, EthAddress, U256
    <2>3. /\ AddrBytes \in Nat /\ Modulus \in Nat /\ Modulus > 0
          /\ Power(AddrBytes) \in Nat /\ Power(AddrBytes) < Modulus
      <3>1. AddrBytes \in Nat /\ Modulus \in Nat /\ Modulus > 0 /\ Power(AddrBytes) < Modulus
        BY Widths, CodecAssumption
      <3> QED
        BY <3>1, PowerMore
    <2>4. Number(v) \in Nat /\ Number(v) < Power(AddrBytes) /\ BytesOf(Number(v), AddrBytes) = v
      BY <2>1, <2>3, BytesOfNumber
    <2>5. FieldFromBytes(v) = Number(v) /\ Number(v) \in Fields
      <3>1. Number(v) \in 0..Modulus-1
        BY <2>3, <2>4
      <3> QED
        BY <2>3, <3>1, DivSmall DEF FieldFromBytes, Fields
    <2>6. FieldToArray(Number(v), AddrBytes) = Ok(v)
      BY <2>4 DEF FieldToArray
    <2>7. circuit.value = Number(v) /\ IsResult(circuit)
      BY <2>2, <2>5, ResultIs DEF IsResult
    <2>8. Holds(Number(v))
      BY <1>7, <2>5, <2>6 DEF CircuitValues, CircuitToAlloy, EthAddress, U256
    <2>9. Holds(circuit.value)
      <3> HIDE DEF circuit, Holds
      <3> QED
        BY <2>7, <2>8
    <2> QED
      BY <2>7, <2>9
  <1>8. CASE ty.kind = "struct" /\ ty.path = U256
    <2>1. v \in Word
      BY <1>8 DEF AlloyValues, EthAddress, U256
    <2>2. circuit = Ok(Limbs(v))
      BY <1>8 DEF AlloyToCircuit, EthAddress, U256
    <2>3. Limbs(v) \in [1..3 -> 0..Power(Half)-1] /\ FromLimbs(Limbs(v)) = Ok(v)
      BY <2>1, LimbsBack
    <2>4. circuit.value = Limbs(v) /\ IsResult(circuit)
      BY <2>2, ResultIs DEF IsResult
    <2>5. Holds(Limbs(v))
      BY <1>8, <2>3 DEF CircuitValues, CircuitToAlloy, EthAddress, U256
    <2>9. Holds(circuit.value)
      <3> HIDE DEF circuit, Holds
      <3> QED
        BY <2>4, <2>5
    <2> QED
      BY <2>4, <2>9
  <1> QED
    BY <1>1, <1>4, <1>5, <1>6, <1>7, <1>8

\* Whatever the typed decoder accepts is a value of the generated type, and the
\* words it was read from are that value's.
LEMMA DecodedIs ==
  ASSUME NEW t \in DOMAIN AbiTypes, IsPublicType(t),
         NEW words \in [1..AbiFieldCount[t] -> Word],
         \A n \in 1..AbiFieldCount[t] : IsCanonicalFieldWord(words[n])
  PROVE  LET ty == AbiTypes[t]
             d  == DecodeInput(ty, words)
         IN /\ IsResult(d)
            /\ d.ok => /\ d.value \in CircuitValues(ty)
                       /\ words = [n \in 1..AbiFieldCount[t] |-> FieldToBytes(AbiLeaves(t, d.value)[n])]
                       /\ IsResult(CircuitToAlloy(ty, d.value))
                       /\ CircuitToAlloy(ty, d.value).ok
  <1> DEFINE ty == AbiTypes[t]
             m == AbiFieldCount[t]
             d == DecodeInput(ty, words)
             fields == [i \in DOMAIN words |-> FieldFromBytes(words[i])]
             Goes(c) == /\ c \in CircuitValues(ty)
                        /\ AbiLeaves(t, c) = fields
  <1>1. /\ ty.kind \in {"field", "integer", "array", "struct"}
        /\ ty.kind = "struct" => ty.path \in {EthAddress, U256}
        /\ ty.kind = "integer" => ty.bytes \in 1..Half
        /\ Columns(ty) \in Nat
    BY PublicShape
  <1>2. /\ m \in Nat
        /\ Single(ty) => m = 1
        /\ ~Single(ty) => m = Columns(ty)
    BY PublicLeaves, CountIs
  <1>3. \A v : /\ Single(ty) => AbiLeaves(t, v) = [n \in 1..1 |-> v]
               /\ ~Single(ty) => AbiLeaves(t, v) = [n \in 1..Columns(ty) |-> v[n]]
    BY PublicLeaves
  <1>4. fields \in [1..m -> Fields] /\ \A n \in 1..m : FieldToBytes(fields[n]) = words[n]
    BY CanonicalWord
  <1> HIDE DEF fields
  <1>5. IsResult(d) /\ (d.ok => Goes(d.value))
    <2>1. CASE ty.kind = "field"
      <3>1. m = 1 /\ fields[1] \in Fields /\ fields = [n \in 1..1 |-> fields[1]]
        BY <1>2, <1>4, <2>1 DEF Single
      <3>2. d = Ok(fields[1])
        BY <2>1 DEF DecodeInput, fields
      <3>3. Goes(fields[1])
        BY <1>3, <2>1, <3>1 DEF Single, CircuitValues
      <3> HIDE DEF d, Goes
      <3> QED
        BY <3>2, <3>3, ResultIs DEF IsResult
    <2>2. CASE ty.kind = "array"
      <3>1. m = ty.length /\ fields = [n \in 1..m |-> fields[n]]
        BY <1>2, <1>4, <2>2 DEF Single, Columns
      <3>2. d = Ok(fields)
        BY <2>2 DEF DecodeInput, fields
      <3>3. Goes(fields)
        BY <1>3, <1>4, <2>2, <3>1 DEF Single, Columns, CircuitValues
      <3> HIDE DEF d, Goes
      <3> QED
        BY <3>2, <3>3, ResultIs DEF IsResult
    <2>3. CASE ty.kind = "integer"
      <3>1. m = 1 /\ fields[1] \in Fields /\ fields = [n \in 1..1 |-> fields[1]]
        BY <1>2, <1>4, <2>3 DEF Single
      <3>2. d = UintFromField(fields[1], ty.bytes)
        BY <2>3 DEF DecodeInput, fields
      <3>3. fields[1] \in Nat /\ ty.bytes \in Nat
        BY <1>1, <2>3, <3>1, HalfIs DEF Fields
      <3>4. Power(ty.bytes) \in Nat
        BY <3>3, PowerMore
      <3>5. d = IF fields[1] < Power(ty.bytes) THEN Ok(fields[1]) ELSE Err
        BY <3>2, <3>3, UintIs
      <3>6. ASSUME fields[1] < Power(ty.bytes) PROVE Goes(fields[1])
        BY <1>3, <2>3, <3>1, <3>3, <3>4, <3>6 DEF Single, CircuitValues
      <3> HIDE DEF d, Goes
      <3> QED
        BY <3>5, <3>6, ResultIs DEF IsResult
    <2>4. CASE ty.kind = "struct" /\ ty.path = EthAddress
      <3>1. m = 1 /\ fields[1] \in Fields /\ fields = [n \in 1..1 |-> fields[1]]
        BY <1>2, <1>4, <2>4 DEF Single
      <3>2. d = IF SubSeq(words[1], 1, WordBytes - AddrBytes) = Zeros(WordBytes - AddrBytes)
                THEN Ok(fields[1]) ELSE Err
        BY <2>4 DEF DecodeInput, fields, EthAddress, U256
      <3>3. Goes(fields[1])
        BY <1>3, <2>4, <3>1 DEF Single, CircuitValues, EthAddress, U256
      <3> HIDE DEF d, Goes
      <3> QED
        BY <3>2, <3>3, ResultIs DEF IsResult
    <2>5. CASE ty.kind = "struct" /\ ty.path = U256
      <3>1. m = 3 /\ ~Single(ty) /\ Columns(ty) = 3
        BY <1>2, <2>5 DEF Single, Columns, EthAddress, U256
      <3>2. fields \in [1..3 -> Nat] /\ fields = [n \in 1..3 |-> fields[n]]
        BY <1>4, <3>1 DEF Fields
      <3>3. d = Then(FieldsToU256(fields), LAMBDA word : Ok(fields))
        BY <2>5 DEF DecodeInput, fields, EthAddress, U256
      <3>4. d = IF FieldsToU256(fields).ok THEN Ok(fields) ELSE Err
        BY <3>3 DEF Then
      <3>5. ASSUME FieldsToU256(fields).ok PROVE Goes(fields)
        <4>1. \A i \in 1..3 : fields[i] < Power(Half)
          BY <3>2, <3>5, U256Is, ResultIs
        <4>2. Power(Half) \in Nat
          BY HalfIs, PowerMore
        <4>3. fields \in [1..3 -> 0..Power(Half)-1]
          BY <3>2, <4>1, <4>2
        <4> QED
          BY <1>3, <2>5, <3>1, <3>2, <4>3 DEF CircuitValues, EthAddress, U256
      <3> HIDE DEF d, Goes
      <3> QED
        BY <3>4, <3>5, ResultIs DEF IsResult
    <2> HIDE DEF d, Goes
    <2> QED
      BY <1>1, <2>1, <2>2, <2>3, <2>4, <2>5
  <1>6. ASSUME d.ok
        PROVE  /\ d.value \in CircuitValues(ty)
               /\ words = [n \in 1..m |-> FieldToBytes(AbiLeaves(t, d.value)[n])]
               /\ IsResult(CircuitToAlloy(ty, d.value))
               /\ CircuitToAlloy(ty, d.value).ok
    <2> DEFINE c == d.value
    <2>1. c \in CircuitValues(ty) /\ AbiLeaves(t, c) = fields
      BY <1>5, <1>6
    <2> HIDE DEF c
    <2>2. words = [n \in 1..m |-> FieldToBytes(AbiLeaves(t, c)[n])]
      BY <1>4, <2>1
    <2>3. /\ IsResult(CircuitToAlloy(ty, c))
          /\ DecodeInput(ty, words) = IF CircuitToAlloy(ty, c).ok THEN Ok(c) ELSE Err
      <3> HIDE DEF m
      <3> QED
        BY <2>1, <2>2, DecodesOwn DEF m
    <2>4. CircuitToAlloy(ty, c).ok
      BY <1>6, <2>3, ResultIs
    <2> QED
      BY <2>1, <2>2, <2>3, <2>4 DEF c
  <1> QED
    BY <1>5, <1>6

-----------------------------------------------------------------------------
(***************************************************************************)
(* All public inputs, and the combined proof.                              *)
(***************************************************************************)

\* Where the public inputs lie.
LEMMA Layout ==
  LET k == Len(Public)
      N == PublicInputCount
  IN /\ k \in Nat /\ DOMAIN Public = 1..k /\ N \in Nat
     /\ Public \in Seq(DOMAIN AbiTypes)
     /\ \A i \in 1..k : /\ Public[i] \in DOMAIN AbiTypes /\ IsPublicType(Public[i])
                        /\ AbiFieldCount[Public[i]] \in Nat
                        /\ Offset(Public, i) = Offset(Public, i - 1) + AbiFieldCount[Public[i]]
     /\ \A i \in 0..k : Offset(Public, i) \in Nat /\ Offset(Public, i) <= N
  <1> DEFINE k == Len(Public)
  <1>1. Public \in Seq(DOMAIN AbiTypes) /\ \A i \in DOMAIN Public : IsPublicType(Public[i])
    BY PublicIs
  <1>2. k \in Nat /\ DOMAIN Public = 1..k /\ \A i \in 1..k : Public[i] \in DOMAIN AbiTypes
    BY <1>1, PlacesOf
  <1>3. /\ \A i \in 0..k : Offset(Public, i) \in Nat
        /\ \A i \in 1..k : Offset(Public, i) = Offset(Public, i - 1) + AbiFieldCount[Public[i]]
        /\ \A i \in 0..k : Offset(Public, i) <= Offset(Public, k)
    BY <1>1, LeavesOfAll
  <1>4. k \in 0..k
    BY <1>2
  <1> QED
    BY <1>1, <1>2, <1>3, <1>4, CountIs DEF PublicInputCount

\* The fields that a prover pushes for its public inputs.
LEMMA FieldsOf ==
  ASSUME NEW c, IsInputs(c, CircuitValues)
  PROVE  /\ PublicFields(c) \in [1..PublicInputCount -> Fields]
         /\ \A i \in 1..Len(Public) :
              SubSeq(PublicFields(c), Offset(Public, i - 1) + 1, Offset(Public, i))
                = AbiLeaves(Public[i], c[i])
         /\ VerifierInputs(c) = [j \in 1..PublicInputCount |-> FieldToBytes(PublicFields(c)[j])]
         /\ VerifierInputs(c) \in [1..PublicInputCount -> Word]
         /\ \A j \in 1..PublicInputCount : IsCanonicalFieldWord(VerifierInputs(c)[j])
  <1> DEFINE k == Len(Public)
             N == PublicInputCount
             seqs == [i \in 1..k |-> AbiLeaves(Public[i], c[i])]
             f == PublicFields(c)
  <1>1. /\ k \in Nat /\ DOMAIN Public = 1..k /\ N \in Nat /\ Public \in Seq(DOMAIN AbiTypes)
        /\ \A i \in 1..k : Public[i] \in DOMAIN AbiTypes /\ IsPublicType(Public[i])
    BY Layout
  <1>2. DOMAIN c = 1..k /\ \A i \in 1..k : c[i] \in CircuitValues(AbiTypes[Public[i]])
    <2>1. c = [i \in DOMAIN Public |-> c[i]]
      BY DEF IsInputs
    <2> QED
      BY <1>1, <2>1 DEF IsInputs
  <1>3. f = FlattenSeq(seqs)
    BY <1>2 DEF PublicFields
  <1>4. \A i \in 1..k : seqs[i] \in Seq(Fields)
    <2>1. ASSUME NEW i \in 1..k PROVE seqs[i] \in Seq(Fields)
      <3> DEFINE m == AbiFieldCount[Public[i]]
                 a == AbiLeaves(Public[i], c[i])
      <3>1. m \in Nat /\ a \in [1..m -> Fields]
        BY <1>1, <1>2, CircuitLeaves
      <3>2. seqs[i] = a
        OBVIOUS
      <3> HIDE DEF m, a, seqs
      <3>3. a \in Seq(Fields)
        BY <3>1, SequenceIs
      <3> QED
        BY <3>2, <3>3
    <2> HIDE DEF seqs
    <2> QED
      BY <2>1
  <1>5. seqs \in [1..k -> Seq(Fields)]
    BY <1>4
  <1>6. /\ Len(FlattenSeq(seqs)) = Offset(Public, k)
        /\ \A i \in 1..k : SubSeq(FlattenSeq(seqs), Offset(Public, i - 1) + 1, Offset(Public, i))
                             = AbiLeaves(Public[i], c[i])
    BY <1>1, LeavesOfAll
  <1>7. FlattenSeq(seqs) \in Seq(Fields)
    <2> HIDE DEF seqs
    <2> QED
      BY <1>1, <1>5, FlatAt
  <1>8. f \in [1..N -> Fields]
    <2>1. f \in Seq(Fields) /\ Len(f) = N
      BY <1>3, <1>6, <1>7 DEF PublicInputCount
    <2> HIDE DEF f, N
    <2> QED
      BY <1>1, <2>1, SequenceIs
  <1>9. VerifierInputs(c) = [j \in 1..N |-> FieldToBytes(f[j])]
    <2>1. VerifierInputs(c) = [j \in DOMAIN f |-> FieldToBytes(f[j])]
      BY DEF VerifierInputs
    <2> HIDE DEF f, N
    <2> QED
      BY <1>8, <2>1
  <1>10. \A j \in 1..N : FieldToBytes(f[j]) \in Word /\ IsCanonicalFieldWord(FieldToBytes(f[j]))
    <2> HIDE DEF f, N
    <2> QED
      BY <1>8, FieldWord
  <1>11. /\ VerifierInputs(c) \in [1..N -> Word]
         /\ \A j \in 1..N : IsCanonicalFieldWord(VerifierInputs(c)[j])
    <2> HIDE DEF f, N
    <2> QED
      BY <1>9, <1>10
  <1> QED
    BY <1>3, <1>6, <1>8, <1>9, <1>11

\* A combined proof put together, and what is found in it.
Combined(words, proof) ==
  BytesOf(PublicInputCount, CountBytes) \o FlattenSeq(words) \o FlattenSeq(proof)

Header == CountBytes + PublicInputCount * WordBytes

\* The sizes of a combined proof: the count fits its bytes, and the header is the
\* count followed by the public inputs.
LEMMA SizesAre ==
  /\ CountBytes \in Nat /\ ProofWords \in Nat /\ WordBytes \in Nat /\ WordBytes > 0
  /\ PublicInputCount \in Nat /\ PublicInputCount < Power(CountBytes)
  /\ PublicInputCount * WordBytes \in Nat /\ ProofWords * WordBytes \in Nat
  /\ Header \in Nat /\ CombinedLen(PublicInputCount) = Header + ProofWords * WordBytes
  /\ Header = CountBytes + PublicInputCount * WordBytes
  /\ CombinedLen(PublicInputCount) \in Nat
  <1> DEFINE N == PublicInputCount
  <1>1. CountBytes \in Nat /\ ProofWords \in Nat /\ WordBytes \in Nat /\ WordBytes > 0 /\ N \in Nat
    BY WireAssumption, Layout, Widths, CodecAssumption
  <1>2. N < Power(CountBytes)
    BY WireAssumption
  <1> HIDE DEF N
  <1>3. N * WordBytes \in Nat /\ ProofWords * WordBytes \in Nat
    BY <1>1, WordCount
  <1>4. (N + ProofWords) * WordBytes = N * WordBytes + ProofWords * WordBytes
    BY <1>1
  <1> QED
    BY <1>1, <1>2, <1>3, <1>4 DEF Header, CombinedLen, N

\* What the combined proof of words and a proof holds: the count of public
\* inputs, the words, and the proof, each where the reader looks for it.
LEMMA CombinedIs ==
  ASSUME NEW words \in [1..PublicInputCount -> Word], NEW proof \in [1..ProofWords -> Word]
  PROVE  LET b == Combined(words, proof)
         IN /\ b \in Seq(Bytes) /\ Len(b) = CombinedLen(PublicInputCount)
            /\ Number(SubSeq(b, 1, CountBytes)) = PublicInputCount
            /\ WordsOf(SubSeq(b, CountBytes + 1, Header)) = words
            /\ WordsOf(SubSeq(b, Header + 1, Len(b))) = proof
  <1> DEFINE N == PublicInputCount
             x == BytesOf(N, CountBytes)
             y == FlattenSeq(words)
             z == FlattenSeq(proof)
             b == Combined(words, proof)
  <1>1. x \in Seq(Bytes) /\ Len(x) = CountBytes /\ Number(x) = N
    <2>1. x \in [1..CountBytes -> Bytes] /\ Number(x) = N
      BY SizesAre, BytesOfIs
    <2> HIDE DEF x
    <2> QED
      BY <2>1, SizesAre, SequenceIs
  <1>2. y \in Seq(Bytes) /\ Len(y) = N * WordBytes /\ WordsOf(y) = words
    BY SizesAre, WordsFlat
  <1>3. z \in Seq(Bytes) /\ Len(z) = ProofWords * WordBytes /\ WordsOf(z) = proof
    BY SizesAre, WordsFlat
  <1>4. b = x \o y \o z
    BY DEF Combined
  <1> HIDE DEF x, y, z, b
  <1>5. /\ b \in Seq(Bytes) /\ Len(b) = Len(x) + Len(y) + Len(z)
        /\ SubSeq(b, 1, Len(x)) = x
        /\ SubSeq(b, Len(x) + 1, Len(x) + Len(y)) = y
        /\ SubSeq(b, Len(x) + Len(y) + 1, Len(b)) = z
    <2> DEFINE m == Len(x) + Len(y)
    <2>1. x \in Seq(Bytes) /\ y \in Seq(Bytes) /\ z \in Seq(Bytes) /\ m = Len(x) + Len(y)
      BY <1>1, <1>2, <1>3
    <2> HIDE DEF m
    <2>2. /\ b \in Seq(Bytes) /\ Len(b) = m + Len(z)
          /\ SubSeq(b, 1, Len(x)) = x
          /\ SubSeq(b, Len(x) + 1, m) = y
          /\ SubSeq(b, m + 1, Len(b)) = z
      BY <1>4, <2>1, PutThree
    <2> QED
      BY <2>2 DEF m
  <1>6. Len(x) + Len(y) = Header
    BY <1>1, <1>2, SizesAre
  <1>7. Len(b) = CombinedLen(N)
    BY <1>3, <1>5, <1>6, SizesAre
  <1> QED
    BY <1>1, <1>2, <1>3, <1>5, <1>6, <1>7 DEF b

\* The other way: bytes of the right length with the right count are the combined
\* proof of the words and the proof read from them.
LEMMA CombinedOf ==
  ASSUME NEW b \in Seq(Bytes), Len(b) = CombinedLen(PublicInputCount),
         Number(SubSeq(b, 1, CountBytes)) = PublicInputCount
  PROVE  LET words == WordsOf(SubSeq(b, CountBytes + 1, Header))
             proof == WordsOf(SubSeq(b, Header + 1, Len(b)))
         IN /\ words \in [1..PublicInputCount -> Word] /\ proof \in [1..ProofWords -> Word]
            /\ b = Combined(words, proof)
  <1> DEFINE N == PublicInputCount
             x == SubSeq(b, 1, CountBytes)
             y == SubSeq(b, CountBytes + 1, Header)
             z == SubSeq(b, Header + 1, Len(b))
  <1>1. CountBytes <= Header /\ Header <= Len(b)
        /\ Header - CountBytes = N * WordBytes /\ Len(b) - Header = ProofWords * WordBytes
    BY SizesAre
  <1>2. CountBytes \in Nat /\ Header \in Nat /\ N \in Nat /\ ProofWords \in Nat
    BY SizesAre
  <1>3. /\ x \in Seq(Bytes) /\ Len(x) = CountBytes
        /\ y \in Seq(Bytes) /\ Len(y) = Header - CountBytes
        /\ z \in Seq(Bytes) /\ Len(z) = Len(b) - Header
        /\ x \o y \o z = b
    BY <1>1, <1>2, CutThree
  <1> HIDE DEF x, y, z
  <1>4. BytesOf(N, CountBytes) = x
    <2>1. x \in [1..CountBytes -> Bytes]
      BY <1>2, <1>3, SequenceIs
    <2>2. Number(x) = N
      BY DEF x
    <2> QED
      BY <1>2, <2>1, <2>2, BytesOfNumber
  <1>5. WordsOf(y) \in [1..N -> Word] /\ FlattenSeq(WordsOf(y)) = y
    BY <1>1, <1>2, <1>3, FlatWords
  <1>6. WordsOf(z) \in [1..ProofWords -> Word] /\ FlattenSeq(WordsOf(z)) = z
    BY <1>1, <1>2, <1>3, FlatWords
  <1>7. b = Combined(WordsOf(y), WordsOf(z))
    BY <1>3, <1>4, <1>5, <1>6 DEF Combined
  <1> QED
    BY <1>5, <1>6, <1>7 DEF y, z

\* The public words as the typed decoder and bb's verifier find them.
LEMMA PublicWordsIs ==
  ASSUME NEW b \in Seq(Bytes)
  PROVE  LET words == WordsOf(SubSeq(b, CountBytes + 1, Header))
         IN DecodePublicWords(b, PublicInputCount) =
              IF /\ Number(SubSeq(b, 1, CountBytes)) = PublicInputCount
                 /\ Len(b) = CombinedLen(PublicInputCount)
                 /\ \A i \in 1..PublicInputCount : IsCanonicalFieldWord(words[i])
              THEN Ok(words) ELSE Err
  <1>1. Len(b) = CombinedLen(PublicInputCount) => ~(Len(b) < CountBytes)
    BY SizesAre
  <1>2. CountBytes + PublicInputCount * WordBytes = Header
    BY SizesAre
  <1> DEFINE words == WordsOf(SubSeq(b, CountBytes + 1, Header))
             all == \A i \in 1..PublicInputCount : IsCanonicalFieldWord(words[i])
  <1>3. DecodePublicWords(b, PublicInputCount) =
          IF \/ Len(b) < CountBytes
             \/ Number(SubSeq(b, 1, CountBytes)) # PublicInputCount
             \/ Len(b) # CombinedLen(PublicInputCount)
          THEN Err ELSE IF all THEN Ok(words) ELSE Err
    BY <1>2 DEF DecodePublicWords
  <1> HIDE DEF words, all
  <1>4. DecodePublicWords(b, PublicInputCount) =
          IF /\ Number(SubSeq(b, 1, CountBytes)) = PublicInputCount
             /\ Len(b) = CombinedLen(PublicInputCount)
             /\ all
          THEN Ok(words) ELSE Err
    BY <1>1, <1>3
  <1> QED
    BY <1>4 DEF words, all

\* split_combined of bytes with the right length and count gives the public words
\* and the proof that follow the header.
LEMMA SplitIs ==
  ASSUME NEW b \in Seq(Bytes), Len(b) = CombinedLen(PublicInputCount),
         Number(SubSeq(b, 1, CountBytes)) = PublicInputCount
  PROVE  SplitCombined(b) = Ok([public |-> WordsOf(SubSeq(b, CountBytes + 1, Header)),
                                proof  |-> WordsOf(SubSeq(b, Header + 1, Len(b)))])
  <1> DEFINE count == Number(SubSeq(b, 1, CountBytes))
             end == CountBytes + count * WordBytes
             split == Ok([public |-> WordsOf(SubSeq(b, CountBytes + 1, end)),
                          proof  |-> WordsOf(SubSeq(b, end + 1, Len(b)))])
  <1>1. end = Header
    BY SizesAre
  <1>2. ~(Len(b) < CountBytes) /\ ~(Len(b) < end) /\ Len(b) - end = ProofWords * WordBytes
    <2> HIDE DEF end
    <2> QED
      BY <1>1, SizesAre
  <1>3. (Len(b) - end) % WordBytes = 0
    <2> HIDE DEF end
    <2>1. (ProofWords * WordBytes) % WordBytes = 0
      BY SizesAre, WordCount
    <2> QED
      BY <1>2, <2>1
  <1>4. SplitCombined(b) = IF \/ Len(b) < CountBytes \/ Len(b) < end
                              \/ (Len(b) - end) % WordBytes # 0
                           THEN Err ELSE split
    BY DEF SplitCombined
  <1>5. SplitCombined(b) = split
    <2> HIDE DEF split, end
    <2> QED
      BY <1>2, <1>3, <1>4
  <1> QED
    BY <1>1, <1>5

\* The words of one input among all of them.
LEMMA WordsOfInput ==
  ASSUME NEW c, IsInputs(c, CircuitValues), NEW i \in 1..Len(Public)
  PROVE  SubSeq(VerifierInputs(c), Offset(Public, i - 1) + 1, Offset(Public, i))
           = [n \in 1..AbiFieldCount[Public[i]] |-> FieldToBytes(AbiLeaves(Public[i], c[i])[n])]
  <1> DEFINE N == PublicInputCount
             f == PublicFields(c)
             v == VerifierInputs(c)
             a == Offset(Public, i - 1)
             b == Offset(Public, i)
             m == AbiFieldCount[Public[i]]
             leaves == AbiLeaves(Public[i], c[i])
             s == SubSeq(v, a + 1, b)
             u == SubSeq(f, a + 1, b)
  <1>1. N \in Nat /\ m \in Nat /\ a \in Nat /\ b \in Nat /\ b = a + m /\ b <= N
    <2>1. i \in 0..Len(Public) /\ i - 1 \in 0..Len(Public)
      BY Layout
    <2> QED
      BY <2>1, Layout
  <1>2. /\ f \in [1..N -> Fields] /\ u = leaves
        /\ v \in [1..N -> Word] /\ \A j \in 1..N : v[j] = FieldToBytes(f[j])
    BY FieldsOf
  <1> HIDE DEF N, f, v, a, b, m, leaves
  <1>3. f \in Seq(Fields) /\ Len(f) = N /\ v \in Seq(Word) /\ Len(v) = N
    BY <1>1, <1>2, SequenceIs
  <1>4. a <= b /\ b - a = m
    BY <1>1
  <1>5. \A j \in 1..b-a : a + j \in 1..Len(f) /\ u[j] = f[a + j]
    BY <1>1, <1>3, <1>4, Cut
  <1>6. s \in Seq(Word) /\ Len(s) = b - a /\ \A j \in 1..b-a : a + j \in 1..Len(v) /\ s[j] = v[a + j]
    BY <1>1, <1>3, <1>4, Cut
  <1> HIDE DEF s, u
  <1>7. s \in [1..m -> Word]
    BY <1>1, <1>4, <1>6, SequenceIs
  <1>8. \A j \in 1..m : s[j] = FieldToBytes(leaves[j])
    BY <1>2, <1>3, <1>4, <1>5, <1>6
  <1>9. s = [j \in 1..m |-> FieldToBytes(leaves[j])]
    BY <1>7, <1>8
  <1> QED
    BY <1>9 DEF s, v, a, b, m, leaves

\* The decoder, once it has the public words.
LEMMA InputsFromWords ==
  ASSUME NEW b, NEW words, DecodePublicWords(b, PublicInputCount) = Ok(words)
  PROVE  DecodePublicInputs(b) =
           Collect([i \in DOMAIN Public |->
             DecodeInput(AbiTypes[Public[i]],
                         SubSeq(words, Offset(Public, i - 1) + 1, Offset(Public, i)))])
  BY ResultIs DEF DecodePublicInputs, Then

\* What the typed decoder makes of a combined proof that carries these inputs:
\* the inputs, when they have an Alloy form.
LEMMA InputsArrive ==
  ASSUME NEW c, IsInputs(c, CircuitValues), NEW proof \in [1..ProofWords -> Word]
  PROVE  LET b == Combined(VerifierInputs(c), proof)
         IN /\ b \in Seq(Bytes) /\ Len(b) = CombinedLen(PublicInputCount)
            /\ IsResult(ToAlloyInputs(c))
            /\ DecodePublicInputs(b) = IF ToAlloyInputs(c).ok THEN Ok(c) ELSE Err
            /\ SplitCombined(b) = Ok([public |-> VerifierInputs(c), proof |-> proof])
  <1> DEFINE b == Combined(VerifierInputs(c), proof)
             k == Len(Public)
             words == VerifierInputs(c)
             r == [i \in DOMAIN Public |->
                     DecodeInput(AbiTypes[Public[i]],
                                 SubSeq(words, Offset(Public, i - 1) + 1, Offset(Public, i)))]
             e == [i \in DOMAIN c |-> CircuitToAlloy(AbiTypes[Public[i]], c[i])]
  <1>1. /\ words \in [1..PublicInputCount -> Word]
        /\ \A j \in 1..PublicInputCount : IsCanonicalFieldWord(words[j])
    BY FieldsOf
  <1>2. /\ b \in Seq(Bytes) /\ Len(b) = CombinedLen(PublicInputCount)
        /\ Number(SubSeq(b, 1, CountBytes)) = PublicInputCount
        /\ WordsOf(SubSeq(b, CountBytes + 1, Header)) = words
        /\ WordsOf(SubSeq(b, Header + 1, Len(b))) = proof
    <2> HIDE DEF words
    <2> QED
      BY <1>1, CombinedIs DEF words
  <1> HIDE DEF b
  <1>3. SplitCombined(b) = Ok([public |-> words, proof |-> proof])
    BY <1>2, SplitIs
  <1>4. DecodePublicWords(b, PublicInputCount) = Ok(words)
    <2> HIDE DEF words
    <2> QED
      BY <1>1, <1>2, PublicWordsIs
  <1>5. DecodePublicInputs(b) = Collect(r)
    <2> HIDE DEF words
    <2> QED
      BY <1>4, InputsFromWords
  <1>6. /\ DOMAIN Public = 1..k /\ k \in Nat
        /\ \A i \in 1..k : Public[i] \in DOMAIN AbiTypes /\ IsPublicType(Public[i])
    BY Layout
  <1>7. /\ c = [i \in 1..k |-> c[i]]
        /\ \A i \in 1..k : c[i] \in CircuitValues(AbiTypes[Public[i]])
    BY <1>6 DEF IsInputs
  <1>8. ToAlloyInputs(c) = Collect(e)
    BY DEF ToAlloyInputs
  <1>9. ASSUME NEW i \in 1..k
        PROVE  IsResult(e[i]) /\ r[i] = IF e[i].ok THEN Ok(c[i]) ELSE Err
    <2> DEFINE own == [n \in 1..AbiFieldCount[Public[i]] |-> FieldToBytes(AbiLeaves(Public[i], c[i])[n])]
               t == Public[i]
    <2>1. t \in DOMAIN AbiTypes /\ IsPublicType(t) /\ c[i] \in CircuitValues(AbiTypes[t])
      BY <1>6, <1>7
    <2>2. e[i] = CircuitToAlloy(AbiTypes[t], c[i])
      BY <1>7
    <2>3. r[i] = DecodeInput(AbiTypes[t], own)
      <3>1. r[i] = DecodeInput(AbiTypes[t], SubSeq(words, Offset(Public, i - 1) + 1, Offset(Public, i)))
        BY <1>6
      <3> HIDE DEF r, t
      <3> QED
        BY <3>1, WordsOfInput
    <2>4. /\ IsResult(CircuitToAlloy(AbiTypes[t], c[i]))
          /\ DecodeInput(AbiTypes[t], own) = IF CircuitToAlloy(AbiTypes[t], c[i]).ok THEN Ok(c[i]) ELSE Err
      BY <2>1, DecodesOwn
    <2> HIDE DEF t, own, e, r
    <2> QED
      BY <2>2, <2>3, <2>4
  <1>10. DOMAIN e = 1..k /\ DOMAIN r = 1..k
    BY <1>6, <1>7
  <1> HIDE DEF e, r
  <1>11. Collect(r) = IF Collect(e).ok THEN Ok(c) ELSE Err
    <2>1. CASE \A i \in 1..k : e[i].ok
      <3>1. \A i \in 1..k : r[i] = Ok(c[i])
        BY <1>9, <2>1
      <3>2. (\A i \in DOMAIN r : r[i].ok) /\ \A i \in 1..k : r[i].value = c[i]
        BY <1>10, <3>1, ResultIs
      <3>3. [i \in DOMAIN r |-> r[i].value] = c
        BY <1>7, <1>10, <3>2
      <3>4. Collect(r).ok /\ Collect(e).ok
        BY <1>10, <2>1, <3>2, CollectIs
      <3> QED
        BY <3>3, <3>4, CollectIs
    <2>2. CASE ~\A i \in 1..k : e[i].ok
      <3>1. PICK i \in 1..k : ~e[i].ok
        BY <2>2
      <3>2. r[i] = Err
        BY <1>9, <3>1
      <3>3. ~Collect(r).ok /\ ~Collect(e).ok
        BY <1>10, <3>1, <3>2, CollectIs, ResultIs
      <3> QED
        BY <3>3, CollectIs, ResultKinds
    <2> QED
      BY <2>1, <2>2
  <1> QED
    BY <1>2, <1>3, <1>5, <1>8, <1>11, CollectIs DEF b

\* The encoder: a combined proof, of inputs that have an Alloy form and of the
\* circuit's number of proof words.
LEMMA EncodeIs ==
  ASSUME NEW c, IsInputs(c, CircuitValues), NEW proof \in Seq(Seq(Bytes))
  PROVE  EncodeCombined(c, proof) =
           IF proof \in [1..ProofWords -> Word] /\ ToAlloyInputs(c).ok
           THEN Ok(Combined(VerifierInputs(c), proof)) ELSE Err
  <1> DEFINE fields == PublicFields(c)
             b == Combined(VerifierInputs(c), proof)
             bad == Len(proof) # ProofWords \/ \E i \in DOMAIN proof : Len(proof[i]) # WordBytes
             y == BytesOf(PublicInputCount, CountBytes)
                    \o FlattenSeq([i \in DOMAIN fields |-> FieldToBytes(fields[i])])
                    \o FlattenSeq(proof)
  <1>1. y = b
    <2>1. VerifierInputs(c) = [i \in DOMAIN fields |-> FieldToBytes(fields[i])]
      BY DEF VerifierInputs
    <2> QED
      BY <2>1 DEF Combined
  <1>2. EncodeCombined(c, proof) =
          IF bad THEN Err ELSE IF DecodePublicInputs(y).ok THEN Ok(y) ELSE Err
    BY DEF EncodeCombined, Then
  <1>3. EncodeCombined(c, proof) =
          IF bad THEN Err ELSE IF DecodePublicInputs(b).ok THEN Ok(b) ELSE Err
    <2> HIDE DEF y, b, bad
    <2> QED
      BY <1>1, <1>2
  <1> HIDE DEF y
  <1>4. ~bad <=> proof \in [1..ProofWords -> Word]
    <2>1. /\ ProofWords \in Nat /\ WordBytes \in Nat
          /\ Len(proof) \in Nat /\ DOMAIN proof = 1..Len(proof)
          /\ \A i \in DOMAIN proof : proof[i] \in Seq(Bytes)
      BY SizesAre
    <2>2. \A i \in DOMAIN proof : proof[i] \in Word <=> Len(proof[i]) = WordBytes
      BY <2>1, SequenceIs DEF Word
    <2>3. ASSUME ~bad PROVE proof \in [1..ProofWords -> Word]
      <3>1. proof = [i \in 1..Len(proof) |-> proof[i]] /\ Len(proof) = ProofWords
        BY <2>1, <2>3
      <3>2. \A i \in 1..ProofWords : proof[i] \in Word
        BY <2>1, <2>2, <2>3, <3>1
      <3> HIDE DEF bad
      <3> QED
        BY <3>1, <3>2
    <2>4. ASSUME proof \in [1..ProofWords -> Word] PROVE ~bad
      <3>1. Len(proof) = ProofWords /\ \A i \in DOMAIN proof : proof[i] \in Word
        <4>1. proof \in Seq(Word) /\ Len(proof) = ProofWords
          <5>1. ProofWords \in Nat
            BY <2>1
          <5> QED
            BY <2>4, <5>1, SequenceIs
        <4> QED
          BY <2>1, <2>4, <4>1
      <3> QED
        BY <2>2, <3>1
    <2> HIDE DEF bad
    <2> QED
      BY <2>3, <2>4
  <1> HIDE DEF bad
  <1>5. ASSUME proof \in [1..ProofWords -> Word]
        PROVE  DecodePublicInputs(b).ok <=> ToAlloyInputs(c).ok
    <2>1. DecodePublicInputs(b) = IF ToAlloyInputs(c).ok THEN Ok(c) ELSE Err
      BY <1>5, InputsArrive
    <2> HIDE DEF b
    <2> QED
      BY <2>1, ResultIs
  <1> HIDE DEF b
  <1>6. EncodeCombined(c, proof) =
          IF proof \in [1..ProofWords -> Word] /\ ToAlloyInputs(c).ok THEN Ok(b) ELSE Err
    BY <1>3, <1>4, <1>5
  <1> QED
    BY <1>6 DEF b

\* Whatever the typed decoder accepts is the encoding of what it read, and bb
\* finds the same public words in it.
LEMMA ArrivedIs ==
  ASSUME NEW b \in Seq(Bytes), DecodePublicInputs(b).ok
  PROVE  LET c     == DecodePublicInputs(b).value
             proof == WordsOf(SubSeq(b, Header + 1, Len(b)))
         IN /\ IsInputs(c, CircuitValues)
            /\ ToAlloyInputs(c).ok
            /\ proof \in [1..ProofWords -> Word]
            /\ b = Combined(VerifierInputs(c), proof)
            /\ DecodePublicInputs(b) = Ok(c)
            /\ SplitCombined(b) = Ok([public |-> VerifierInputs(c), proof |-> proof])
  <1> DEFINE k == Len(Public)
             N == PublicInputCount
             d == DecodePublicInputs(b)
             c == d.value
             words == WordsOf(SubSeq(b, CountBytes + 1, Header))
             proof == WordsOf(SubSeq(b, Header + 1, Len(b)))
             part(i) == SubSeq(words, Offset(Public, i - 1) + 1, Offset(Public, i))
             r == [i \in DOMAIN Public |-> DecodeInput(AbiTypes[Public[i]], part(i))]
  <1>1. DecodePublicWords(b, N).ok
    <2>1. d = Err \/ DecodePublicWords(b, N).ok
      BY DEF DecodePublicInputs, Then
    <2> HIDE DEF d
    <2> QED
      BY <2>1, ResultIs DEF d
  <1>2. /\ Number(SubSeq(b, 1, CountBytes)) = N
        /\ Len(b) = CombinedLen(N)
        /\ \A i \in 1..N : IsCanonicalFieldWord(words[i])
        /\ DecodePublicWords(b, N) = Ok(words)
    <2> HIDE DEF words
    <2> QED
      BY <1>1, PublicWordsIs, ResultIs DEF words
  <1>3. words \in [1..N -> Word] /\ proof \in [1..ProofWords -> Word] /\ b = Combined(words, proof)
    BY <1>2, CombinedOf
  <1>4. d = Collect(r)
    <2> HIDE DEF words
    <2> QED
      BY <1>2, InputsFromWords
  <1>5. /\ DOMAIN Public = 1..k /\ k \in Nat /\ N \in Nat /\ Public \in Seq(DOMAIN AbiTypes)
        /\ \A i \in 1..k : Public[i] \in DOMAIN AbiTypes /\ IsPublicType(Public[i])
    BY Layout
  <1> HIDE DEF words, proof
  <1>6. /\ d = Ok(c) /\ c = [i \in DOMAIN r |-> r[i].value]
        /\ \A i \in DOMAIN r : r[i].ok
    <2> HIDE DEF r
    <2>1. Collect(r).ok
      BY <1>4
    <2>2. Collect(r) = Ok([i \in DOMAIN r |-> r[i].value]) /\ \A i \in DOMAIN r : r[i].ok
      BY <2>1, CollectIs
    <2>3. Collect(r).value = [i \in DOMAIN r |-> r[i].value]
      BY <2>2, ResultIs
    <2> HIDE DEF d
    <2> QED
      BY <1>4, <2>2, <2>3
  <1>7. DOMAIN r = 1..k /\ \A i \in 1..k : r[i] = DecodeInput(AbiTypes[Public[i]], part(i))
    BY <1>5
  <1> HIDE DEF r, d, c
  <1>8. c = [i \in 1..k |-> c[i]] /\ \A i \in 1..k : c[i] = r[i].value
    BY <1>6, <1>7
  <1>9. ASSUME NEW i \in 1..k
        PROVE  /\ c[i] \in CircuitValues(AbiTypes[Public[i]])
               /\ part(i) = [n \in 1..AbiFieldCount[Public[i]] |-> FieldToBytes(AbiLeaves(Public[i], c[i])[n])]
               /\ CircuitToAlloy(AbiTypes[Public[i]], c[i]).ok
               /\ Offset(Public, i - 1) \in Nat /\ Offset(Public, i) \in Nat
               /\ Offset(Public, i - 1) <= Offset(Public, i) /\ Offset(Public, i) <= N
    <2> DEFINE a == Offset(Public, i - 1)
               e == Offset(Public, i)
               t == Public[i]
               m == AbiFieldCount[t]
               s == SubSeq(words, a + 1, e)
    <2>1. /\ t \in DOMAIN AbiTypes /\ IsPublicType(t)
          /\ a \in Nat /\ e \in Nat /\ m \in Nat /\ e = a + m /\ e <= N
      <3>1. i \in 0..k /\ i - 1 \in 0..k
        BY <1>5
      <3> QED
        BY <3>1, Layout
    <2> HIDE DEF a, e, t, m
    <2>2. words \in Seq(Word) /\ Len(words) = N
      BY <1>3, <1>5, SequenceIs
    <2>3. a <= e /\ e - a = m
      BY <2>1
    <2>4. s \in Seq(Word) /\ Len(s) = e - a /\ \A j \in 1..e-a : a + j \in 1..Len(words) /\ s[j] = words[a + j]
      BY <2>1, <2>2, <2>3, Cut
    <2> HIDE DEF s
    <2>5. s \in [1..m -> Word] /\ \A n \in 1..m : IsCanonicalFieldWord(s[n])
      <3>1. s \in [1..m -> Word]
        BY <2>1, <2>3, <2>4, SequenceIs
      <3> QED
        BY <1>2, <2>2, <2>3, <2>4, <3>1
    <2>6. r[i] = DecodeInput(AbiTypes[t], s) /\ r[i].ok /\ c[i] = r[i].value
      BY <1>6, <1>7, <1>8 DEF s, a, e, t
    <2>7. /\ c[i] \in CircuitValues(AbiTypes[t])
          /\ s = [n \in 1..m |-> FieldToBytes(AbiLeaves(t, c[i])[n])]
          /\ CircuitToAlloy(AbiTypes[t], c[i]).ok
      <3> DEFINE x == DecodeInput(AbiTypes[t], s)
      <3>1. x.ok => /\ x.value \in CircuitValues(AbiTypes[t])
                    /\ s = [n \in 1..m |-> FieldToBytes(AbiLeaves(t, x.value)[n])]
                    /\ CircuitToAlloy(AbiTypes[t], x.value).ok
        BY <2>1, <2>5, DecodedIs DEF m
      <3> HIDE DEF x
      <3> QED
        BY <2>6, <3>1 DEF x
    <2> QED
      BY <2>1, <2>3, <2>7 DEF a, e, t, m, s
  <1>10. IsInputs(c, CircuitValues)
    BY <1>5, <1>8, <1>9 DEF IsInputs
  <1>11. ToAlloyInputs(c).ok
    <2> DEFINE q == [i \in DOMAIN c |-> CircuitToAlloy(AbiTypes[Public[i]], c[i])]
    <2>1. DOMAIN c = 1..k
      BY <1>8
    <2>2. \A i \in DOMAIN q : q[i].ok
      BY <1>9, <2>1
    <2>3. ToAlloyInputs(c) = Collect(q)
      BY DEF ToAlloyInputs
    <2> HIDE DEF q
    <2> QED
      BY <2>2, <2>3, CollectIs
  <1>12. VerifierInputs(c) = words
    <2> DEFINE u == [j \in 1..N |-> FieldFromBytes(words[j])]
               seqs == [i \in 1..k |-> AbiLeaves(Public[i], c[i])]
    <2>1. /\ seqs \in [1..k -> Seq(Fields)]
          /\ \A i \in 0..k : Offset(Public, i) = Start(seqs, i)
      <3>1. \A i \in 0..k : Offset(Public, i) = Start(seqs, i)
        BY <1>5, LeavesOfAll
      <3>2. ASSUME NEW i \in 1..k PROVE seqs[i] \in Seq(Fields)
        <4> DEFINE m == AbiFieldCount[Public[i]]
                   x == AbiLeaves(Public[i], c[i])
        <4>1. m \in Nat /\ x \in [1..m -> Fields]
          BY <1>5, <1>9, CircuitLeaves
        <4>2. seqs[i] = x
          OBVIOUS
        <4> HIDE DEF m, x, seqs
        <4>3. x \in Seq(Fields)
          BY <4>1, SequenceIs
        <4> QED
          BY <4>2, <4>3
      <3> QED
        BY <3>1, <3>2
    <2>2. u \in [1..N -> Fields] /\ \A j \in 1..N : FieldToBytes(u[j]) = words[j]
      BY <1>2, <1>3, CanonicalWord
    <2> HIDE DEF u
    <2>3. u \in Seq(Fields) /\ Len(u) = N
      BY <1>5, <2>2, SequenceIs
    <2>4. Len(u) = Start(seqs, k)
      <3>1. k \in 0..k
        BY <1>5
      <3> QED
        BY <2>1, <2>3, <3>1 DEF PublicInputCount
    <2>5. ASSUME NEW i \in 1..k
          PROVE  SubSeq(u, Start(seqs, i - 1) + 1, Start(seqs, i)) = seqs[i]
      <3> DEFINE a == Offset(Public, i - 1)
                 e == Offset(Public, i)
                 t == Public[i]
                 m == AbiFieldCount[t]
                 x == AbiLeaves(t, c[i])
                 s == SubSeq(words, a + 1, e)
                 w == SubSeq(u, a + 1, e)
      <3>1. a = Start(seqs, i - 1) /\ e = Start(seqs, i) /\ seqs[i] = x
        <4>1. i \in 0..k /\ i - 1 \in 0..k
          BY <1>5
        <4> QED
          BY <2>1, <4>1
      <3>2. /\ a \in Nat /\ e \in Nat /\ a <= e /\ e <= N
            /\ s = [n \in 1..m |-> FieldToBytes(x[n])]
        BY <1>9
      <3>3. e = a + m /\ m \in Nat /\ x \in [1..m -> Fields]
        <4>1. e = a + m /\ t \in DOMAIN AbiTypes /\ IsPublicType(t)
          BY Layout
        <4> QED
          BY <1>9, <4>1, CircuitLeaves
      <3> HIDE DEF a, e, t, m, x, seqs
      <3>4. e - a = m
        BY <3>2, <3>3
      <3>5. words \in Seq(Word) /\ Len(words) = N
        BY <1>3, <1>5, SequenceIs
      <3>6. \A j \in 1..m : a + j \in 1..N /\ s[j] = words[a + j]
        <4>1. a \in Nat /\ e \in Nat /\ a <= e /\ e <= Len(words) /\ words \in Seq(Word)
          BY <3>2, <3>5
        <4>2. \A j \in 1..e-a : a + j \in 1..Len(words) /\ s[j] = words[a + j]
          BY <4>1, Cut
        <4> HIDE DEF s
        <4> QED
          BY <3>4, <3>5, <4>2
      <3>7. w \in Seq(Fields) /\ Len(w) = m /\ \A j \in 1..m : w[j] = u[a + j]
        <4>1. a \in Nat /\ e \in Nat /\ a <= e /\ e <= Len(u) /\ u \in Seq(Fields)
          BY <2>3, <3>2
        <4>2. w \in Seq(Fields) /\ Len(w) = e - a /\ \A j \in 1..e-a : w[j] = u[a + j]
          BY <4>1, Cut
        <4> HIDE DEF w
        <4> QED
          BY <3>4, <4>2
      <3> HIDE DEF w
      <3>8. \A j \in 1..m : w[j] = x[j]
        <4>1. ASSUME NEW j \in 1..m PROVE w[j] = x[j]
          <5>1. a + j \in 1..N /\ s[j] = words[a + j] /\ w[j] = u[a + j]
            BY <3>6, <3>7
          <5>2. s[j] = FieldToBytes(x[j]) /\ x[j] \in Fields
            BY <3>2, <3>3
          <5>3. FieldToBytes(w[j]) = FieldToBytes(x[j]) /\ w[j] \in Fields
            BY <2>2, <5>1, <5>2
          <5>4. Number(FieldToBytes(w[j])) = w[j] /\ Number(FieldToBytes(x[j])) = x[j]
            BY <5>2, <5>3, FieldWord
          <5> QED
            BY <5>3, <5>4
        <4> QED
          BY <4>1
      <3>9. x \in Seq(Fields) /\ Len(x) = m
        BY <3>3, SequenceIs
      <3>10. w = x
        BY <3>7, <3>8, <3>9, SameSequence
      <3> QED
        BY <3>1, <3>10 DEF w
    <2> HIDE DEF seqs
    <2>6. FlattenSeq(seqs) = u
      BY <1>5, <2>1, <2>3, <2>4, <2>5, FlatOnly
    <2>7. PublicFields(c) = u
      <3>1. DOMAIN c = 1..k
        BY <1>8
      <3> QED
        BY <2>6, <3>1 DEF PublicFields, seqs
    <2>8. VerifierInputs(c) = [j \in 1..N |-> FieldToBytes(u[j])]
      BY <1>10, <2>7, FieldsOf
    <2> QED
      BY <1>3, <2>2, <2>8
  <1>13. SplitCombined(b) = Ok([public |-> words, proof |-> proof])
    BY <1>2, SplitIs DEF words, proof
  <1> QED
    BY <1>3, <1>6, <1>10, <1>11, <1>12, <1>13 DEF c, d, proof

-----------------------------------------------------------------------------
(***************************************************************************)
(* The call.                                                               *)
(***************************************************************************)

\* Where the parts of a call lie: three words, the data, what fills a word.
W2 == 2 * WordBytes
W3 == 3 * WordBytes

\* The sizes of a verifier call: a call with a combined proof is shorter than the
\* lengths its length bytes can say.
LEMMA CallSizes ==
  /\ WordBytes \in Nat /\ WordBytes > 0
  /\ LenBytes \in 0..WordBytes
  /\ W2 \in Nat /\ W3 \in Nat /\ W2 = WordBytes + WordBytes /\ W3 = W2 + WordBytes
  /\ Power(LenBytes) \in Nat /\ Power(LenBytes) <= Power(WordBytes)
  /\ Power(WordBytes) \in Nat
  /\ W3 + CombinedLen(PublicInputCount) + WordBytes < Power(LenBytes)
  <1>1. WordBytes \in Nat /\ WordBytes > 0
    BY SizesAre
  <1>2. LenBytes \in 1..WordBytes /\ CallBytes < Power(LenBytes)
    BY WireAssumption
  <1>3. LenBytes \in Nat /\ LenBytes <= WordBytes /\ LenBytes \in 0..WordBytes
    BY <1>1, <1>2
  <1>4. /\ Power(LenBytes) \in Nat /\ Power(WordBytes) \in Nat
        /\ Power(LenBytes) <= Power(WordBytes)
    BY <1>1, <1>3, PowerMore, PowerGrows
  <1> QED
    BY <1>1, <1>2, <1>3, <1>4 DEF W2, W3, CallBytes

\* The padding after the data is shorter than a word.
LEMMA PaddingIs ==
  ASSUME NEW n \in Nat
  PROVE  Padding(n) \in Nat /\ Padding(n) < WordBytes
  <1>1. n % WordBytes \in 0..WordBytes-1
    BY CallSizes, DivMod
  <1>2. WordBytes - (n % WordBytes) \in Int
    BY <1>1, CallSizes
  <1>3. Padding(n) \in 0..WordBytes-1
    BY <1>2, CallSizes, DivMod DEF Padding
  <1> QED
    BY <1>3, CallSizes

\* A slot of a word holds a length when its upper bytes are zero.
LEMMA ReadPaddedIs ==
  ASSUME NEW slot \in Word
  PROVE  /\ Number(slot) \in Nat /\ BytesOf(Number(slot), WordBytes) = slot
         /\ ReadPadded(slot) = IF Number(slot) < Power(LenBytes) THEN Ok(Number(slot)) ELSE Err
  <1>1. slot \in [1..WordBytes -> Bytes] /\ WordBytes \in Nat /\ LenBytes \in 0..WordBytes
    BY CallSizes DEF Word
  <1>2. SubSeq(slot, 1, WordBytes - LenBytes) = Zeros(WordBytes - LenBytes)
          <=> Number(slot) < Power(LenBytes)
    BY <1>1, TopZero
  <1>3. Number(slot) \in Nat /\ BytesOf(Number(slot), WordBytes) = slot
    BY <1>1, BytesOfNumber
  <1> QED
    BY <1>2, <1>3 DEF ReadPadded

\* A word cut out of the bytes of a call.
LEMMA SlotIs ==
  ASSUME NEW input \in Seq(Bytes), NEW a \in Nat, NEW b \in Nat, b = a + WordBytes, b <= Len(input)
  PROVE  SubSeq(input, a + 1, b) \in Word
  <1>1. WordBytes \in Nat /\ a <= b /\ b - a = WordBytes
    BY CallSizes
  <1> DEFINE s == SubSeq(input, a + 1, b)
  <1>2. s \in Seq(Bytes) /\ Len(s) = b - a
    BY <1>1, Cut
  <1> HIDE DEF s
  <1>3. s \in [1..WordBytes -> Bytes]
    BY <1>1, <1>2, SequenceIs
  <1> QED
    BY <1>3 DEF Word, s

\* What the decoder of a call asks of its bytes.
DataLen(input) == Number(SubSeq(input, W2 + 1, W3))

WellFormed(input) ==
  LET end   == W3 + DataLen(input)
      total == end + Padding(DataLen(input))
  IN /\ Len(input) >= W3
     /\ Number(SubSeq(input, WordBytes + 1, W2)) = W2
     /\ Len(input) = total /\ total < Power(LenBytes)
     /\ SubSeq(input, end + 1, total) = Zeros(Padding(DataLen(input)))

\* decode_verify_call accepts the well-formed inputs, and of them gives the hash
\* and the data; every other input is the error.
LEMMA VerifyCallIs ==
  ASSUME NEW input \in Seq(Bytes)
  PROVE  DecodeVerifyCall(input) =
           IF WellFormed(input)
           THEN Ok([hash     |-> SubSeq(input, 1, WordBytes),
                    combined |-> SubSeq(input, W3 + 1, W3 + DataLen(input))])
           ELSE Err
  <1> DEFINE W == WordBytes
             L == Power(LenBytes)
             n == DataLen(input)
             good == Ok([hash     |-> SubSeq(input, 1, W),
                         combined |-> SubSeq(input, W3 + 1, W3 + n)])
             p == ReadPadded(SubSeq(input, W + 1, 2 * W))
             h == CheckedAdd(p.value, W)
             l == ReadPadded(SubSeq(input, p.value + 1, h.value))
             e == CheckedAdd(h.value, l.value)
             t == CheckedAdd(e.value, Padding(l.value))
             last == IF \/ Len(input) # t.value
                        \/ SubSeq(input, e.value + 1, t.value) # Zeros(t.value - e.value)
                     THEN Err
                     ELSE Ok([hash     |-> SubSeq(input, 1, W),
                              combined |-> SubSeq(input, h.value + 1, e.value)])
             sized == IF l.ok
                      THEN IF e.ok
                           THEN IF Len(input) < e.value THEN Err
                                ELSE IF t.ok THEN last ELSE Err
                           ELSE Err
                      ELSE Err
             d == DecodeVerifyCall(input)
  <1>1. d = IF Len(input) < 2 * W THEN Err
            ELSE IF p.ok
                 THEN IF p.value # 2 * W THEN Err
                      ELSE IF h.ok THEN IF Len(input) < h.value THEN Err ELSE sized
                           ELSE Err
                 ELSE Err
    BY DEF DecodeVerifyCall, Then
  <1>2. /\ W \in Nat /\ W2 = 2 * W /\ W2 \in Nat /\ W3 \in Nat /\ W3 = W2 + W /\ W2 = W + W
        /\ L \in Nat /\ W2 < L /\ W3 < L /\ Len(input) \in Nat
    <2>1. CombinedLen(PublicInputCount) \in Nat
      BY SizesAre
    <2> QED
      BY <2>1, CallSizes DEF W2
  <1> DEFINE ok == WellFormed(input)
  <1>3. CASE Len(input) < W2
    <2>1. d = Err
      <3> HIDE DEF p, h, sized, d
      <3> QED
        BY <1>1, <1>2, <1>3
    <2>2. ~ok
      <3>1. ok => Len(input) >= W3
        BY DEF WellFormed
      <3> HIDE DEF ok
      <3> QED
        BY <1>2, <1>3, <3>1
    <2> HIDE DEF d, ok
    <2> QED
      BY <2>1, <2>2 DEF d, ok
  <1>4. CASE ~(Len(input) < W2)
    <2> DEFINE s2 == SubSeq(input, W + 1, W2)
    <2>1. s2 \in Word
      <3>1. W \in Nat /\ W2 \in Nat /\ W2 = W + WordBytes /\ W2 <= Len(input)
        BY <1>2, <1>4
      <3> HIDE DEF W
      <3> QED
        BY <3>1, SlotIs
    <2>2. Number(s2) \in Nat /\ p = IF Number(s2) < L THEN Ok(Number(s2)) ELSE Err
      <3>1. p = ReadPadded(s2)
        BY <1>2
      <3> HIDE DEF p, s2
      <3> QED
        BY <2>1, <3>1, ReadPaddedIs
    <2>3. ok => Number(s2) = W2
      BY DEF WellFormed
    <2> HIDE DEF s2
    <2>4. CASE Number(s2) # W2
      <3>1. ~ok
        BY <2>3, <2>4
      <3>2. ~p.ok \/ p.value # 2 * W
        <4> HIDE DEF p
        <4> QED
          BY <1>2, <2>2, <2>4, ResultIs
      <3>3. d = Err
        <4> HIDE DEF p, h, sized, d
        <4> QED
          BY <1>1, <1>2, <3>2
      <3> HIDE DEF d, ok
      <3> QED
        BY <3>1, <3>3 DEF d, ok
    <2>5. CASE Number(s2) = W2
      <3>1. p.ok /\ p.value = W2
        <4>1. p = Ok(W2)
          <5> HIDE DEF p
          <5> QED
            BY <1>2, <2>2, <2>5
        <4> HIDE DEF p
        <4> QED
          BY <4>1, ResultIs
      <3>2. h.ok /\ h.value = W3
        <4>1. h = CheckedAdd(W2, W)
          BY <3>1
        <4>2. h = Ok(W3)
          <5> HIDE DEF h, p
          <5> QED
            BY <1>2, <4>1 DEF CheckedAdd
        <4> HIDE DEF h
        <4> QED
          BY <4>2, ResultIs
      <3>3. d = IF Len(input) < W3 THEN Err ELSE sized
        <4> HIDE DEF p, h, sized, d
        <4> QED
          BY <1>1, <1>2, <1>4, <3>1, <3>2
      <3>4. ok <=> /\ Len(input) >= W3
                   /\ Len(input) = W3 + n + Padding(n) /\ W3 + n + Padding(n) < L
                   /\ SubSeq(input, W3 + n + 1, W3 + n + Padding(n)) = Zeros(Padding(n))
        <4> HIDE DEF n
        <4> QED
          BY <2>5 DEF WellFormed, s2, n
      <3> HIDE DEF ok
      <3>5. CASE Len(input) < W3
        <4>1. ~ok
          <5> HIDE DEF n
          <5> QED
            BY <1>2, <3>4, <3>5
        <4>2. d = Err
          <5> HIDE DEF sized, d
          <5> QED
            BY <3>3, <3>5
        <4> HIDE DEF d
        <4> QED
          BY <4>1, <4>2 DEF d, ok
      <3>6. CASE ~(Len(input) < W3)
        <4> DEFINE s3 == SubSeq(input, W2 + 1, W3)
        <4>1. s3 \in Word /\ n = Number(s3)
          <5>1. W2 \in Nat /\ W3 \in Nat /\ W3 = W2 + WordBytes /\ W3 <= Len(input)
            BY <1>2, <3>6
          <5> QED
            BY <5>1, SlotIs DEF DataLen
        <4>2. n \in Nat /\ l = IF n < L THEN Ok(n) ELSE Err
          <5>1. l = ReadPadded(s3)
            <6> HIDE DEF p, h
            <6> QED
              BY <3>1, <3>2
          <5> HIDE DEF l, s3, n
          <5> QED
            BY <4>1, <5>1, ReadPaddedIs
        <4>3. Padding(n) \in Nat
          <5> HIDE DEF n
          <5> QED
            BY <4>2, PaddingIs
        <4> DEFINE pad == Padding(n)
        <4>4. d = sized
          <5> HIDE DEF sized, d
          <5> QED
            BY <3>3, <3>6
        <4> HIDE DEF n, d, p, h
        <4>5. CASE n < L /\ W3 + n < L
          <5>1. l.ok /\ l.value = n
            <6> HIDE DEF l
            <6> QED
              BY <4>2, <4>5, ResultIs
          <5> HIDE DEF l
          <5>2. e.ok /\ e.value = W3 + n
            <6>1. e = Ok(W3 + n)
              BY <3>2, <4>5, <5>1 DEF CheckedAdd
            <6> HIDE DEF e
            <6> QED
              BY <6>1, ResultIs
          <5> HIDE DEF e
          <5>3. t = IF W3 + n + pad < L THEN Ok(W3 + n + pad) ELSE Err
            BY <5>1, <5>2 DEF CheckedAdd
          <5> HIDE DEF t
          <5>4. CASE Len(input) = W3 + n + pad /\ W3 + n + pad < L
            <6>1. t.ok /\ t.value = W3 + n + pad
              BY <5>3, <5>4, ResultIs
            <6>2. ~(Len(input) < W3 + n) /\ (W3 + n + pad) - (W3 + n) = pad
              BY <1>2, <4>2, <4>3, <5>4
            <6>3. d = last
              <7> HIDE DEF last
              <7> QED
                BY <4>4, <5>1, <5>2, <6>1, <6>2
            <6>4. last = IF SubSeq(input, W3 + n + 1, W3 + n + pad) # Zeros(pad) THEN Err ELSE good
              BY <3>2, <5>2, <5>4, <6>1, <6>2
            <6>5. ok <=> SubSeq(input, W3 + n + 1, W3 + n + pad) = Zeros(pad)
              BY <3>4, <3>6, <5>4, <1>2
            <6>6. d = IF ok THEN good ELSE Err
              <7> HIDE DEF last, good
              <7> QED
                BY <6>3, <6>4, <6>5
            <6> QED
              BY <6>6 DEF d, ok, n
          <5>5. CASE ~(Len(input) = W3 + n + pad /\ W3 + n + pad < L)
            <6>1. ~ok
              BY <3>4, <5>5
            <6>2. d = Err
              <7>1. t.ok => t.value = W3 + n + pad /\ W3 + n + pad < L
                BY <5>3, ResultIs
              <7>2. t.ok => last = Err
                BY <5>5, <7>1
              <7> HIDE DEF last
              <7> QED
                BY <4>4, <5>1, <5>2, <7>2
            <6> QED
              BY <6>1, <6>2 DEF d, ok
          <5> QED
            BY <5>4, <5>5
        <4>6. CASE ~(n < L /\ W3 + n < L)
          <5>1. ~ok
            <6>1. W3 + n <= W3 + n + pad /\ n <= W3 + n
              BY <1>2, <4>2, <4>3
            <6> QED
              BY <1>2, <3>4, <4>2, <4>3, <4>6, <6>1
          <5>2. d = Err
            <6>1. l.ok => l.value = n /\ n < L
              <7> HIDE DEF l
              <7> QED
                BY <4>2, ResultIs
            <6> HIDE DEF l
            <6>2. l.ok => ~e.ok
              <7>1. l.ok => e = Err
                BY <3>2, <4>6, <6>1 DEF CheckedAdd
              <7> HIDE DEF e
              <7> QED
                BY <7>1, ResultIs
            <6> HIDE DEF e, t, last
            <6> QED
              BY <4>4, <6>2
          <5> QED
            BY <5>1, <5>2 DEF d, ok
        <4> QED
          BY <4>5, <4>6
      <3> QED
        BY <3>5, <3>6
    <2> QED
      BY <2>4, <2>5
  <1> QED
    BY <1>3, <1>4

\* What the caller's library makes of a word and bytes that fit a call: bytes
\* that the decoder takes apart again.
LEMMA CallArrives ==
  ASSUME NEW hash \in Word, NEW data \in Seq(Bytes),
         W3 + Len(data) + WordBytes < Power(LenBytes)
  PROVE  LET input == AbiEncode(hash, data)
         IN /\ input \in Seq(Bytes) /\ Len(input) >= W3
            /\ DecodeVerifyCall(input) = Ok([hash |-> hash, combined |-> data])
  <1> DEFINE W == WordBytes
             n == Len(data)
             s2 == BytesOf(2 * WordBytes, WordBytes)
             s3 == BytesOf(n, WordBytes)
             z == Zeros(Padding(n))
             head == hash \o s2 \o s3
             input == AbiEncode(hash, data)
             m == W3 + n
  <1>1. /\ W \in Nat /\ W2 \in Nat /\ W3 \in Nat /\ W2 = W + W /\ W3 = W2 + W
        /\ n \in Nat /\ m \in Nat /\ n < Power(W) /\ W2 < Power(W)
        /\ Padding(n) \in Nat /\ Padding(n) < W
        /\ m + Padding(n) < Power(LenBytes)
    <2>1. n \in Nat
      OBVIOUS
    <2>2. Padding(n) \in Nat /\ Padding(n) < W
      <3> HIDE DEF n
      <3> QED
        BY <2>1, PaddingIs
    <2> HIDE DEF n
    <2>3. W3 + n + W < Power(LenBytes)
      BY DEF n
    <2> QED
      BY <2>1, <2>2, <2>3, CallSizes
  <1>2. s2 \in Word /\ Number(s2) = W2
    <2>1. s2 = BytesOf(W2, W)
      BY DEF W2
    <2> HIDE DEF s2
    <2>2. BytesOf(W2, W) \in [1..W -> Bytes] /\ Number(BytesOf(W2, W)) = W2
      <3> HIDE DEF W
      <3> QED
        BY <1>1, BytesOfIs
    <2> QED
      BY <2>1, <2>2 DEF Word
  <1>3. s3 \in Word /\ Number(s3) = n
    <2>1. BytesOf(n, W) \in [1..W -> Bytes] /\ Number(BytesOf(n, W)) = n
      <3> HIDE DEF W, n
      <3> QED
        BY <1>1, BytesOfIs
    <2> QED
      BY <2>1 DEF Word
  <1>4. z \in Seq(Bytes) /\ Len(z) = Padding(n)
    <2>1. z \in [1..Padding(n) -> Bytes]
      <3>1. 0 \in Bytes
        BY Widths DEF Bytes
      <3> QED
        BY <3>1 DEF Zeros
    <2> HIDE DEF z, n
    <2> QED
      BY <1>1, <2>1, SequenceIs
  <1>5. input = head \o data \o z
    BY DEF AbiEncode
  <1> HIDE DEF s2, s3, z, n, input
  <1>6. /\ hash \in Seq(Bytes) /\ Len(hash) = W /\ s2 \in Seq(Bytes) /\ Len(s2) = W
        /\ s3 \in Seq(Bytes) /\ Len(s3) = W
    <2>1. \A w \in Word : w \in Seq(Bytes) /\ Len(w) = W
      <3>1. WordBytes \in Nat
        BY CallSizes
      <3> QED
        BY <3>1, SequenceIs DEF Word
    <2> QED
      BY <1>2, <1>3, <2>1
  <1>7. /\ head \in Seq(Bytes) /\ Len(head) = W3
        /\ SubSeq(head, 0 + 1, W) = hash
        /\ SubSeq(head, W + 1, W2) = s2
        /\ SubSeq(head, W2 + 1, W3) = s3
    <2>1. head = hash \o s2 \o s3 /\ W2 = Len(hash) + Len(s2)
      BY <1>1, <1>6
    <2>2. hash \in Seq(Bytes) /\ s2 \in Seq(Bytes) /\ s3 \in Seq(Bytes)
      BY <1>6
    <2> HIDE DEF head
    <2>3. /\ head \in Seq(Bytes) /\ Len(head) = W2 + Len(s3)
          /\ SubSeq(head, 1, Len(hash)) = hash
          /\ SubSeq(head, Len(hash) + 1, W2) = s2
          /\ SubSeq(head, W2 + 1, Len(head)) = s3
      BY <2>2, <2>1, PutThree
    <2>4. Len(head) = W3 /\ 0 + 1 = 1
      BY <1>1, <1>6, <2>3
    <2> QED
      BY <1>6, <2>3, <2>4
  <1> HIDE DEF head
  <1>8. /\ input \in Seq(Bytes) /\ Len(input) = m + Len(z)
        /\ SubSeq(input, W3 + 1, m) = data
        /\ SubSeq(input, m + 1, Len(input)) = z
    <2>1. m = Len(head) + Len(data)
      BY <1>7 DEF n
    <2>2. head \in Seq(Bytes) /\ data \in Seq(Bytes) /\ z \in Seq(Bytes)
      BY <1>4, <1>7
    <2> HIDE DEF m
    <2>3. /\ input \in Seq(Bytes) /\ Len(input) = m + Len(z)
          /\ SubSeq(input, Len(head) + 1, m) = data
          /\ SubSeq(input, m + 1, Len(input)) = z
      BY <1>5, <2>2, <2>1, PutThree
    <2> QED
      BY <1>7, <2>3
  <1>9. ASSUME NEW a \in Nat, NEW b \in Nat, a <= b, b <= W3
        PROVE  SubSeq(input, a + 1, b) = SubSeq(head, a + 1, b)
    <2> DEFINE hd == head \o data
    <2>1. hd \in Seq(Bytes) /\ Len(hd) = W3 + Len(data)
      BY <1>7, Put
    <2>2. input = hd \o z
      BY <1>5
    <2>3. SubSeq(hd, a + 1, b) = SubSeq(head, a + 1, b)
      <3>1. data \in Seq(Bytes) /\ b <= Len(head)
        BY <1>7, <1>9
      <3> QED
        BY <1>7, <1>9, <3>1, PutCut
    <2> HIDE DEF hd
    <2>4. b <= Len(hd)
      BY <1>1, <1>9, <2>1 DEF n
    <2> QED
      BY <1>4, <1>9, <2>1, <2>2, <2>3, <2>4, PutCut
  <1>10. /\ SubSeq(input, 0 + 1, W) = hash
         /\ SubSeq(input, W + 1, W2) = s2
         /\ SubSeq(input, W2 + 1, W3) = s3
    <2>1. 0 \in Nat /\ 0 <= W /\ W <= W2 /\ W2 <= W3 /\ W <= W3 /\ W3 <= W3
      BY <1>1
    <2>2. SubSeq(input, 0 + 1, W) = SubSeq(head, 0 + 1, W)
      <3> DEFINE o == 0
      <3>1. o \in Nat /\ o <= W
        BY <2>1
      <3> HIDE DEF o, W
      <3>2. SubSeq(input, o + 1, W) = SubSeq(head, o + 1, W)
        BY <1>1, <1>9, <2>1, <3>1
      <3> QED
        BY <3>2 DEF o
    <2>3. /\ SubSeq(input, W + 1, W2) = SubSeq(head, W + 1, W2)
          /\ SubSeq(input, W2 + 1, W3) = SubSeq(head, W2 + 1, W3)
      <3> HIDE DEF W
      <3> QED
        BY <1>1, <1>9, <2>1
    <2> QED
      BY <1>7, <2>2, <2>3
  <1>11. DataLen(input) = n
    BY <1>3, <1>10 DEF DataLen
  <1>12. Len(input) = W3 + n + Padding(n) /\ Len(input) >= W3
    BY <1>1, <1>4, <1>8
  <1>13. WellFormed(input)
    <2>1. SubSeq(input, W3 + n + 1, W3 + n + Padding(n)) = Zeros(Padding(n))
      BY <1>8, <1>12 DEF z
    <2> QED
      BY <1>1, <1>2, <1>10, <1>11, <1>12, <2>1 DEF WellFormed
  <1>14. SubSeq(input, 1, W) = hash
    <2>1. 0 + 1 = 1
      OBVIOUS
    <2> QED
      BY <1>10, <2>1
  <1>15. DecodeVerifyCall(input) = Ok([hash |-> SubSeq(input, 1, W), combined |-> SubSeq(input, W3 + 1, W3 + n)])
    <2>1. input \in Seq(Bytes)
      BY <1>8
    <2> QED
      BY <1>11, <1>13, <2>1, VerifyCallIs
  <1>16. DecodeVerifyCall(input) = Ok([hash |-> hash, combined |-> data])
    BY <1>8, <1>14, <1>15
  <1> QED
    BY <1>8, <1>12, <1>16 DEF input

\* What the decoder accepts is the encoding of what it reads.
LEMMA CallIs ==
  ASSUME NEW input \in Seq(Bytes), DecodeVerifyCall(input).ok
  PROVE  LET call == DecodeVerifyCall(input).value
         IN /\ DecodeVerifyCall(input) = Ok(call)
            /\ call.hash \in Word /\ call.combined \in Seq(Bytes)
            /\ AbiEncode(call.hash, call.combined) = input
  <1> DEFINE W == WordBytes
             n == DataLen(input)
             m == W3 + n
             hash == SubSeq(input, 1, W)
             s2 == SubSeq(input, W + 1, W2)
             s3 == SubSeq(input, W2 + 1, W3)
             data == SubSeq(input, W3 + 1, m)
             z == SubSeq(input, m + 1, Len(input))
             d == DecodeVerifyCall(input)
  <1>1. WellFormed(input) /\ d = Ok([hash |-> hash, combined |-> data])
    <2>1. d = IF WellFormed(input) THEN Ok([hash |-> hash, combined |-> data]) ELSE Err
      BY VerifyCallIs
    <2> HIDE DEF d
    <2> QED
      BY <2>1, ResultIs DEF d
  <1>2. d.value = [hash |-> hash, combined |-> data]
    <2> HIDE DEF d, hash, data
    <2> QED
      BY <1>1, ResultIs
  <1>3. /\ Len(input) >= W3 /\ Number(s2) = W2
        /\ Len(input) = m + Padding(n)
        /\ z = Zeros(Padding(n))
    BY <1>1 DEF WellFormed
  <1>4. /\ W \in Nat /\ W2 \in Nat /\ W3 \in Nat /\ W2 = W + WordBytes /\ W3 = W2 + WordBytes
        /\ W = WordBytes /\ Len(input) \in Nat
        /\ 0 <= W /\ W <= W2 /\ W2 <= W3 /\ W <= Len(input) /\ W2 <= Len(input) /\ W3 <= Len(input)
    BY <1>3, CallSizes
  <1> HIDE DEF d
  <1>5. s2 \in Word /\ s3 \in Word
    <2> HIDE DEF W
    <2> QED
      BY <1>4, SlotIs
  <1>6. BytesOf(2 * WordBytes, WordBytes) = s2
    <2> HIDE DEF s2
    <2>1. BytesOf(Number(s2), WordBytes) = s2
      BY <1>5, ReadPaddedIs
    <2> QED
      BY <1>3, <2>1 DEF W2
  <1>7. n \in Nat /\ BytesOf(n, WordBytes) = s3
    <2>1. n = Number(s3)
      BY DEF DataLen
    <2> HIDE DEF s3, n
    <2> QED
      BY <1>5, <2>1, ReadPaddedIs
  <1>8. Padding(n) \in Nat
    <2> HIDE DEF n
    <2> QED
      BY <1>7, PaddingIs
  <1>9. m \in Nat /\ W3 <= m /\ m <= Len(input) /\ m - W3 = n /\ Len(input) <= Len(input)
    <2> HIDE DEF n
    <2> QED
      BY <1>3, <1>4, <1>7, <1>8
  <1>10. data \in Seq(Bytes) /\ Len(data) = n
    <2> HIDE DEF n
    <2> QED
      BY <1>4, <1>7, <1>9, Cut
  <1>11. hash \in Word
    <2> DEFINE o == 0
    <2>1. o \in Nat /\ W = o + WordBytes /\ o + 1 = 1
      BY <1>4
    <2> HIDE DEF o
    <2>2. SubSeq(input, o + 1, W) \in Word
      BY <1>4, <2>1, SlotIs
    <2> QED
      BY <2>1, <2>2
  <1>12. hash \o s2 \o s3 \o data \o z = input
    <2> DEFINE o == 0
               i == input
               e == Len(input)
    <2>1. e \in Nat /\ m <= e /\ e <= Len(i)
      <3> HIDE DEF m
      <3> QED
        BY <1>4, <1>9
    <2>2. o \in Nat /\ o <= W /\ o <= W2 /\ o <= W3 /\ o <= m /\ o + 1 = 1
      <3> HIDE DEF m
      <3> QED
        BY <1>4, <1>9
    <2> HIDE DEF o, W, m, e
    <2>3. SubSeq(i, o + 1, W) \o SubSeq(i, W + 1, W2) = SubSeq(i, o + 1, W2)
      BY <1>4, <2>2, CutPut
    <2>4. SubSeq(i, o + 1, W2) \o SubSeq(i, W2 + 1, W3) = SubSeq(i, o + 1, W3)
      BY <1>4, <2>2, CutPut
    <2>5. SubSeq(i, o + 1, W3) \o SubSeq(i, W3 + 1, m) = SubSeq(i, o + 1, m)
      BY <1>4, <1>9, <2>2, CutPut
    <2>6. SubSeq(i, o + 1, m) \o SubSeq(i, m + 1, e) = SubSeq(i, o + 1, e)
      BY <1>9, <2>1, <2>2, CutPut
    <2>7. SubSeq(i, 1, e) = i
      BY CutAll DEF e
    <2>8. z = SubSeq(i, m + 1, e)
      BY DEF e
    <2> QED
      BY <2>2, <2>3, <2>4, <2>5, <2>6, <2>7, <2>8
  <1>13. AbiEncode(hash, data) = hash \o s2 \o s3 \o data \o z
    <2> HIDE DEF hash, s2, s3, data, z, n
    <2> QED
      BY <1>3, <1>6, <1>7, <1>10 DEF AbiEncode
  <1> HIDE DEF hash, s2, s3, data, z
  <1>14. d.value.hash = hash /\ d.value.combined = data /\ d = Ok(d.value)
    BY <1>1, <1>2
  <1> QED
    BY <1>10, <1>11, <1>12, <1>13, <1>14 DEF d

-----------------------------------------------------------------------------
(***************************************************************************)
(* A client's call and what the chain reads.                               *)
(***************************************************************************)

\* Inputs in Alloy form that have a circuit form are its Alloy form.
LEMMA AlloyInputsBack ==
  ASSUME NEW inputs, IsInputs(inputs, AlloyValues)
  PROVE  LET circuit == ToCircuitInputs(inputs)
         IN /\ IsResult(circuit)
            /\ circuit.ok => /\ IsInputs(circuit.value, CircuitValues)
                             /\ ToAlloyInputs(circuit.value) = Ok(inputs)
  <1> DEFINE k == Len(Public)
             ty(i) == AbiTypes[Public[i]]
             circuit == ToCircuitInputs(inputs)
             r == [i \in DOMAIN inputs |-> AlloyToCircuit(ty(i), inputs[i])]
             c == [i \in DOMAIN r |-> r[i].value]
             q == [i \in DOMAIN c |-> CircuitToAlloy(ty(i), c[i])]
  <1>1. /\ DOMAIN Public = 1..k
        /\ \A i \in 1..k : Public[i] \in DOMAIN AbiTypes /\ IsPublicType(Public[i])
    BY Layout
  <1>2. /\ inputs = [i \in 1..k |-> inputs[i]]
        /\ \A i \in 1..k : inputs[i] \in AlloyValues(ty(i))
    BY <1>1 DEF IsInputs
  <1>3. circuit = Collect(r)
    BY DEF ToCircuitInputs
  <1>4. IsResult(circuit)
    <2> HIDE DEF r
    <2> QED
      BY <1>3, CollectIs
  <1>5. ASSUME circuit.ok
        PROVE  /\ IsInputs(circuit.value, CircuitValues)
               /\ ToAlloyInputs(circuit.value) = Ok(inputs)
    <2>1. DOMAIN r = 1..k /\ \A i \in 1..k : r[i] = AlloyToCircuit(ty(i), inputs[i])
      BY <1>2
    <2> HIDE DEF r
    <2>2. Collect(r) = Ok(c) /\ \A i \in DOMAIN r : r[i].ok
      <3> HIDE DEF circuit, c
      <3> QED
        BY <1>3, <1>5, CollectIs DEF c
    <2>3. circuit.value = c
      <3> HIDE DEF circuit, c
      <3> QED
        BY <1>3, <2>2, ResultIs
    <2>4. DOMAIN c = 1..k /\ c = [i \in 1..k |-> c[i]] /\ \A i \in 1..k : c[i] = r[i].value
      BY <2>1
    <2> HIDE DEF c
    <2>5. DOMAIN q = 1..k /\ \A i \in 1..k : q[i] = CircuitToAlloy(ty(i), c[i])
      BY <2>4
    <2> HIDE DEF q
    <2>6. ASSUME NEW i \in 1..k
          PROVE  c[i] \in CircuitValues(ty(i)) /\ q[i] = Ok(inputs[i])
      <3> DEFINE t == Public[i]
                 v == inputs[i]
                 x == AlloyToCircuit(AbiTypes[t], v)
      <3>1. t \in DOMAIN AbiTypes /\ IsPublicType(t) /\ v \in AlloyValues(AbiTypes[t])
        BY <1>1, <1>2
      <3>2. r[i] = x /\ x.ok /\ c[i] = x.value
        <4>1. r[i] = x
          BY <2>1
        <4>2. r[i].ok /\ c[i] = r[i].value
          BY <2>1, <2>2, <2>4
        <4> HIDE DEF x
        <4> QED
          BY <4>1, <4>2
      <3>3. x.ok => x.value \in CircuitValues(AbiTypes[t]) /\ CircuitToAlloy(AbiTypes[t], x.value) = Ok(v)
        <4> HIDE DEF t, v
        <4> QED
          BY <3>1, AlloyBack
      <3>4. q[i] = CircuitToAlloy(AbiTypes[t], c[i])
        BY <2>5
      <3> HIDE DEF x
      <3> QED
        BY <3>2, <3>3, <3>4
    <2>7. IsInputs(c, CircuitValues)
      BY <1>1, <2>4, <2>6 DEF IsInputs
    <2>8. ToAlloyInputs(c) = Collect(q)
      BY DEF ToAlloyInputs, q
    <2>9. Collect(q) = Ok([i \in DOMAIN q |-> q[i].value])
      <3>1. \A i \in DOMAIN q : q[i].ok
        BY <2>5, <2>6, ResultIs
      <3> QED
        BY <3>1, CollectIs
    <2>10. [i \in DOMAIN q |-> q[i].value] = inputs
      <3>1. \A i \in 1..k : q[i].value = inputs[i]
        BY <2>6, ResultIs
      <3> QED
        BY <1>2, <2>5, <3>1
    <2> HIDE DEF circuit
    <2> QED
      BY <2>3, <2>7, <2>8, <2>9, <2>10
  <1> QED
    BY <1>4, <1>5

\* A call that was encoded: its bytes, and the inputs that they carry.
CallFor(hash, c, proof) ==
  IF proof \in [1..ProofWords -> Word] /\ ToAlloyInputs(c).ok
  THEN Ok(AbiEncode(hash, Combined(VerifierInputs(c), proof))) ELSE Err

\* Encoding a call of circuit values and a proof succeeds when the proof has its
\* length and the values convert, and gives the ABI call of their combined proof.
LEMMA CallForIs ==
  ASSUME NEW hash, NEW c, IsInputs(c, CircuitValues), NEW proof \in Seq(Seq(Bytes))
  PROVE  Then(EncodeCombined(c, proof), LAMBDA combined : Ok(AbiEncode(hash, combined)))
           = CallFor(hash, c, proof)
  <1> DEFINE e == EncodeCombined(c, proof)
             b == Combined(VerifierInputs(c), proof)
  <1>1. Then(e, LAMBDA combined : Ok(AbiEncode(hash, combined)))
          = IF e.ok THEN Ok(AbiEncode(hash, e.value)) ELSE Err
    BY DEF Then
  <1>2. e = IF proof \in [1..ProofWords -> Word] /\ ToAlloyInputs(c).ok THEN Ok(b) ELSE Err
    BY EncodeIs
  <1> HIDE DEF e, b
  <1>3. CASE proof \in [1..ProofWords -> Word] /\ ToAlloyInputs(c).ok
    <2>1. e.ok /\ e.value = b
      BY <1>2, <1>3, ResultIs
    <2> QED
      BY <1>1, <1>3, <2>1 DEF CallFor, b, e
  <1>4. CASE ~(proof \in [1..ProofWords -> Word] /\ ToAlloyInputs(c).ok)
    <2>1. ~e.ok
      BY <1>2, <1>4, ResultIs
    <2> QED
      BY <1>1, <1>4, <2>1 DEF CallFor, e
  <1> QED
    BY <1>3, <1>4

Sent(x) ==
  /\ IsResult(x.circuit) /\ x.proof \in Seq(Seq(Bytes))
  /\ x.circuit.ok => /\ IsInputs(x.circuit.value, CircuitValues)
                     /\ x.given = ToAlloyInputs(x.circuit.value)
                     /\ x.call = CallFor(CircuitHash, x.circuit.value, x.proof)
  /\ ~x.circuit.ok => x.call = Err

\* What the chain makes of a call.
Reading(x) ==
  LET call    == DecodeVerifyCall(x.call.value)
      circuit == Then(call, LAMBDA c : DecodePublicInputs(c.combined))
  IN [sent    |-> x,
      hash    |-> Then(call, LAMBDA c : Ok(c.hash)),
      circuit |-> circuit,
      alloy   |-> Then(circuit, LAMBDA p : ToAlloyInputs(p)),
      split   |-> Then(call, LAMBDA c : SplitCombined(c.combined))]

\* What Receive makes of a call that decodes: the hash, and the four results that
\* come from the combined bytes of the call.
LEMMA ReadingIs ==
  ASSUME NEW x, NEW h, NEW b, DecodeVerifyCall(x.call.value) = Ok([hash |-> h, combined |-> b])
  PROVE  /\ Reading(x).sent = x
         /\ Reading(x).hash = Ok(h)
         /\ Reading(x).circuit = DecodePublicInputs(b)
         /\ Reading(x).split = SplitCombined(b)
         /\ DecodePublicInputs(b).ok =>
              Reading(x).alloy = ToAlloyInputs(DecodePublicInputs(b).value)
  <1> DEFINE call == DecodeVerifyCall(x.call.value)
             v == [hash |-> h, combined |-> b]
             d == DecodePublicInputs(b)
  <1>1. call.ok /\ call.value = v
    BY ResultIs
  <1>2. v.hash = h /\ v.combined = b
    OBVIOUS
  <1> HIDE DEF v, call
  <1>3. /\ Then(call, LAMBDA c : Ok(c.hash)) = Ok(h)
        /\ Then(call, LAMBDA c : DecodePublicInputs(c.combined)) = d
        /\ Then(call, LAMBDA c : SplitCombined(c.combined)) = SplitCombined(b)
    BY <1>1, <1>2 DEF Then
  <1>4. Reading(x) = [sent    |-> x,
                      hash    |-> Ok(h),
                      circuit |-> d,
                      alloy   |-> Then(d, LAMBDA p : ToAlloyInputs(p)),
                      split   |-> SplitCombined(b)]
    BY <1>3 DEF Reading, call
  <1>5. d.ok => Then(d, LAMBDA p : ToAlloyInputs(p)) = ToAlloyInputs(d.value)
    BY DEF Then
  <1> HIDE DEF d
  <1> QED
    BY <1>4, <1>5 DEF d

\* Inputs and bytes of a call that is on its way.
LEMMA SentIs ==
  ASSUME NEW x, Sent(x), x.call.ok
  PROVE  LET c == x.circuit.value
             b == Combined(VerifierInputs(c), x.proof)
         IN /\ x.circuit = Ok(c) /\ IsInputs(c, CircuitValues)
            /\ x.given = ToAlloyInputs(c) /\ ToAlloyInputs(c).ok
            /\ x.proof \in [1..ProofWords -> Word]
            /\ x.call = Ok(x.call.value)
            /\ x.call.value \in Seq(Bytes) /\ Len(x.call.value) >= W3
            /\ DecodeVerifyCall(x.call.value) = Ok([hash |-> CircuitHash, combined |-> b])
  <1> DEFINE c == x.circuit.value
             b == Combined(VerifierInputs(c), x.proof)
             bytes == AbiEncode(CircuitHash, b)
  <1>1. x.circuit.ok
    BY ResultIs DEF Sent
  <1>2. /\ x.circuit = Ok(c) /\ IsInputs(c, CircuitValues) /\ x.given = ToAlloyInputs(c)
        /\ x.call = CallFor(CircuitHash, c, x.proof)
    BY <1>1, ResultKinds DEF Sent
  <1>3. x.proof \in [1..ProofWords -> Word] /\ ToAlloyInputs(c).ok /\ x.call = Ok(bytes)
    <2> DEFINE good == x.proof \in [1..ProofWords -> Word] /\ ToAlloyInputs(c).ok
    <2>1. x.call = IF good THEN Ok(bytes) ELSE Err
      BY <1>2 DEF CallFor
    <2> HIDE DEF good, bytes
    <2>2. good /\ x.call = Ok(bytes)
      BY <2>1, ResultIs
    <2> QED
      BY <2>2 DEF good
  <1>4. x.call.value = bytes
    <2> HIDE DEF bytes
    <2> QED
      BY <1>3, ResultIs
  <1>5. b \in Seq(Bytes) /\ Len(b) = CombinedLen(PublicInputCount)
    <2> HIDE DEF c
    <2> QED
      BY <1>2, <1>3, InputsArrive
  <1>6. /\ bytes \in Seq(Bytes) /\ Len(bytes) >= W3
        /\ DecodeVerifyCall(bytes) = Ok([hash |-> CircuitHash, combined |-> b])
    <2>1. CircuitHash \in Word /\ W3 + Len(b) + WordBytes < Power(LenBytes)
      BY <1>5, InputsAssumption, CallSizes
    <2> HIDE DEF b
    <2> QED
      BY <1>5, <2>1, CallArrives
  <1> HIDE DEF bytes, b
  <1> QED
    BY <1>2, <1>3, <1>4, <1>6 DEF b

\* What arrives as it was sent is read as it was meant.
LEMMA IntactRead ==
  ASSUME NEW x, Sent(x), x.call.ok
  PROVE  /\ Reading(x).sent = x /\ Reading(x).hash = Ok(CircuitHash)
         /\ Reading(x).circuit = x.circuit /\ Reading(x).alloy = x.given
         /\ Reading(x).split.ok /\ Reading(x).split.value.proof = x.proof
  <1> DEFINE c == x.circuit.value
             b == Combined(VerifierInputs(c), x.proof)
             split == [public |-> VerifierInputs(c), proof |-> x.proof]
  <1>1. /\ x.circuit = Ok(c) /\ IsInputs(c, CircuitValues)
        /\ x.given = ToAlloyInputs(c) /\ ToAlloyInputs(c).ok
        /\ x.proof \in [1..ProofWords -> Word]
        /\ DecodeVerifyCall(x.call.value) = Ok([hash |-> CircuitHash, combined |-> b])
    BY SentIs
  <1> HIDE DEF c
  <1>2. DecodePublicInputs(b) = Ok(c) /\ SplitCombined(b) = Ok(split)
    <2>1. /\ DecodePublicInputs(b) = IF ToAlloyInputs(c).ok THEN Ok(c) ELSE Err
          /\ SplitCombined(b) = Ok(split)
      BY <1>1, InputsArrive
    <2> QED
      BY <1>1, <2>1
  <1> HIDE DEF b
  <1>3. DecodePublicInputs(b).ok /\ DecodePublicInputs(b).value = c
    BY <1>2, ResultIs
  <1>4. SplitCombined(b).ok /\ SplitCombined(b).value = split
    BY <1>2, ResultIs
  <1>5. split.proof = x.proof
    OBVIOUS
  <1> HIDE DEF split
  <1>6. /\ Reading(x).sent = x /\ Reading(x).hash = Ok(CircuitHash)
        /\ Reading(x).circuit = DecodePublicInputs(b)
        /\ Reading(x).split = SplitCombined(b)
        /\ Reading(x).alloy = ToAlloyInputs(DecodePublicInputs(b).value)
    BY <1>1, <1>3, ReadingIs
  <1> QED
    BY <1>1, <1>2, <1>3, <1>4, <1>5, <1>6

\* What is read, of any bytes, has one encoding: those bytes.
LEMMA ReadOne ==
  ASSUME NEW x, x.call = Ok(x.call.value), x.call.value \in Seq(Bytes), Reading(x).circuit.ok
  PROVE  LET y == Reading(x)
         IN /\ y.alloy.ok /\ y.split.ok /\ y.sent = x
            /\ y.split.value.public = VerifierInputs(y.circuit.value)
            /\ Then(EncodeCombined(y.circuit.value, y.split.value.proof),
                    LAMBDA combined : Ok(AbiEncode(y.hash.value, combined))) = x.call
  <1> DEFINE y == Reading(x)
             input == x.call.value
             call == DecodeVerifyCall(input)
             h == call.value.hash
             b == call.value.combined
             c == DecodePublicInputs(b).value
             proof == WordsOf(SubSeq(b, Header + 1, Len(b)))
             split == [public |-> VerifierInputs(c), proof |-> proof]
  <1>1. call.ok
    <2>1. ~call.ok => y.circuit = Err
      <3> DEFINE none == Then(call, LAMBDA u : DecodePublicInputs(u.combined))
      <3>1. ~call.ok => none = Err
        BY DEF Then
      <3>2. Err.ok = FALSE /\ Then(Err, LAMBDA p : ToAlloyInputs(p)) = Err
        BY ResultIs DEF Then
      <3>3. y.circuit = none
        BY DEF Reading
      <3> HIDE DEF none, y
      <3> QED
        BY <3>1, <3>3
    <2> HIDE DEF y, call
    <2> QED
      BY <2>1, ResultIs DEF y
  <1>2. /\ call = Ok(call.value) /\ h \in Word /\ b \in Seq(Bytes)
        /\ AbiEncode(h, b) = input
    <2> HIDE DEF input
    <2>1. input \in Seq(Bytes)
      BY DEF input
    <2> QED
      BY <1>1, <2>1, CallIs
  <1>3. call = Ok([hash |-> h, combined |-> b])
    <2> DEFINE good == Ok([hash |-> SubSeq(input, 1, WordBytes),
                           combined |-> SubSeq(input, W3 + 1, W3 + DataLen(input))])
    <2>1. call = IF WellFormed(input) THEN good ELSE Err
      BY VerifyCallIs
    <2>2. call = good
      <3> HIDE DEF call, good
      <3> QED
        BY <1>1, <2>1, ResultIs
    <2>3. call = Ok([hash |-> SubSeq(input, 1, WordBytes),
                     combined |-> SubSeq(input, W3 + 1, W3 + DataLen(input))])
      BY <2>2
    <2>4. call.value = [hash |-> SubSeq(input, 1, WordBytes),
                        combined |-> SubSeq(input, W3 + 1, W3 + DataLen(input))]
      <3> HIDE DEF call
      <3> QED
        BY <2>3, ResultIs
    <2> HIDE DEF call
    <2> QED
      BY <2>3, <2>4
  <1> HIDE DEF h, b
  <1>4. /\ y.sent = x /\ y.hash = Ok(h)
        /\ y.circuit = DecodePublicInputs(b)
        /\ y.split = SplitCombined(b)
        /\ DecodePublicInputs(b).ok => y.alloy = ToAlloyInputs(DecodePublicInputs(b).value)
    BY <1>3, ReadingIs
  <1>5. DecodePublicInputs(b).ok
    <2> HIDE DEF y
    <2> QED
      BY <1>4 DEF y
  <1>6. /\ IsInputs(c, CircuitValues) /\ ToAlloyInputs(c).ok
        /\ proof \in [1..ProofWords -> Word]
        /\ b = Combined(VerifierInputs(c), proof)
        /\ SplitCombined(b) = Ok(split)
    BY <1>2, <1>5, ArrivedIs
  <1>7. y.circuit.value = c /\ y.alloy = ToAlloyInputs(c)
    BY <1>4, <1>5
  <1> HIDE DEF c, proof, y
  <1>8. y.split.ok /\ y.split.value.public = VerifierInputs(c) /\ y.split.value.proof = proof
    <2>1. y.split.ok /\ y.split.value = split
      <3> HIDE DEF split
      <3> QED
        BY <1>4, <1>6, ResultIs
    <2> QED
      BY <2>1
  <1>9. y.hash.value = h
    BY <1>4, ResultIs
  <1>10. Then(EncodeCombined(c, proof), LAMBDA combined : Ok(AbiEncode(h, combined))) = x.call
    <2>1. proof \in Seq(Seq(Bytes))
      <3>1. ProofWords \in Nat /\ WordBytes \in Nat
        BY SizesAre
      <3>2. \A w \in Word : w \in Seq(Bytes)
        BY <3>1, SequenceIs DEF Word
      <3>3. proof \in [1..ProofWords -> Seq(Bytes)]
        BY <1>6, <3>2
      <3> QED
        BY <3>1, <3>3, SequenceIs
    <2>2. Then(EncodeCombined(c, proof), LAMBDA combined : Ok(AbiEncode(h, combined)))
            = CallFor(h, c, proof)
      BY <1>6, <2>1, CallForIs
    <2>3. CallFor(h, c, proof) = Ok(AbiEncode(h, Combined(VerifierInputs(c), proof)))
      BY <1>6 DEF CallFor
    <2>4. Ok(input) = x.call
      OBVIOUS
    <2> QED
      BY <1>2, <1>6, <2>2, <2>3, <2>4
  <1>11. Then(EncodeCombined(y.circuit.value, y.split.value.proof),
              LAMBDA combined : Ok(AbiEncode(y.hash.value, combined))) = x.call
    BY <1>7, <1>8, <1>9, <1>10
  <1> QED
    BY <1>4, <1>6, <1>7, <1>8, <1>11 DEF y

\* However a call is altered, it stays a sequence of bytes.
LEMMA AlteredAre ==
  ASSUME NEW bytes \in Seq(Bytes), Len(bytes) >= W3, NEW u \in Alterations(bytes)
  PROVE  u \in Seq(Bytes)
  <1>1. /\ WordBytes \in Nat /\ WordBytes > 0 /\ W2 = 2 * WordBytes /\ W2 \in Nat
        /\ W3 = W2 + WordBytes /\ W2 = WordBytes + WordBytes
        /\ Base \in Nat /\ Base > 1 /\ Len(bytes) \in Nat
    BY CallSizes, Widths DEF W2
  <1>2. ASSUME NEW i \in DOMAIN bytes, NEW d \in {1, Base - 1},
               u = [bytes EXCEPT ![i] = (@ + d) % Base]
        PROVE  u \in Seq(Bytes)
    <2>1. bytes[i] \in Bytes /\ d \in Int
      BY <1>1
    <2>2. (bytes[i] + d) % Base \in Bytes
      <3> DEFINE s == bytes[i] + d
      <3>1. s \in Int
        BY <2>1 DEF Bytes
      <3> HIDE DEF s
      <3>2. s % Base \in 0..Base-1
        BY <1>1, <3>1, DivMod
      <3> QED
        BY <3>2 DEF s, Bytes
    <2> HIDE DEF Bytes
    <2> QED
      BY <1>2, <2>2
  <1>3. ASSUME NEW n \in {0, WordBytes, 2 * WordBytes, Len(bytes) - WordBytes, Len(bytes) - 1},
               u = SubSeq(bytes, 1, n)
        PROVE  u \in Seq(Bytes)
    <2>1. n \in Nat /\ n <= Len(bytes)
      BY <1>1
    <2> DEFINE o == 0
    <2>2. o \in Nat /\ o <= n /\ o + 1 = 1
      BY <2>1
    <2> HIDE DEF o
    <2>3. SubSeq(bytes, o + 1, n) \in Seq(Bytes)
      BY <2>1, <2>2, Cut
    <2> QED
      BY <1>3, <2>2, <2>3
  <1>4. ASSUME NEW n \in {1, WordBytes}, u = bytes \o Zeros(n) PROVE u \in Seq(Bytes)
    <2>1. n \in Nat /\ 0 \in Bytes
      BY <1>1 DEF Bytes
    <2>2. Zeros(n) \in Seq(Bytes)
      BY <2>1 DEF Zeros
    <2> QED
      BY <1>4, <2>2, Put
  <1> QED
    BY <1>2, <1>3, <1>4 DEF Alterations

-----------------------------------------------------------------------------
(***************************************************************************)
(* The invariant.                                                          *)
(***************************************************************************)

\* Beside what holds of a call that was sent or read: what was altered is bytes.
WireInv ==
  /\ stage = "sent" => Sent(item)
  /\ stage = "altered" => item.call = Ok(item.call.value) /\ item.call.value \in Seq(Bytes)
  /\ IntactArrives
  /\ ReadIsCanonical

\* A call is encoded of inputs that have both forms.
LEMMA EncodeKeeps ==
  ASSUME NEW given, NEW circuit, NEW witness, NEW proof \in Seq(Seq(Bytes)),
         IsResult(circuit),
         circuit.ok => IsInputs(circuit.value, CircuitValues) /\ given = ToAlloyInputs(circuit.value),
         Encode(given, circuit, witness, proof)
  PROVE  WireInv'
  <1> DEFINE c == circuit.value
             solver == Then(circuit, LAMBDA u : Ok(WitnessFields(witness, u)))
             call == Then(circuit, LAMBDA u :
                       Then(EncodeCombined(u, proof), LAMBDA combined :
                         Ok(AbiEncode(CircuitHash, combined))))
  <1>1. /\ stage' = "sent" /\ item'.given = given /\ item'.circuit = circuit
        /\ item'.proof = proof /\ item'.solver = solver /\ item'.call = call
    <2>1. /\ stage' = "sent"
          /\ item' = [given |-> given, circuit |-> circuit, proof |-> proof,
                      solver |-> solver, call |-> call]
      BY DEF Encode
    <2> HIDE DEF solver, call
    <2> QED
      BY <2>1
  <1>2. /\ circuit.ok => call = CallFor(CircuitHash, c, proof)
        /\ ~circuit.ok => call = Err
    <2>1. /\ ~circuit.ok => call = Err
          /\ circuit.ok => call = Then(EncodeCombined(c, proof), LAMBDA combined :
                                         Ok(AbiEncode(CircuitHash, combined)))
      BY DEF Then
    <2> HIDE DEF c, call
    <2>2. circuit.ok => IsInputs(c, CircuitValues)
      BY DEF c
    <2> QED
      BY <2>1, <2>2, CallForIs
  <1>3. /\ circuit.ok => solver = Ok(WitnessFields(witness, c))
        /\ ~circuit.ok => solver = Err
    BY DEF Then
  <1> HIDE DEF solver, call
  <1>4. Sent(item')
    BY <1>1, <1>2 DEF Sent
  <1>5. item'.call.ok <=> item'.given.ok /\ item'.circuit.ok /\ item'.proof \in [1..ProofWords -> Word]
    <2>1. CASE circuit.ok
      <3> DEFINE good == proof \in [1..ProofWords -> Word] /\ ToAlloyInputs(c).ok
      <3>1. call = IF good THEN Ok(AbiEncode(CircuitHash, Combined(VerifierInputs(c), proof))) ELSE Err
        BY <1>2, <2>1 DEF CallFor
      <3>2. good <=> given.ok /\ proof \in [1..ProofWords -> Word]
        BY <2>1
      <3> HIDE DEF good
      <3>3. call.ok <=> good
        BY <3>1, ResultIs
      <3> QED
        BY <1>1, <2>1, <3>2, <3>3
    <2>2. CASE ~circuit.ok
      <3>1. ~call.ok
        BY <1>2, <2>2, ResultIs
      <3> QED
        BY <1>1, <2>2, <3>1
    <2> QED
      BY <2>1, <2>2
  <1>6. ASSUME item'.solver.ok, NEW i \in DOMAIN Abi, Abi[i].public
        PROVE  LET leaves == AbiLeaves(Abi[i].type, item'.circuit.value[Rank(i)])
                   first  == Offset([j \in DOMAIN Abi |-> Abi[j].type], i - 1)
               IN SubSeq(item'.solver.value, first + 1, first + Len(leaves)) = leaves
    <2>1. solver = Ok(WitnessFields(witness, c))
      BY <1>1, <1>3, <1>6, ResultIs
    <2>2. item'.solver.value = WitnessFields(witness, c) /\ item'.circuit.value = c
      BY <1>1, <2>1, ResultIs
    <2> HIDE DEF c
    <2> DEFINE leaves == AbiLeaves(Abi[i].type, c[Rank(i)])
               first == Offset([j \in DOMAIN Abi |-> Abi[j].type], i - 1)
    <2>3. SubSeq(WitnessFields(witness, c), first + 1, first + Len(leaves)) = leaves
      BY <1>6, SolverSlots
    <2> QED
      BY <2>2, <2>3
  <1>7. IntactArrives'
    <2>1. stage' # "received"
      BY <1>1
    <2> QED
      BY <1>5, <1>6, <2>1 DEF IntactArrives
  <1>8. ReadIsCanonical'
    <2>1. stage' \notin {"received", "read"}
      BY <1>1
    <2> QED
      BY <2>1 DEF ReadIsCanonical
  <1>9. stage' # "altered"
    BY <1>1
  <1> QED
    BY <1>4, <1>7, <1>8, <1>9 DEF WireInv

\* Altering a call in flight keeps the invariant: the altered input is again a
\* sequence of bytes.
LEMMA AlterKeeps ==
  ASSUME WireInv, Alter
  PROVE  WireInv'
  <1>1. /\ stage = "sent" /\ item.call.ok /\ stage' = "altered"
        /\ \E u \in Alterations(item.call.value) : item' = [call |-> Ok(u)]
    BY DEF Alter
  <1>2. Sent(item)
    BY <1>1 DEF WireInv
  <1> DEFINE bytes == item.call.value
  <1>3. bytes \in Seq(Bytes) /\ Len(bytes) >= W3
    BY <1>1, <1>2, SentIs
  <1>4. PICK u \in Alterations(bytes) : item' = [call |-> Ok(u)]
    BY <1>1
  <1> HIDE DEF bytes
  <1>5. u \in Seq(Bytes)
    BY <1>3, AlteredAre
  <1>6. item'.call = Ok(u) /\ item'.call.value = u
    BY <1>4, ResultIs
  <1>7. IntactArrives' /\ ReadIsCanonical'
    BY <1>1 DEF IntactArrives, ReadIsCanonical
  <1> QED
    BY <1>1, <1>5, <1>6, <1>7 DEF WireInv

\* Reading a call keeps the invariant: an intact call arrives as it was sent, and
\* an altered one that is accepted is the encoding of what was read.
LEMMA ReceiveKeeps ==
  ASSUME WireInv, Receive
  PROVE  WireInv'
  <1>1. /\ stage \in {"sent", "altered"} /\ item.call.ok
        /\ stage' = IF stage = "sent" THEN "received" ELSE "read"
    BY DEF Receive
  <1>2. item' = Reading(item)
    BY DEF Receive, Reading
  <1>3. /\ stage = "sent" => Sent(item)
        /\ item.call = Ok(item.call.value) /\ item.call.value \in Seq(Bytes)
    BY <1>1, SentIs DEF WireInv
  <1> DEFINE y == Reading(item)
  <1>4. IntactArrives'
    <2>1. stage' # "sent"
      BY <1>1
    <2>2. ASSUME stage' = "received"
          PROVE  /\ item'.hash = Ok(CircuitHash)
                 /\ item'.circuit = item'.sent.circuit /\ item'.alloy = item'.sent.given
                 /\ item'.split.ok /\ item'.split.value.proof = item'.sent.proof
      <3>1. Sent(item)
        BY <1>1, <1>3, <2>2
      <3>2. /\ y.sent = item /\ y.hash = Ok(CircuitHash)
            /\ y.circuit = item.circuit /\ y.alloy = item.given
            /\ y.split.ok /\ y.split.value.proof = item.proof
        BY <1>1, <3>1, IntactRead
      <3> HIDE DEF y
      <3> QED
        BY <1>2, <3>2 DEF y
    <2> QED
      BY <2>1, <2>2 DEF IntactArrives
  <1>5. ReadIsCanonical'
    <2>1. ASSUME item'.circuit.ok
          PROVE  /\ item'.alloy.ok /\ item'.split.ok
                 /\ item'.split.value.public = VerifierInputs(item'.circuit.value)
                 /\ Then(EncodeCombined(item'.circuit.value, item'.split.value.proof),
                         LAMBDA combined : Ok(AbiEncode(item'.hash.value, combined)))
                      = item'.sent.call
      <3>1. y.circuit.ok
        BY <1>2, <2>1
      <3>2. /\ y.alloy.ok /\ y.split.ok /\ y.sent = item
            /\ y.split.value.public = VerifierInputs(y.circuit.value)
            /\ Then(EncodeCombined(y.circuit.value, y.split.value.proof),
                    LAMBDA combined : Ok(AbiEncode(y.hash.value, combined))) = item.call
        BY <1>3, <3>1, ReadOne
      <3> HIDE DEF y
      <3> QED
        BY <1>2, <3>2 DEF y
    <2> QED
      BY <2>1 DEF ReadIsCanonical, Then
  <1>6. stage' \notin {"sent", "altered"}
    BY <1>1
  <1> QED
    BY <1>4, <1>5, <1>6 DEF WireInv

\* Every step of the client keeps the invariant; the steps of the producer leave
\* the calls alone.
LEMMA ClientKeeps ==
  ASSUME WireInv, [Next]_vars
  PROVE  WireInv'
  <1>1. CASE Produce
    <2>1. stage' \in {"hashed", "reordered", "signed"}
      BY <1>1 DEF Produce, HashEntity, HashReordered, Sign
    <2> QED
      BY <2>1 DEF WireInv, IntactArrives, ReadIsCanonical
  <1>2. ASSUME NEW inputs \in AlloyInputs, NEW w, NEW proof \in Proofs,
               SubmitAlloy(inputs, w, proof)
        PROVE  WireInv'
    <2> DEFINE circuit == ToCircuitInputs(inputs)
               given == Ok(inputs)
    <2>1. /\ IsResult(circuit)
          /\ circuit.ok => IsInputs(circuit.value, CircuitValues) /\ given = ToAlloyInputs(circuit.value)
      BY InputsAssumption, AlloyInputsBack
    <2>2. Encode(given, circuit, w, proof)
      BY <1>2 DEF SubmitAlloy
    <2>3. proof \in Seq(Seq(Bytes))
      BY InputsAssumption
    <2> HIDE DEF circuit, given
    <2> QED
      BY <2>1, <2>2, <2>3, EncodeKeeps
  <1>3. ASSUME NEW inputs \in CircuitInputs, NEW w, NEW proof \in Proofs,
               SubmitCircuit(inputs, w, proof)
        PROVE  WireInv'
    <2> DEFINE circuit == Ok(inputs)
               given == ToAlloyInputs(inputs)
    <2>1. circuit.ok /\ circuit.value = inputs /\ IsResult(circuit)
      BY ResultIs DEF IsResult
    <2>2. Encode(given, circuit, w, proof)
      BY <1>3 DEF SubmitCircuit
    <2>3. proof \in Seq(Seq(Bytes)) /\ IsInputs(inputs, CircuitValues)
      BY InputsAssumption
    <2>4. IsInputs(circuit.value, CircuitValues) /\ given = ToAlloyInputs(circuit.value)
      BY <2>1, <2>3
    <2> HIDE DEF circuit, given
    <2> QED
      BY <2>1, <2>2, <2>3, <2>4, EncodeKeeps
  <1>4. CASE Alter
    BY <1>4, AlterKeeps
  <1>5. CASE Receive
    BY <1>5, ReceiveKeeps
  <1>6. CASE UNCHANGED vars
    BY <1>6 DEF vars, WireInv, IntactArrives, ReadIsCanonical, Then
  <1> QED
    BY <1>1, <1>2, <1>3, <1>4, <1>5, <1>6 DEF Next

\* The invariant holds of every client.
LEMMA WireHolds == Spec => []WireInv
  <1>1. Init => WireInv
    BY DEF Init, WireInv, IntactArrives, ReadIsCanonical
  <1>2. WireInv /\ [Next]_vars => WireInv'
    BY ClientKeeps
  <1> QED
    BY <1>1, <1>2, PTL DEF Spec

\* For every ABI whose public parameters the crate builds with, every width and
\* field order: the solver finds every public parameter at its slot, a call is
\* encoded exactly when its inputs have both forms and its proof the right
\* length, and what nobody altered is read as it was meant (build.rs
\* generate_types, combined.rs, verify_call.rs).
THEOREM CallsArrive == Spec => []IntactArrives
  <1>1. WireInv => IntactArrives
    BY DEF WireInv
  <1> QED
    BY <1>1, WireHolds, PTL

\* And whatever bytes arrive, what the decoders accept is the one encoding of
\* what they read, and bb is handed those public inputs (verify_call.rs,
\* combined.rs, verify_combined).
THEOREM CallsAreCanonical == Spec => []ReadIsCanonical
  <1>1. WireInv => ReadIsCanonical
    BY DEF WireInv
  <1> QED
    BY <1>1, WireHolds, PTL
=============================================================================
