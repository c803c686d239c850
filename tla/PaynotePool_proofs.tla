------------------------- MODULE PaynotePool_proofs -------------------------
(***************************************************************************)
(* Proofs about PaynotePool, for every value of its constants.  The        *)
(* argument: a settled input puts the nullifier of its leaf in the         *)
(* nullifier set, where it stays (SpentIsUsed); only equal careless leaves *)
(* share a nullifier, because a careful leaf never repeats (UniqueLeaves); *)
(* and it never repeats because the key of a careful output is rotated out *)
(* of a careful leaf not yet consumed, or fresh (KeysOrigin,               *)
(* MergeKeysFresh), and no careless wallet has it (KeysApart).             *)
(***************************************************************************)
EXTENDS PaynotePool, Sums_proofs, FiniteSetTheorems, SequenceTheorems, TLAPS

-----------------------------------------------------------------------------
\* Facts about the hash terms and about Append.

\* A commitment determines chain, spend key, asset and amount (collision
\* resistance of Poseidon2 over the note formulas).
LEMMA CommitmentInjective ==
  ASSUME NEW c, NEW n, NEW d, NEW m, n # NoNote,
         OutputCommitment(c, n) = OutputCommitment(d, m)
  PROVE  /\ m # NoNote
         /\ c = d
         /\ n.key = m.key
         /\ n.asset = m.asset
         /\ n.amount = m.amount
  BY DEF OutputCommitment, NoteCommitment, NoteSn, HashMulti, PaynoteTag, Tag, Zero

\* A nullifier determines its leaf and its spend key.
LEMMA NullifierInjective ==
  ASSUME NEW c, NEW k, NEW d, NEW l, NoteNullifier(c, k) = NoteNullifier(d, l)
  PROVE  c = d /\ k = l
  BY DEF NoteNullifier, HashMulti

\* A change key determines the key and the nullifier it was rotated from.
LEMMA ChangeKeyInjective ==
  ASSUME NEW k, NEW n, NEW l, NEW m, ChangeKey(k, n) = ChangeKey(l, m)
  PROVE  k = l /\ n = m
  BY DEF ChangeKey, HashMulti

\* A drawn key is no rotated key, and neither is zero.
LEMMA KeyKinds ==
  ASSUME NEW k, NEW n, NEW s, NEW t
  PROVE  /\ Secret(s) # ChangeKey(k, n)
         /\ Secret(s) = Secret(t) => s = t
         /\ Zero # Secret(s)
         /\ Zero # ChangeKey(k, n)
  BY DEF Secret, ChangeKey, HashMulti, PaynoteTag, Tag, Zero, PAYNOTE_DOMAIN

\* No serial, commitment or nullifier is the zero element: the zero checks of
\* the circuits never stop an honest prover.
LEMMA HashesNonzero ==
  ASSUME NEW c, NEW s, NEW a, NEW v, NEW k
  PROVE  /\ Zero # NoteSn(k)
         /\ Zero # NoteCommitment(c, s, a, v)
         /\ Zero # NoteNullifier(c, k)
  BY DEF NoteSn, NoteCommitment, NoteNullifier, HashMulti, PaynoteTag, Tag, Zero,
         PAYNOTE_DOMAIN

\* A careless wallet that computes a rotated key has the key it came from.
LEMMA CarelessRotates ==
  ASSUME NEW k, NEW n, ChangeKey(k, n) \in CarelessKeys
  PROVE  k \in CarelessKeys
  <1> DEFINE key == ChangeKey(k, n)
  <1>1. key[1] = PaynoteTag("CHANGE_KEY") /\ key[2][1] = k
    BY DEF ChangeKey, HashMulti
  <1> HIDE DEF key
  <1>2. key \in CarelessKeys
    BY DEF key
  <1> QED  BY <1>1, <1>2, CarelessAssumption

\* Append keeps what was there and adds one element at the end.
LEMMA AppendFacts ==
  ASSUME NEW s, s \in Seq(Elements(s)), NEW e
  PROVE  LET t == Append(s, e)
         IN /\ t \in Seq(Elements(t))
            /\ Len(s) \in Nat
            /\ DOMAIN s = 1..Len(s)
            /\ Len(t) = Len(s) + 1
            /\ DOMAIN t = 1..(Len(s) + 1)
            /\ \A i \in 1..Len(s) : t[i] = s[i]
            /\ t[Len(s) + 1] = e
  <1> DEFINE t == Append(s, e)
             S == Elements(s) \cup {e}
  <1>1. s \in Seq(S)
    BY DEF Elements
  <1>2. e \in S
    OBVIOUS
  <1>3. /\ t \in Seq(S)
        /\ Len(s) \in Nat
        /\ DOMAIN s = 1..Len(s)
        /\ Len(t) = Len(s) + 1
        /\ \A i \in 1..Len(s) : t[i] = s[i]
        /\ t[Len(s) + 1] = e
    <2> HIDE DEF S
    <2> QED  BY <1>1, <1>2
  <1>4. DOMAIN t = 1..(Len(s) + 1)
    <2> HIDE DEF S, t
    <2> QED  BY <1>3
  <1>5. t \in Seq(Elements(t))
    <2> HIDE DEF S, t
    <2>1. \A i \in 1..Len(t) : t[i] \in Elements(t)
      BY <1>3, <1>4 DEF Elements
    <2> QED  BY <1>3, <2>1
  <1> QED  BY <1>3, <1>4, <1>5

-----------------------------------------------------------------------------
\* Facts about amounts.

\* Numbers below the modulus are their own residue, and a sum of two of them
\* wraps at most once.
LEMMA Residues ==
  /\ \A x \in 0..Modulus-1 : x % Modulus = x
  /\ Modulus % Modulus = 0
  /\ \A x, y \in 0..Modulus-1 :
       (x + y) % Modulus = IF x + y < Modulus THEN x + y ELSE x + y - Modulus
  BY ModulusAssumption

\* A canonical amount is one of 1..Modulus-1.
LEMMA CanonicalRange == \A x : Canonical(x) <=> x \in 1..Modulus-1
  <1> SUFFICES ASSUME NEW x PROVE Canonical(x) <=> x \in 1..Modulus-1
    OBVIOUS
  <1>1. x \in 0..Modulus => \/ x = Modulus
                            \/ x \in 0..Modulus-1
    BY ModulusAssumption
  <1>2. x \in 1..Modulus-1 => x \in 0..Modulus-1 /\ x \in 0..Modulus
    BY ModulusAssumption
  <1>3. x \in 0..Modulus-1 => (x \in 1..Modulus-1 <=> x # 0)
    BY ModulusAssumption
  <1>4. Modulus \notin 1..Modulus-1
    BY ModulusAssumption
  <1> QED  BY <1>1, <1>2, <1>3, <1>4, Residues DEF Canonical, Encodings

\* What remains of an amount is the difference: the subtraction of a payment
\* that is covered does not borrow.
LEMMA RemainingExact ==
  ASSUME NEW v, NEW pay, Canonical(v), Canonical(pay), pay <= v
  PROVE  Remaining(v, pay) = v - pay /\ v - pay \in Nat
  <1>1. v \in 1..Modulus-1 /\ pay \in 1..Modulus-1
    BY CanonicalRange
  <1>2. v - pay \in 0..Modulus-1
    BY <1>1, ModulusAssumption
  <1> QED  BY <1>2, Residues DEF Remaining

\* total is the running total of the amounts of a merge.
IsTotal(total, wit, m) ==
  total = [i \in 0..m |-> IF i = 0 THEN 0
                          ELSE Sum256(total[i - 1], wit.inputs[i].amount, wit.zeroAs)]

\* The running total that the merge circuit computes exists.
LEMMA TotalsIs ==
  ASSUME NEW wit, Len(wit.inputs) \in Nat
  PROVE  IsTotal(Totals(wit), wit, Len(wit.inputs))
  <1> DEFINE m == Len(wit.inputs)
             S == {k \in Nat : \E g : IsTotal(g, wit, k)}
  <1>1. 0 \in S
    <2>1. IsTotal([i \in 0..0 |-> 0], wit, 0)
      BY DEF IsTotal
    <2> QED  BY <2>1
  <1>2. ASSUME NEW k \in 0..m-1, k \in S PROVE k + 1 \in S
    <2>1. PICK g : IsTotal(g, wit, k)
      BY <1>2
    <2> DEFINE top == Sum256(g[k], wit.inputs[k + 1].amount, wit.zeroAs)
               h == [i \in 0..k+1 |-> IF i = k + 1 THEN top ELSE g[i]]
    <2>2. ASSUME NEW i \in 0..k+1
          PROVE  h[i] = IF i = 0 THEN 0
                        ELSE Sum256(h[i - 1], wit.inputs[i].amount, wit.zeroAs)
      <3>1. CASE i = k + 1
        BY <3>1
      <3>2. CASE i # k + 1
        <4>1. i \in 0..k /\ h[i] = g[i] /\ (i # 0 => h[i - 1] = g[i - 1])
          BY <3>2
        <4>2. g[i] = IF i = 0 THEN 0
                     ELSE Sum256(g[i - 1], wit.inputs[i].amount, wit.zeroAs)
          BY <2>1, <4>1 DEF IsTotal
        <4> QED  BY <4>1, <4>2
      <3> QED  BY <3>1, <3>2
    <2>3. h = [i \in 0..k+1 |-> h[i]]
      OBVIOUS
    <2> HIDE DEF h
    <2>4. IsTotal(h, wit, k + 1)
      BY <2>2, <2>3 DEF IsTotal
    <2> QED  BY <1>2, <2>4
  <1> HIDE DEF S
  <1>3. m \in Nat
    OBVIOUS
  <1> HIDE DEF m
  <1>4. \A k \in 0..m : k \in S
    BY <1>1, <1>2, <1>3, InductTo
  <1>5. m \in S
    BY <1>3, <1>4
  <1>6. \E g : IsTotal(g, wit, m)
    BY <1>5 DEF S
  <1>7. Totals(wit) = CHOOSE g : IsTotal(g, wit, m)
    BY DEF Totals, IsTotal, m
  <1> QED  BY <1>6, <1>7 DEF m

\* A running total that only ever grows has not wrapped: it is the sum.
LEMMA TotalsExact ==
  ASSUME NEW wit, NEW n \in Nat, n = Len(wit.inputs), wit.zeroAs \in {0, Modulus},
         \A i \in 1..n : /\ Canonical(wit.inputs[i].amount)
                         /\ AddsUp(Totals(wit)[i - 1], Totals(wit)[i])
  PROVE  Totals(wit)[n] = SumOf([i \in 1..n |-> wit.inputs[i].amount], n)
  <1> DEFINE total == Totals(wit)
             f == [i \in 1..n |-> wit.inputs[i].amount]
             S == {k \in Nat : total[k] = SumOf(f, k) /\ total[k] \in 0..Modulus-1}
  <1>1. \A i \in 1..n : /\ f[i] \in 1..Modulus-1
                        /\ Canonical(total[i])
                        /\ total[i] > total[i - 1]
    BY CanonicalRange DEF AddsUp
  <1>2. /\ total[0] = 0
        /\ \A i \in 1..n : total[i] = Sum256(total[i - 1], f[i], wit.zeroAs)
    BY TotalsIs DEF IsTotal
  <1> HIDE DEF total, f
  <1>3. 0 \in S
    BY <1>2, SumZero, ModulusAssumption
  <1>4. ASSUME NEW k \in 0..n-1, k \in S PROVE k + 1 \in S
    <2>1. /\ k \in Nat /\ k + 1 \in 1..n
          /\ \A i \in 1..k+1 : f[i] \in Int
      BY <1>1, ModulusAssumption
    <2>2. SumOf(f, k + 1) = SumOf(f, k) + f[k + 1]
      BY <2>1, SumMore
    <2>3. /\ total[k + 1] = Sum256(total[k], f[k + 1], wit.zeroAs)
          /\ total[k + 1] \in 1..Modulus-1 /\ total[k + 1] > total[k]
          /\ f[k + 1] \in 1..Modulus-1
          /\ total[k] \in 0..Modulus-1
      BY <1>1, <1>2, <1>4, <2>1, CanonicalRange
    <2> DEFINE x == total[k]
               y == f[k + 1]
    <2>4. (x + y) % Modulus = IF x + y < Modulus THEN x + y ELSE x + y - Modulus
      <3>1. x \in 0..Modulus-1 /\ y \in 0..Modulus-1
        BY <2>3, ModulusAssumption
      <3> QED  BY <3>1, Residues
    <2>5. total[k + 1] = (x + y) % Modulus
      BY <2>3, ModulusAssumption DEF Sum256
    <2>6. total[k + 1] = x + y
      BY <2>3, <2>4, <2>5, ModulusAssumption
    <2> QED  BY <1>4, <2>1, <2>2, <2>3, <2>6
  <1> HIDE DEF S
  <1>5. \A k \in 0..n : k \in S
    BY <1>3, <1>4, InductTo
  <1>6. n \in S
    BY <1>5
  <1> QED  BY <1>6 DEF S, total, f

-----------------------------------------------------------------------------
\* Facts about the tree.

\* A note with a positive amount is a note.
LEMMA PositiveIsNote ==
  ASSUME NEW n, n.amount \in 1..Modulus-1
  PROVE  n # NoNote
  <1>1. NoNote.amount = 0
    BY DEF NoNote
  <1>2. n.amount # 0
    BY ModulusAssumption
  <1> QED  BY <1>1, <1>2

\* The leaves and the notes fill the same positions, within the capacity.
LEMMA DomainFacts ==
  ASSUME TreeOK
  PROVE  /\ Len(leaves) \in 0..Capacity
         /\ DOMAIN leaves = 1..Len(leaves)
         /\ DOMAIN notes = 1..Len(leaves)
         /\ DOMAIN leaves \subseteq Positions
         /\ \A i \in DOMAIN leaves : notes[i] # NoNote
  <1>1. /\ Len(leaves) \in Nat
        /\ DOMAIN leaves = 1..Len(leaves)
        /\ DOMAIN notes = 1..Len(leaves)
    BY LenProperties DEF TreeOK
  <1>2. DOMAIN leaves \subseteq Positions
    BY <1>1, PoolAssumption DEF TreeOK, Positions
  <1>3. \A i \in DOMAIN leaves : notes[i] # NoNote
    BY <1>1, PositiveIsNote DEF TreeOK
  <1> QED  BY <1>1, <1>2, <1>3, PoolAssumption DEF TreeOK

\* The leaves already there keep their notes, nullifiers and owners.
Kept ==
  /\ DOMAIN leaves \subseteq DOMAIN leaves'
  /\ \A i \in DOMAIN leaves : /\ leaves'[i] = leaves[i]
                              /\ notes'[i] = notes[i]
                              /\ NullifierAt(i)' = NullifierAt(i)
                              /\ (i \in careless') <=> (i \in careless)

\* One leaf is added to them, at `new`, for note n.
Grown(new, n, isCareless) ==
  /\ Kept
  /\ new \in Positions \ DOMAIN leaves
  /\ DOMAIN notes = DOMAIN leaves
  /\ careless \subseteq DOMAIN leaves
  /\ DOMAIN leaves' = DOMAIN leaves \cup {new}
  /\ DOMAIN notes' = DOMAIN leaves'
  /\ notes'[new] = n
  /\ careless' = IF isCareless THEN careless \cup {new} ELSE careless

\* Inserting a leaf that is new, or that repeats a careless leaf as a careless
\* leaf, keeps the tree sound.
LEMMA InsertGrows ==
  ASSUME TypeOK, UniqueLeaves,
         NEW c, NEW n, NEW isCareless \in BOOLEAN, Insert(c, n, isCareless),
         c = OutputCommitment(ChainId, n),
         n.asset \in Assets, n.amount \in 1..Modulus-1,
         \A i \in DOMAIN leaves : leaves[i] = c => isCareless /\ i \in careless
  PROVE  /\ TreeOK'
         /\ UniqueLeaves'
         /\ careless' \subseteq DOMAIN leaves'
         /\ \E new \in Positions \ DOMAIN leaves : Grown(new, n, isCareless)
  <1>1. /\ leaves' = Append(leaves, c)
        /\ notes' = Append(notes, n)
        /\ Len(leaves) < Capacity
        /\ TreeOK /\ careless \subseteq DOMAIN leaves
    BY DEF Insert, TypeOK
  <1>2. PICK new \in Positions \ DOMAIN leaves : new = Len(leaves) + 1
    BY <1>1, DomainFacts, PoolAssumption DEF Positions
  <1>3. /\ leaves' \in Seq(Elements(leaves'))
        /\ notes' \in Seq(Elements(notes'))
        /\ Len(leaves) \in Nat
        /\ DOMAIN leaves = 1..Len(leaves)
        /\ DOMAIN notes = 1..Len(leaves)
        /\ Len(leaves') = new
        /\ Len(notes') = new
        /\ DOMAIN leaves' = 1..new
        /\ DOMAIN notes' = 1..new
        /\ \A i \in 1..Len(leaves) : leaves'[i] = leaves[i] /\ notes'[i] = notes[i]
        /\ leaves'[new] = c
        /\ notes'[new] = n
    BY <1>1, <1>2, AppendFacts DEF TreeOK
  <1>4. careless' = IF isCareless THEN careless \cup {new} ELSE careless
    BY <1>2 DEF Insert
  <1>5. DOMAIN leaves' = DOMAIN leaves \cup {new}
    BY <1>2, <1>3
  <1>6. TreeOK'
    <2>1. \A i \in DOMAIN notes' :
            /\ notes'[i].asset \in Assets
            /\ notes'[i].amount \in 1..Modulus-1
            /\ leaves'[i] = OutputCommitment(ChainId, notes'[i])
      BY <1>1, <1>2, <1>3 DEF TreeOK
    <2> QED  BY <1>1, <1>2, <1>3, <2>1, PoolAssumption DEF TreeOK
  <1>7. UniqueLeaves'
    <2> SUFFICES ASSUME NEW i \in DOMAIN leaves', NEW j \in DOMAIN leaves',
                        leaves'[i] = leaves'[j], i # j
                 PROVE  {i, j} \subseteq careless'
      BY DEF UniqueLeaves
    <2>1. CASE i \in DOMAIN leaves /\ j \in DOMAIN leaves
      <3>1. leaves[i] = leaves[j]
        BY <1>3, <2>1
      <3> QED  BY <1>4, <2>1, <3>1 DEF UniqueLeaves
    <2>2. CASE i = new /\ j \in DOMAIN leaves
      BY <1>3, <1>4, <2>2
    <2>3. CASE j = new /\ i \in DOMAIN leaves
      BY <1>3, <1>4, <2>3
    <2> QED  BY <1>5, <2>1, <2>2, <2>3
  <1>8. \A i \in DOMAIN leaves : NullifierAt(i)' = NullifierAt(i)
    BY <1>3 DEF NullifierAt
  <1>9. careless' \subseteq DOMAIN leaves'
    BY <1>1, <1>4, <1>5
  <1>10. Grown(new, n, isCareless)
    BY <1>1, <1>2, <1>3, <1>4, <1>5, <1>8 DEF Grown, Kept
  <1> QED  BY <1>6, <1>7, <1>9, <1>10

\* What the circuits establish about an input: it opens a leaf of the pool with
\* the key and amount that leaf was made of.
LEMMA OpeningSound ==
  ASSUME TreeOK, NEW root \in AcceptedRoots, NEW chain, NEW asset, NEW wit,
         Opens(root, wit.index, SpentLeaf(chain, asset, wit))
  PROVE  /\ wit.index \in DOMAIN leaves
         /\ chain = ChainId
         /\ wit.key = notes[wit.index].key
         /\ asset = notes[wit.index].asset
         /\ wit.amount = notes[wit.index].amount
         /\ SpentLeaf(chain, asset, wit) = leaves[wit.index]
         /\ NoteNullifier(SpentLeaf(chain, asset, wit), wit.key)
              = NullifierAt(wit.index)
  <1> DEFINE i == wit.index
  <1>1. PICK n \in 0..Len(leaves) : root = SubSeq(leaves, 1, n)
    BY DEF AcceptedRoots
  <1>2. /\ Len(leaves) \in Nat
        /\ DOMAIN leaves = 1..Len(leaves)
        /\ DOMAIN notes = DOMAIN leaves
    BY DomainFacts
  <1>3. DOMAIN root = 1..n /\ \A j \in 1..n : root[j] = leaves[j]
    BY <1>1, <1>2 DEF TreeOK
  <1>4. i \in DOMAIN leaves /\ SpentLeaf(chain, asset, wit) = leaves[i]
    BY <1>2, <1>3 DEF Opens
  <1>5. OutputCommitment(ChainId, notes[i])
          = NoteCommitment(chain, NoteSn(wit.key), asset, wit.amount)
    BY <1>2, <1>4 DEF TreeOK, SpentLeaf
  <1>6. notes[i] # NoNote
    BY <1>4, DomainFacts
  <1>7. /\ chain = ChainId
        /\ wit.key = notes[i].key
        /\ asset = notes[i].asset
        /\ wit.amount = notes[i].amount
    BY <1>5, <1>6 DEF OutputCommitment, NoteCommitment, NoteSn, HashMulti
  <1> QED  BY <1>4, <1>7 DEF NullifierAt

-----------------------------------------------------------------------------
\* The inductive invariant.

\* The empty pool satisfies the invariant.
LEMMA InitIInv == Init => IInv
  <1> SUFFICES ASSUME Init PROVE IInv
    OBVIOUS
  <1>1. /\ DOMAIN leaves = {} /\ DOMAIN notes = {}
        /\ Len(leaves) = 0 /\ Len(notes) = 0
        /\ leaves \in Seq(Elements(leaves)) /\ notes \in Seq(Elements(notes))
    BY DEF Init
  <1>2. TypeOK
    BY <1>1, PoolAssumption DEF Init, TypeOK, TreeOK
  <1>3. UniqueLeaves /\ KeysOrigin /\ KeysApart
    BY <1>1 DEF UniqueLeaves, KeysOrigin, KeysApart
  <1>4. SpentIsUsed
    BY <1>1 DEF SpentIsUsed, Init
  <1>5. ProofsSound /\ MergeKeysFresh
    BY DEF ProofsSound, MergeKeysFresh, Init
  <1> QED  BY <1>2, <1>3, <1>4, <1>5 DEF IInv

\* A sound proof stays sound when the tree grows and keys are drawn.
LEMMA ProofStaysSound ==
  ASSUME ProofsSound, NEW p \in proofs, Kept, drawn \subseteq drawn'
  PROVE  ProofSound(p)' /\ ProofBalanced(p)'
  <1>1. ProofSound(p) /\ ProofBalanced(p)
    BY DEF ProofsSound
  <1>2. \A j \in DOMAIN p.from :
          /\ p.from[j] \in DOMAIN leaves'
          /\ notes'[p.from[j]] = notes[p.from[j]]
          /\ NullifierAt(p.from[j])' = NullifierAt(p.from[j])
          /\ (p.from[j] \in careless') <=> (p.from[j] \in careless)
    <2>1. \A j \in DOMAIN p.from : p.from[j] \in DOMAIN leaves
      BY <1>1 DEF ProofSound
    <2> QED  BY <2>1 DEF Kept
  <1>3. p.note # NoNote => OutputOrigin(p)'
    BY <1>1, <1>2 DEF ProofSound, OutputOrigin, RotatedFrom
  <1>4. ProofSound(p)'
    BY <1>1, <1>2, <1>3 DEF ProofSound
  <1>5. ProofBalanced(p)'
    <2>1. p.from \in Seq(DOMAIN leaves')
      BY <1>1 DEF ProofBalanced, Kept
    <2>2. [j \in DOMAIN p.from |-> notes'[p.from[j]].amount]
            = [j \in DOMAIN p.from |-> notes[p.from[j]].amount]
      BY <1>2
    <2> QED  BY <1>1, <1>2, <2>1, <2>2 DEF ProofBalanced
  <1> QED  BY <1>4, <1>5

\* Where the keys come from stays true when a leaf is added whose key has an
\* origin.
LEMMA KeysOriginGrows ==
  ASSUME KeysOrigin, NEW new, NEW n, NEW isCareless \in BOOLEAN,
         Grown(new, n, isCareless), drawn \subseteq drawn', spent \subseteq spent',
         IF isCareless
         THEN \/ n.key \in CarelessKeys
              \/ \E j \in careless : RotatedFrom(n.key, j)
         ELSE \/ \E k \in DepositKeys : n.key = Secret(k)
              \/ \E m \in drawn : n.key = Secret(m)
              \/ \E j \in DOMAIN notes \ careless : /\ NullifierAt(j) \in spent'
                                                    /\ RotatedFrom(n.key, j)
  PROVE  KeysOrigin'
  <1>1. /\ DOMAIN notes' = DOMAIN notes \cup {new}
        /\ new \notin DOMAIN notes
        /\ careless \subseteq DOMAIN notes
        /\ careless \subseteq careless'
        /\ notes'[new] = n
        /\ (new \in careless') <=> isCareless
    BY DEF Grown
  <1>2. \A j \in DOMAIN notes : /\ notes'[j] = notes[j]
                                /\ NullifierAt(j)' = NullifierAt(j)
                                /\ (j \in careless') <=> (j \in careless)
    BY DEF Grown, Kept
  <1>3. \A j \in DOMAIN notes : \A key : RotatedFrom(key, j)' <=> RotatedFrom(key, j)
    BY <1>2 DEF RotatedFrom
  <1>4. ASSUME NEW i \in DOMAIN notes'
        PROVE  IF i \in careless'
               THEN \/ notes'[i].key \in CarelessKeys
                    \/ \E j \in careless : RotatedFrom(notes'[i].key, j)
               ELSE \/ \E k \in DepositKeys : notes'[i].key = Secret(k)
                    \/ \E m \in drawn : notes'[i].key = Secret(m)
                    \/ \E j \in DOMAIN notes \ careless :
                         /\ NullifierAt(j) \in spent'
                         /\ RotatedFrom(notes'[i].key, j)
    <2>1. CASE i = new
      BY <1>1, <2>1
    <2>2. CASE i \in DOMAIN notes
      <3>1. notes'[i] = notes[i] /\ ((i \in careless') <=> (i \in careless))
        BY <1>2, <2>2
      <3> QED  BY <2>2, <3>1 DEF KeysOrigin
    <2> QED  BY <1>1, <2>1, <2>2
  <1>5. \A key : (\E j \in careless : RotatedFrom(key, j)) =>
          \E j \in careless' : key = ChangeKey(notes'[j].key, NullifierAt(j)')
    BY <1>1, <1>3 DEF RotatedFrom
  <1>6. \A key : (\E j \in DOMAIN notes \ careless : /\ NullifierAt(j) \in spent'
                                                     /\ RotatedFrom(key, j)) =>
          \E j \in DOMAIN notes' \ careless' :
            /\ NullifierAt(j)' \in spent'
            /\ key = ChangeKey(notes'[j].key, NullifierAt(j)')
    BY <1>1, <1>2, <1>3 DEF RotatedFrom
  <1>7. ASSUME NEW i \in DOMAIN notes'
        PROVE  IF i \in careless'
               THEN \/ notes'[i].key \in CarelessKeys
                    \/ \E j \in careless' :
                         notes'[i].key = ChangeKey(notes'[j].key, NullifierAt(j)')
               ELSE \/ \E k \in DepositKeys : notes'[i].key = Secret(k)
                    \/ \E m \in drawn' : notes'[i].key = Secret(m)
                    \/ \E j \in DOMAIN notes' \ careless' :
                         /\ NullifierAt(j)' \in spent'
                         /\ notes'[i].key = ChangeKey(notes'[j].key, NullifierAt(j)')
    BY <1>4, <1>5, <1>6
  <1> QED  BY <1>7 DEF KeysOrigin, RotatedFrom

\* Keys stay apart when a leaf is added whose key is apart from the others.
LEMMA KeysApartGrows ==
  ASSUME KeysApart, NEW new, NEW n, NEW isCareless \in BOOLEAN,
         Grown(new, n, isCareless),
         isCareless => \A i \in DOMAIN notes \ careless : notes[i].key # n.key,
         ~isCareless => /\ n.key \notin CarelessKeys
                        /\ \A j \in careless : n.key # notes[j].key
  PROVE  KeysApart'
  <1>1. /\ DOMAIN notes' = DOMAIN notes \cup {new}
        /\ new \notin DOMAIN notes
        /\ careless \subseteq DOMAIN notes
        /\ notes'[new] = n
        /\ careless' = IF isCareless THEN careless \cup {new} ELSE careless
        /\ \A j \in DOMAIN notes : notes'[j] = notes[j]
    BY DEF Grown, Kept
  <1>2. CASE isCareless
    BY <1>1, <1>2 DEF KeysApart
  <1>3. CASE ~isCareless
    BY <1>1, <1>3 DEF KeysApart
  <1> QED  BY <1>2, <1>3

\* A key drawn at random is no key of a note of the other kind.
LEMMA DrawnApart ==
  ASSUME TypeOK, KeysOrigin, NEW k \in DepositKeys \cup MergeKeys
  PROVE  /\ Secret(k) \notin CarelessKeys
         /\ \A j \in careless : Secret(k) # notes[j].key
  <1>1. Secret(k) \notin CarelessKeys
    BY CarelessAssumption
  <1>2. \A j \in careless : j \in DOMAIN notes
    BY DomainFacts DEF TypeOK
  <1> QED  BY <1>1, <1>2, KeyKinds DEF KeysOrigin, RotatedFrom

\* A deposit preserves the invariant.
LEMMA DepositStep ==
  ASSUME IInv, NEW d \in Deposits, Deposit(d.key, d.asset, d.amount)
  PROVE  IInv'
  <1> DEFINE n == [key |-> d.key, asset |-> d.asset, amount |-> d.amount]
             c == OutputCommitment(ChainId, n)
             isCareless == d.key \in CarelessKeys
  <1>1. /\ Insert(c, n, isCareless)
        /\ c \notin Elements(leaves)
        /\ deposited' = [deposited EXCEPT ![d.asset] = @ + d.amount]
        /\ UNCHANGED <<spent, paid, proofs, drawn, used>>
    BY DEF Deposit, NewLeaf
  <1>2. TypeOK /\ TreeOK /\ UniqueLeaves /\ SpentIsUsed /\ KeysOrigin /\ KeysApart
        /\ ProofsSound /\ MergeKeysFresh
    BY DEF IInv, TypeOK
  <1>3. /\ d.key \in DepositSerials
        /\ d.asset \in Assets
        /\ d.amount \in 1..Modulus-1
    BY DepositsAssumption
  <1>4. /\ isCareless \in BOOLEAN
        /\ \A i \in DOMAIN leaves : leaves[i] # c
    BY <1>1 DEF Elements
  <1> HIDE DEF c
  <1>5. /\ c = OutputCommitment(ChainId, n)
        /\ n.key = d.key /\ n.asset \in Assets /\ n.amount \in 1..Modulus-1
    BY <1>3 DEF c
  <1> HIDE DEF n, isCareless
  <1>6. TreeOK' /\ UniqueLeaves' /\ careless' \subseteq DOMAIN leaves'
    BY <1>1, <1>2, <1>4, <1>5, InsertGrows
  <1>7. PICK new \in Positions \ DOMAIN leaves : Grown(new, n, isCareless)
    BY <1>1, <1>2, <1>4, <1>5, InsertGrows
  <1>8. Kept
    BY <1>7 DEF Grown
  <1>9. TypeOK'
    <2>1. deposited' \in [Assets -> Nat]
      BY <1>1, <1>2, <1>3, ModulusAssumption DEF TypeOK
    <2> QED  BY <1>1, <1>2, <1>6, <2>1 DEF TypeOK
  <1>10. SpentIsUsed'
    <2>1. \A i \in DOMAIN leaves' : /\ used[i] \in {0, 1}
                                    /\ used[i] = 1 => NullifierAt(i)' \in spent
      BY <1>2, <1>7 DEF SpentIsUsed, Grown, Kept
    <2>2. \A i \in Positions : i \notin DOMAIN leaves' => used[i] = 0
      BY <1>2, <1>8 DEF SpentIsUsed, Kept
    <2>3. \A m \in spent : \E i \in DOMAIN leaves' : m = NullifierAt(i)' /\ used[i] = 1
      BY <1>2, <1>8 DEF SpentIsUsed, Kept
    <2> QED  BY <1>1, <2>1, <2>2, <2>3 DEF SpentIsUsed
  <1>11. ~isCareless => \E k \in DepositKeys : n.key = Secret(k)
    BY <1>3, <1>5 DEF DepositSerials, isCareless
  <1>12. isCareless => n.key \in CarelessKeys
    BY <1>5 DEF isCareless
  <1>13. KeysOrigin'
    BY <1>1, <1>2, <1>4, <1>7, <1>11, <1>12, KeysOriginGrows
  <1>14. KeysApart'
    <2>1. isCareless => \A i \in DOMAIN notes \ careless : notes[i].key # n.key
      BY <1>2, <1>12 DEF KeysApart
    <2>2. ~isCareless => /\ n.key \notin CarelessKeys
                         /\ \A j \in careless : n.key # notes[j].key
      BY <1>2, <1>11, DrawnApart
    <2> QED  BY <1>2, <1>4, <1>7, <2>1, <2>2, KeysApartGrows
  <1>15. ProofsSound'
    BY <1>1, <1>2, <1>8, ProofStaysSound DEF ProofsSound
  <1>16. MergeKeysFresh'
    <2> SUFFICES ASSUME NEW p \in proofs, NEW m \in MergeKeys, p.note.key = Secret(m)
                 PROVE  /\ \A q \in proofs : q.note.key = Secret(m) => q = p
                        /\ \A i \in DOMAIN notes' : notes'[i].key = Secret(m) =>
                              Elements(p.pub.nullifiers) \cap spent # {}
      BY <1>1 DEF MergeKeysFresh
    <2>1. n.key # Secret(m)
      BY <1>11, <1>12, KeyKinds, PoolAssumption, CarelessAssumption
    <2> QED  BY <1>2, <1>7, <2>1 DEF MergeKeysFresh, Grown, Kept
  <1> QED  BY <1>6, <1>9, <1>10, <1>13, <1>14, <1>15, <1>16 DEF IInv

\* Where neither the tree nor the books change, only proofs can matter.
LEMMA TreeStays ==
  ASSUME IInv, UNCHANGED <<leaves, spent, deposited, paid, careless, notes, used>>,
         drawn \subseteq drawn', drawn' \subseteq MergeKeys
  PROVE  /\ Kept
         /\ \A i : NullifierAt(i)' = NullifierAt(i)
         /\ TypeOK' /\ UniqueLeaves' /\ SpentIsUsed' /\ KeysOrigin' /\ KeysApart'
  <1>1. \A i : NullifierAt(i)' = NullifierAt(i)
    BY DEF NullifierAt
  <1>2. Kept
    BY <1>1 DEF Kept
  <1>3. TypeOK' /\ UniqueLeaves' /\ SpentIsUsed' /\ KeysApart'
    BY <1>1 DEF IInv, TypeOK, TreeOK, UniqueLeaves, SpentIsUsed, KeysApart
  <1>4. \A key, i : RotatedFrom(key, i)' <=> RotatedFrom(key, i)
    BY <1>1 DEF RotatedFrom
  <1>5. KeysOrigin'
    BY <1>1, <1>4 DEF IInv, KeysOrigin, RotatedFrom
  <1> QED  BY <1>1, <1>2, <1>3, <1>5

\* Dropping a proof preserves the invariant.
LEMMA DropStep ==
  ASSUME IInv, NEW p \in proofs, Drop(p)
  PROVE  IInv'
  <1>1. /\ proofs' \subseteq proofs
        /\ UNCHANGED <<leaves, spent, deposited, paid, drawn, careless, notes, used>>
    BY DEF Drop
  <1>2. drawn' \subseteq MergeKeys
    BY <1>1 DEF IInv, TypeOK
  <1>3. Kept /\ TypeOK' /\ UniqueLeaves' /\ SpentIsUsed' /\ KeysOrigin' /\ KeysApart'
    BY <1>1, <1>2, TreeStays
  <1>4. ProofsSound'
    BY <1>1, <1>3, ProofStaysSound DEF IInv, ProofsSound
  <1>5. MergeKeysFresh'
    BY <1>1 DEF IInv, MergeKeysFresh
  <1> QED  BY <1>3, <1>4, <1>5 DEF IInv

\* A merge key in the tree or in flight has been drawn.
LEMMA MergeKeysDrawn ==
  ASSUME IInv, NEW t \in MergeKeys
  PROVE  /\ \A p \in proofs : p.note.key = Secret(t) => t \in drawn
         /\ \A i \in DOMAIN notes : notes[i].key = Secret(t) => t \in drawn
  <1>1. ASSUME NEW p \in proofs, p.note.key = Secret(t)
        PROVE  t \in drawn
    <2>1. p.note # NoNote
      BY <1>1, KeyKinds DEF NoNote
    <2>2. OutputOrigin(p)
      BY <2>1 DEF IInv, ProofsSound, ProofSound
    <2> QED  BY <1>1, <2>2, KeyKinds, CarelessAssumption DEF OutputOrigin, RotatedFrom
  <1>2. ASSUME NEW i \in DOMAIN notes, notes[i].key = Secret(t)
        PROVE  t \in drawn
    BY <1>2, KeyKinds, PoolAssumption, CarelessAssumption
       DEF IInv, KeysOrigin, RotatedFrom
  <1> QED  BY <1>1, <1>2

\* A new proof joins those in flight; the tree and the books stay.
LEMMA NewProofStep ==
  ASSUME IInv, NEW p,
         UNCHANGED <<leaves, spent, deposited, paid, careless, notes, used>>,
         proofs' = proofs \cup {p},
         drawn \subseteq drawn', drawn' \subseteq MergeKeys,
         ProofSound(p)', ProofBalanced(p)',
         \A m \in MergeKeys : p.note.key = Secret(m) => m \in drawn' \ drawn
  PROVE  IInv'
  <1>1. Kept /\ TypeOK' /\ UniqueLeaves' /\ SpentIsUsed' /\ KeysOrigin' /\ KeysApart'
    BY TreeStays
  <1>2. ProofsSound'
    <2>1. \A q \in proofs : ProofSound(q)' /\ ProofBalanced(q)'
      BY <1>1, ProofStaysSound DEF IInv
    <2> QED  BY <2>1 DEF ProofsSound
  <1>3. MergeKeysFresh'
    <2> SUFFICES ASSUME NEW q \in proofs', NEW m \in MergeKeys, q.note.key = Secret(m)
                 PROVE  /\ \A r \in proofs' : r.note.key = Secret(m) => r = q
                        /\ \A i \in DOMAIN notes : notes[i].key = Secret(m) =>
                              Elements(q.pub.nullifiers) \cap spent # {}
      BY DEF MergeKeysFresh
    <2>1. CASE q \in proofs
      <3>1. p.note.key # Secret(m)
        BY <2>1, MergeKeysDrawn
      <3> QED  BY <2>1, <3>1 DEF IInv, MergeKeysFresh
    <2>2. CASE q = p
      <3>1. m \notin drawn
        BY <2>2
      <3> QED  BY <2>2, <3>1, MergeKeysDrawn
    <2> QED  BY <2>1, <2>2
  <1> QED  BY <1>1, <1>2, <1>3 DEF IInv

\* Proving a spend preserves the invariant.
LEMMA ProveSpendStep ==
  ASSUME IInv, ProveSpend
  PROVE  IInv'
  <1>1. PICK chain \in ChainIds, root \in AcceptedRoots, asset \in Assets :
        \E wit \in OpenInputs(chain, root, asset) :
        \E pay \in Encodings, context \in Contexts :
          LET pub == SpendStatement(chain, root, asset, context, pay, wit)
          IN /\ SpendCircuit(pub, wit)
             /\ proofs' = proofs \cup
                  {[pub      |-> pub,
                    from     |-> <<wit.index>>,
                    note     |-> SpendChange(chain, asset, pay, wit),
                    careless |-> wit.index \in careless]}
    BY DEF ProveSpend
  <1>2. PICK wit \in OpenInputs(chain, root, asset), pay \in Encodings,
             context \in Contexts :
          LET pub == SpendStatement(chain, root, asset, context, pay, wit)
          IN /\ SpendCircuit(pub, wit)
             /\ proofs' = proofs \cup
                  {[pub      |-> pub,
                    from     |-> <<wit.index>>,
                    note     |-> SpendChange(chain, asset, pay, wit),
                    careless |-> wit.index \in careless]}
    BY <1>1
  <1>0. PICK isCareless \in BOOLEAN : isCareless = (wit.index \in careless)
    <2>1. \E b \in BOOLEAN : b <=> wit.index \in careless
      BY Zenon
    <2> QED  BY <2>1, SMT
  <1> DEFINE pub  == SpendStatement(chain, root, asset, context, pay, wit)
             note == SpendChange(chain, asset, pay, wit)
             i    == wit.index
             p    == [pub |-> pub, from |-> <<i>>, note |-> note,
                      careless |-> isCareless]
  <1>3. UNCHANGED <<leaves, spent, deposited, paid, drawn, careless, notes, used>>
    BY DEF ProveSpend
  <1>4. /\ pub.root = root /\ pub.chain = chain /\ pub.asset = asset /\ pub.pay = pay
        /\ pub.nullifiers
             = <<NoteNullifier(SpentLeaf(chain, asset, wit), wit.key)>>
        /\ pub.output = OutputCommitment(chain, note)
    BY DEF SpendStatement
  <1>5. /\ Opens(root, i, SpentLeaf(chain, asset, wit))
        /\ Canonical(pay) /\ Canonical(wit.amount) /\ pay <= wit.amount
    BY <1>2, <1>4 DEF SpendCircuit, SpentLeaf
  <1>6. /\ i \in DOMAIN leaves
        /\ chain = ChainId
        /\ wit.key = notes[i].key
        /\ NoteNullifier(SpentLeaf(chain, asset, wit), wit.key) = NullifierAt(i)
    BY <1>5, OpeningSound DEF IInv, TypeOK
  <1>7. /\ pay \in Nat
        /\ Remaining(wit.amount, pay) \in 0..Modulus-1
    BY <1>5, ModulusAssumption DEF Canonical, Encodings, Remaining
  <1>8. note # NoNote => /\ note.key = ChangeKey(notes[i].key, NullifierAt(i))
                         /\ note.asset = asset
                         /\ note.amount \in 1..Modulus-1
    <2> SUFFICES ASSUME note # NoNote
                 PROVE  /\ note.key = ChangeKey(notes[i].key, NullifierAt(i))
                        /\ note.asset = asset
                        /\ note.amount \in 1..Modulus-1
      OBVIOUS
    <2>1. note = [key    |-> ChangeKey(notes[i].key, NullifierAt(i)),
                  asset  |-> asset,
                  amount |-> Remaining(wit.amount, pay)]
          /\ Remaining(wit.amount, pay) # 0
      BY <1>6 DEF SpendChange, ChangeNote
    <2> QED  BY <2>1, <1>7, ModulusAssumption
  <1>9. \A m : note.key # Secret(m)
    <2>1. CASE note = NoNote
      BY <2>1, KeyKinds DEF NoNote
    <2>2. CASE note # NoNote
      BY <2>2, <1>8, KeyKinds
    <2> QED  BY <2>1, <2>2
  <1>10. proofs' = proofs \cup {p}
    BY <1>0, <1>2
  <1> HIDE DEF pub, note
  <1>11. ProofSound(p)'
    <2>1. /\ p.pub = pub /\ p.note = note
          /\ DOMAIN p.from = {1} /\ p.from[1] = i
          /\ DOMAIN pub.nullifiers = {1} /\ pub.nullifiers[1] = NullifierAt(i)
      BY <1>4, <1>6
    <2>4. p.careless \in BOOLEAN /\ (p.careless <=> i \in careless)
      <3>1. p.careless = isCareless
        OBVIOUS
      <3> HIDE DEF p
      <3>2. p.careless \in BOOLEAN
        BY <3>1
      <3>3. p.careless <=> i \in careless
        BY <1>0, <3>1, Zenon
      <3> QED  BY <3>2, <3>3
    <2>2. NullifierAt(i)' = NullifierAt(i) /\ notes'[i] = notes[i]
          /\ DOMAIN leaves' = DOMAIN leaves
      BY <1>3 DEF NullifierAt
    <2>3. note # NoNote => OutputOrigin(p)'
      BY <1>3, <1>8, <2>1, <2>2, <2>4 DEF OutputOrigin, RotatedFrom
    <2> QED  BY <1>4, <1>6, <1>7, <2>1, <2>2, <2>3, <2>4 DEF ProofSound
  <1>12. \A m \in MergeKeys : p.note.key # Secret(m)
    BY <1>9
  <1>13. ProofBalanced(p)'
    <2>1. note.amount = wit.amount - pay
      BY <1>5, RemainingExact DEF note, SpendChange, ChangeNote, NoNote
    <2>2. asset = notes[i].asset /\ wit.amount = notes[i].amount
      BY <1>5, OpeningSound DEF IInv, TypeOK
    <2>3. notes[i].amount \in Nat
      BY <1>6, DomainFacts, ModulusAssumption DEF IInv, TypeOK, TreeOK
    <2>4. /\ p.pub = pub /\ p.note = note /\ p.from = <<i>>
          /\ notes' = notes /\ leaves' = leaves
      BY <1>3
    <2>5. SumOf([j \in {1} |-> notes[p.from[j]].amount], 1) = notes[i].amount
      BY <2>3, <2>4, SumOne
    <2> QED  BY <1>4, <1>6, <1>7, <1>8, <2>1, <2>2, <2>3, <2>4, <2>5 DEF ProofBalanced
  <1> HIDE DEF p
  <1>14. drawn \subseteq drawn' /\ drawn' \subseteq MergeKeys
    BY <1>3 DEF IInv, TypeOK
  <1>15. \A m \in MergeKeys : p.note.key = Secret(m) => m \in drawn' \ drawn
    BY <1>12
  <1> QED  BY <1>3, <1>10, <1>11, <1>13, <1>14, <1>15, NewProofStep

\* Proving a merge preserves the invariant: strictly increasing running totals
\* never wrap, and its inputs are distinct leaves.
LEMMA ProveMergeStep ==
  ASSUME IInv, ProveMerge
  PROVE  IInv'
  <1>1. PICK chain \in ChainIds, root \in AcceptedRoots, asset \in Assets :
        \E inputs \in MergeInputs(OpenInputs(chain, root, asset)),
           outputKey \in OutputKeys, zeroAs \in {0, Modulus} :
          LET wit == [inputs |-> inputs, zeroAs |-> zeroAs, outputKey |-> outputKey]
              pub == MergeStatement(chain, root, asset, wit)
          IN /\ MergeCircuit(pub, wit)
             /\ proofs' = proofs \cup
                  {[pub      |-> pub,
                    from     |-> [i \in DOMAIN inputs |-> inputs[i].index],
                    note     |-> MergeNote(asset, wit),
                    careless |-> outputKey \in CarelessKeys]}
             /\ drawn' = drawn \cup {m \in MergeKeys : outputKey = Secret(m)}
    BY DEF ProveMerge
  <1>2. PICK inputs \in MergeInputs(OpenInputs(chain, root, asset)),
             outputKey \in OutputKeys, zeroAs \in {0, Modulus} :
          LET wit == [inputs |-> inputs, zeroAs |-> zeroAs, outputKey |-> outputKey]
              pub == MergeStatement(chain, root, asset, wit)
          IN /\ MergeCircuit(pub, wit)
             /\ proofs' = proofs \cup
                  {[pub      |-> pub,
                    from     |-> [i \in DOMAIN inputs |-> inputs[i].index],
                    note     |-> MergeNote(asset, wit),
                    careless |-> outputKey \in CarelessKeys]}
             /\ drawn' = drawn \cup {m \in MergeKeys : outputKey = Secret(m)}
    BY <1>1
  <1> DEFINE wit  == [inputs |-> inputs, zeroAs |-> zeroAs, outputKey |-> outputKey]
             pub  == MergeStatement(chain, root, asset, wit)
             note == MergeNote(asset, wit)
             from == [i \in DOMAIN inputs |-> inputs[i].index]
             p    == [pub |-> pub, from |-> from, note |-> note,
                      careless |-> outputKey \in CarelessKeys]
             Nf(i) == NoteNullifier(MergeLeaf(chain, asset, inputs[i]), inputs[i].key)
  <1>3. UNCHANGED <<leaves, spent, deposited, paid, careless, notes, used>>
    BY DEF ProveMerge
  <1>4. /\ pub.root = root /\ pub.chain = chain /\ pub.asset = asset /\ pub.pay = 0
        /\ pub.nullifiers = [i \in DOMAIN inputs |-> Nf(i)]
        /\ pub.output = OutputCommitment(chain, note)
        /\ wit.inputs = inputs
    BY DEF MergeStatement
  <1>5. /\ Len(inputs) \in MinMergeInputs..MaxMergeInputs
        /\ \A i \in DOMAIN inputs : MergeInput(pub, wit, i)
        /\ DistinctInputs(pub, wit)
    BY <1>2 DEF MergeCircuit
  <1>6. DOMAIN inputs = 1..Len(inputs) /\ Len(inputs) \in DOMAIN inputs
    <2>1. PICK n \in MinMergeInputs..MaxMergeInputs :
            inputs \in [1..n -> OpenInputs(chain, root, asset)]
      BY DEF MergeInputs
    <2> QED  BY <2>1, MergeInputsAssumption DEF MinMergeInputs
  <1>7. \A i \in DOMAIN inputs :
          /\ from[i] \in DOMAIN leaves
          /\ chain = ChainId
          /\ MergeLeaf(chain, asset, inputs[i]) = leaves[from[i]]
          /\ Nf(i) = NullifierAt(from[i])
    <2> SUFFICES ASSUME NEW i \in DOMAIN inputs
                 PROVE  /\ from[i] \in DOMAIN leaves
                        /\ chain = ChainId
                        /\ MergeLeaf(chain, asset, inputs[i]) = leaves[from[i]]
                        /\ Nf(i) = NullifierAt(from[i])
      OBVIOUS
    <2>1. Opens(root, inputs[i].index, SpentLeaf(chain, asset, inputs[i]))
      BY <1>4, <1>5 DEF MergeInput, MergeLeaf
    <2> QED  BY <2>1, OpeningSound DEF IInv, TypeOK, MergeLeaf
  <1>8. chain = ChainId
    BY <1>6, <1>7
  <1>9. \A i, j \in DOMAIN inputs : from[i] = from[j] => i = j
    <2>1. \A i, j \in DOMAIN inputs : j < i =>
             MergeLeaf(chain, asset, inputs[i]) # MergeLeaf(chain, asset, inputs[j])
      BY <1>4, <1>5 DEF DistinctInputs
    <2>2. \A i, j \in DOMAIN inputs : j < i => from[i] # from[j]
      BY <1>7, <2>1
    <2> QED  BY <1>6, <2>2
  <1>10. /\ note.key = outputKey /\ note.asset = asset
         /\ note.amount \in 1..Modulus-1
    <2>1. Canonical(Totals(wit)[Len(inputs)])
      BY <1>4, <1>5, <1>6 DEF MergeInput, AddsUp
    <2>2. Totals(wit)[Len(inputs)] \in 1..Modulus-1
      <3> DEFINE t == Totals(wit)[Len(inputs)]
      <3>1. t \in 0..Modulus /\ t % Modulus # 0
        BY <2>1 DEF Canonical, Encodings
      <3> HIDE DEF t
      <3>2. t # 0 /\ t # Modulus
        BY <3>1, ModulusAssumption
      <3> QED  BY <3>1, <3>2, ModulusAssumption DEF t
    <2> QED  BY <1>4, <2>2 DEF MergeNote
  <1>11. /\ proofs' = proofs \cup {p}
         /\ drawn' = drawn \cup {m \in MergeKeys : outputKey = Secret(m)}
    BY <1>2
  <1> HIDE DEF pub, note, wit
  <1>12. ProofSound(p)'
    <2>1. /\ p.pub = pub /\ p.note = note /\ p.from = from
          /\ DOMAIN from = DOMAIN inputs
          /\ DOMAIN inputs # {}
          /\ DOMAIN pub.nullifiers = DOMAIN inputs
          /\ \A j \in DOMAIN inputs : pub.nullifiers[j] = NullifierAt(from[j])
      BY <1>4, <1>6, <1>7
    <2>5. p.careless \in BOOLEAN /\ (p.careless <=> outputKey \in CarelessKeys)
      <3>1. p.careless = (outputKey \in CarelessKeys)
        OBVIOUS
      <3> HIDE DEF p
      <3>2. p.careless \in BOOLEAN
        BY <3>1, SMT
      <3>3. p.careless <=> outputKey \in CarelessKeys
        BY <3>1, Zenon
      <3> QED  BY <3>2, <3>3
    <2>2. \A i : NullifierAt(i)' = NullifierAt(i)
      BY <1>3 DEF NullifierAt
    <2>3. OutputOrigin(p)'
      <3>1. ~p.careless => \E m \in drawn' : outputKey = Secret(m)
        BY <1>11, <2>5 DEF OutputKeys
      <3> QED  BY <1>10, <2>1, <2>5, <3>1 DEF OutputOrigin
    <2> HIDE DEF from
    <2>4. \A j \in DOMAIN p.from :
             p.from[j] \in DOMAIN leaves' /\ p.pub.nullifiers[j] = NullifierAt(p.from[j])'
      BY <1>3, <1>7, <2>1, <2>2
    <2> QED  BY <1>4, <1>8, <1>9, <2>1, <2>3, <2>4, <2>5 DEF ProofSound
  <1>13. \A t \in MergeKeys : p.note.key = Secret(t) => t \in drawn' \ drawn
    BY <1>10, <1>11, KeyKinds, CarelessAssumption DEF OutputKeys
  <1>14. drawn \subseteq drawn' /\ drawn' \subseteq MergeKeys
    BY <1>11 DEF IInv, TypeOK
  <1>15. ProofBalanced(p)'
    <2> DEFINE n == Len(inputs)
    <2>1. /\ p.pub = pub /\ p.note = note /\ p.from = from
          /\ notes' = notes /\ leaves' = leaves
          /\ n \in Nat /\ DOMAIN from = 1..n
      BY <1>3, <1>5, <1>6 DEF MinMergeInputs
    <2>2. \A j \in 1..n : /\ asset = notes[from[j]].asset
                          /\ inputs[j].amount = notes[from[j]].amount
                          /\ from[j] \in DOMAIN leaves
                          /\ Canonical(inputs[j].amount)
                          /\ AddsUp(Totals(wit)[j - 1], Totals(wit)[j])
      <3> SUFFICES ASSUME NEW j \in DOMAIN inputs
                   PROVE  /\ asset = notes[from[j]].asset
                          /\ inputs[j].amount = notes[from[j]].amount
                          /\ from[j] \in DOMAIN leaves
                          /\ Canonical(inputs[j].amount)
                          /\ AddsUp(Totals(wit)[j - 1], Totals(wit)[j])
        BY <1>6
      <3>1. MergeInput(pub, wit, j)
        BY <1>5
      <3>2. /\ Opens(root, inputs[j].index, SpentLeaf(chain, asset, inputs[j]))
            /\ Canonical(inputs[j].amount)
            /\ AddsUp(Totals(wit)[j - 1], Totals(wit)[j])
        BY <1>4, <3>1 DEF MergeInput, MergeLeaf
      <3> QED  BY <1>7, <3>2, OpeningSound DEF IInv, TypeOK
    <2>3. Totals(wit)[n] = SumOf([j \in 1..n |-> inputs[j].amount], n)
      <3>1. wit.inputs = inputs /\ wit.zeroAs \in {0, Modulus}
        BY DEF wit
      <3>2. \A j \in 1..n : /\ Canonical(wit.inputs[j].amount)
                            /\ AddsUp(Totals(wit)[j - 1], Totals(wit)[j])
        BY <2>2, <3>1
      <3> HIDE DEF n
      <3>3. n \in Nat /\ n = Len(wit.inputs)
        BY <2>1, <3>1 DEF n
      <3>4. Totals(wit)[n] = SumOf([j \in 1..n |-> wit.inputs[j].amount], n)
        BY <3>1, <3>2, <3>3, TotalsExact
      <3> QED  BY <3>1, <3>4
    <2>4. note.amount = Totals(wit)[n]
      BY <1>4 DEF note, MergeNote
    <2> HIDE DEF from
    <2>5. [j \in 1..n |-> notes[from[j]].amount] = [j \in 1..n |-> inputs[j].amount]
      BY <2>2
    <2>6. from \in Seq(DOMAIN leaves) /\ Len(from) = n
      <3>1. from \in [1..n -> DOMAIN leaves]
        BY <2>1, <2>2 DEF from
      <3> QED  BY <2>1, <3>1, LenProperties
    <2>7. pub.pay + note.amount = note.amount
      BY <1>4, <1>10, ModulusAssumption
    <2> QED  BY <1>4, <1>10, <2>1, <2>2, <2>3, <2>4, <2>5, <2>6, <2>7 DEF ProofBalanced
  <1> HIDE DEF p
  <1> QED  BY <1>3, <1>11, <1>12, <1>13, <1>14, <1>15, NewProofStep

\* The key of an output is the key of no note of the other kind.
LEMMA OutputApart ==
  ASSUME IInv, NEW p \in proofs, p.note # NoNote
  PROVE  /\ p.careless => \A i \in DOMAIN notes \ careless : notes[i].key # p.note.key
         /\ ~p.careless => /\ p.note.key \notin CarelessKeys
                           /\ \A j \in careless : p.note.key # notes[j].key
  <1>1. /\ TypeOK /\ KeysOrigin /\ KeysApart
        /\ ProofSound(p) /\ OutputOrigin(p)
        /\ DOMAIN notes = DOMAIN leaves /\ careless \subseteq DOMAIN notes
    BY DomainFacts DEF IInv, TypeOK, ProofsSound, ProofSound
  <1>2. ASSUME NEW j \in DOMAIN p.from, RotatedFrom(p.note.key, p.from[j]),
               p.careless <=> p.from[j] \in careless
        PROVE  /\ p.careless => \A i \in DOMAIN notes \ careless : notes[i].key # p.note.key
               /\ ~p.careless => /\ p.note.key \notin CarelessKeys
                                 /\ \A i \in careless : p.note.key # notes[i].key
    <2> DEFINE h == p.from[j]
    <2>1. h \in DOMAIN notes /\ p.note.key = ChangeKey(notes[h].key, NullifierAt(h))
      BY <1>1, <1>2 DEF ProofSound, RotatedFrom
    <2>2. (h \in careless) <=> p.careless
      BY <1>2
    <2> HIDE DEF h
    <2>3. ASSUME p.careless, NEW i \in DOMAIN notes \ careless, notes[i].key = p.note.key
          PROVE  FALSE
      <3>1. PICK g \in DOMAIN notes \ careless :
                   notes[i].key = ChangeKey(notes[g].key, NullifierAt(g))
        BY <1>1, <2>1, <2>3, KeyKinds DEF KeysOrigin, RotatedFrom
      <3>2. ChangeKey(notes[g].key, NullifierAt(g)) = ChangeKey(notes[h].key, NullifierAt(h))
        BY <2>1, <2>3, <3>1
      <3>3. notes[g].key = notes[h].key
        BY <3>2, ChangeKeyInjective
      <3> QED  BY <1>1, <2>2, <2>3, <3>3 DEF KeysApart
    <2>4. ASSUME ~p.careless, p.note.key \in CarelessKeys
          PROVE  FALSE
      BY <1>1, <2>1, <2>2, <2>4, CarelessRotates DEF KeysApart
    <2>5. ASSUME ~p.careless, NEW i \in careless, p.note.key = notes[i].key
          PROVE  FALSE
      <3>1. PICK g \in careless : notes[i].key = ChangeKey(notes[g].key, NullifierAt(g))
        BY <1>1, <2>4, <2>5 DEF KeysOrigin, RotatedFrom
      <3>2. ChangeKey(notes[g].key, NullifierAt(g)) = ChangeKey(notes[h].key, NullifierAt(h))
        BY <2>1, <2>5, <3>1
      <3>3. notes[g].key = notes[h].key
        BY <3>2, ChangeKeyInjective
      <3> QED  BY <1>1, <2>1, <2>2, <2>5, <3>3 DEF KeysApart
    <2> QED  BY <2>3, <2>4, <2>5
  <1>3. CASE p.careless /\ p.note.key \in CarelessKeys
    BY <1>1, <1>3 DEF KeysApart
  <1>4. CASE ~p.careless /\ \E m \in drawn : p.note.key = Secret(m)
    BY <1>1, <1>4, DrawnApart DEF TypeOK
  <1> QED  BY <1>1, <1>2, <1>3, <1>4 DEF OutputOrigin

\* The output of a proof that may settle repeats no leaf, unless both are
\* careless.
LEMMA OutputIsNew ==
  ASSUME IInv, NEW p \in proofs, Elements(p.pub.nullifiers) \cap spent = {},
         p.note # NoNote, NEW i \in DOMAIN leaves, leaves[i] = p.pub.output
  PROVE  p.careless /\ i \in careless
  <1>1. /\ TreeOK /\ ProofSound(p) /\ OutputOrigin(p) /\ KeysOrigin
        /\ DOMAIN notes = DOMAIN leaves
    BY DomainFacts DEF IInv, TypeOK, ProofsSound, ProofSound
  <1>2. OutputCommitment(ChainId, p.note) = OutputCommitment(ChainId, notes[i])
    BY <1>1 DEF ProofSound, TreeOK
  <1>3. notes[i].key = p.note.key
    BY <1>2, CommitmentInjective
  <1>4. (i \in careless) <=> p.careless
    BY <1>1, <1>3, OutputApart
  <1> SUFFICES ASSUME ~p.careless PROVE FALSE
    BY <1>4
  <1>5. ASSUME NEW j \in DOMAIN p.from, RotatedFrom(p.note.key, p.from[j])
        PROVE  FALSE
    <2>1. p.note.key = ChangeKey(notes[p.from[j]].key, NullifierAt(p.from[j]))
      BY <1>5 DEF RotatedFrom
    <2>2. NullifierAt(p.from[j]) \notin spent
      BY <1>1 DEF ProofSound, Elements
    <2>3. PICK h \in DOMAIN notes : /\ NullifierAt(h) \in spent
                                    /\ notes[i].key = ChangeKey(notes[h].key, NullifierAt(h))
      BY <1>1, <1>3, <1>4, <2>1, KeyKinds DEF KeysOrigin, RotatedFrom
    <2> QED  BY <1>3, <2>1, <2>2, <2>3, ChangeKeyInjective
  <1>6. ASSUME NEW m \in drawn, p.note.key = Secret(m)
        PROVE  FALSE
    <2>1. m \in MergeKeys
      BY DEF IInv, TypeOK
    <2> QED  BY <1>1, <1>3, <1>6, <2>1 DEF IInv, MergeKeysFresh
  <1> QED  BY <1>1, <1>5, <1>6 DEF OutputOrigin

\* What settling does to the ghost counters of the leaves already there.
LEMMA SettleCounts ==
  ASSUME IInv, NEW p \in proofs, NEW context, Settle(p, context)
  PROVE  /\ used' \in [Positions -> Nat]
         /\ \A i \in DOMAIN leaves : /\ used'[i] \in {0, 1}
                                     /\ used'[i] = 1 => NullifierAt(i) \in spent'
         /\ \A i \in Positions : i \notin DOMAIN leaves => used'[i] = 0
         /\ \A n \in spent' : \E i \in DOMAIN leaves : n = NullifierAt(i) /\ used'[i] = 1
         /\ \A j \in DOMAIN p.from : used[p.from[j]] = 0 /\ used'[p.from[j]] = 1
         /\ \A i \in Positions : used'[i] >= used[i]
  <1> DEFINE hits(i) == {j \in DOMAIN p.from : p.from[j] = i}
  <1>1. /\ ProofSound(p) /\ SpentIsUsed /\ used \in [Positions -> Nat]
        /\ DOMAIN leaves \subseteq Positions
    BY DomainFacts DEF IInv, TypeOK, ProofsSound
  <1>2. /\ Elements(p.pub.nullifiers) \cap spent = {}
        /\ spent' = spent \cup Elements(p.pub.nullifiers)
        /\ used' = [i \in Positions |-> used[i] + Cardinality(hits(i))]
    BY DEF Settle, Settleable
  <1>3. \A n : n \in Elements(p.pub.nullifiers)
                 <=> \E j \in DOMAIN p.from : n = NullifierAt(p.from[j])
    BY <1>1 DEF ProofSound, Elements
  <1>4. ASSUME NEW i \in Positions, hits(i) = {}
        PROVE  used'[i] = used[i]
    BY <1>1, <1>2, <1>4, FS_EmptySet
  <1>5. ASSUME NEW i \in Positions, hits(i) # {}
        PROVE  /\ i \in DOMAIN leaves
               /\ used[i] = 0 /\ used'[i] = 1
               /\ NullifierAt(i) \in spent'
    <2>1. PICK j \in DOMAIN p.from : p.from[j] = i
      BY <1>5
    <2>2. hits(i) = {j}
      BY <1>1, <2>1 DEF ProofSound
    <2>3. Cardinality(hits(i)) = 1
      BY <2>2, FS_Singleton
    <2>4. i \in DOMAIN leaves /\ NullifierAt(i) \in Elements(p.pub.nullifiers)
      BY <1>1, <1>3, <2>1 DEF ProofSound
    <2>5. used[i] = 0
      BY <1>1, <1>2, <2>4 DEF SpentIsUsed
    <2>6. used'[i] = used[i] + Cardinality(hits(i))
      BY <1>2
    <2> QED  BY <1>2, <2>3, <2>4, <2>5, <2>6
  <1>6. \A j \in DOMAIN p.from : p.from[j] \in Positions /\ hits(p.from[j]) # {}
    BY <1>1 DEF ProofSound
  <1> HIDE DEF hits
  <1>7. used' \in [Positions -> Nat] /\ \A i \in Positions : used'[i] >= used[i]
    <2>1. \A i \in Positions : used'[i] \in Nat /\ used'[i] >= used[i]
      BY <1>1, <1>4, <1>5
    <2> QED  BY <1>2, <2>1
  <1>8. \A i \in DOMAIN leaves : /\ used'[i] \in {0, 1}
                                 /\ used'[i] = 1 => NullifierAt(i) \in spent'
    BY <1>1, <1>2, <1>4, <1>5 DEF SpentIsUsed
  <1>9. \A i \in Positions : i \notin DOMAIN leaves => used'[i] = 0
    BY <1>1, <1>4, <1>5 DEF SpentIsUsed
  <1>10. \A j \in DOMAIN p.from : used[p.from[j]] = 0 /\ used'[p.from[j]] = 1
    BY <1>5, <1>6
  <1>11. \A n \in spent' : \E i \in DOMAIN leaves : n = NullifierAt(i) /\ used'[i] = 1
    <2>1. ASSUME NEW n \in spent
          PROVE  \E i \in DOMAIN leaves : n = NullifierAt(i) /\ used'[i] = 1
      <3>1. PICK i \in DOMAIN leaves : n = NullifierAt(i) /\ used[i] = 1
        BY <1>1 DEF SpentIsUsed
      <3> QED  BY <1>1, <1>4, <1>5, <3>1
    <2>2. ASSUME NEW n \in Elements(p.pub.nullifiers)
          PROVE  \E i \in DOMAIN leaves : n = NullifierAt(i) /\ used'[i] = 1
      BY <1>1, <1>3, <1>10 DEF ProofSound
    <2> QED  BY <1>2, <2>1, <2>2
  <1> QED  BY <1>7, <1>8, <1>9, <1>10, <1>11

\* Settling a proof preserves the invariant.
LEMMA SettleStep ==
  ASSUME IInv, NEW p \in proofs, NEW context, Settle(p, context)
  PROVE  IInv'
  <1>1. /\ TypeOK /\ TreeOK /\ UniqueLeaves /\ SpentIsUsed /\ KeysOrigin /\ KeysApart
        /\ ProofsSound /\ MergeKeysFresh /\ ProofSound(p)
        /\ DOMAIN notes = DOMAIN leaves
    BY DomainFacts DEF IInv, TypeOK, ProofsSound
  <1>2. /\ Elements(p.pub.nullifiers) \cap spent = {}
        /\ RecordOutput(p)
        /\ spent' = spent \cup Elements(p.pub.nullifiers)
        /\ paid'  = [paid EXCEPT ![p.pub.asset] = @ + p.pub.pay]
        /\ UNCHANGED <<deposited, proofs, drawn>>
    BY DEF Settle, Settleable
  <1>3. /\ paid' \in [Assets -> Nat]
        /\ deposited' \in [Assets -> Nat]
        /\ drawn' \subseteq MergeKeys
        /\ used' \in [Positions -> Nat]
    BY <1>1, <1>2, SettleCounts DEF TypeOK, ProofSound
  <1>4. \A j \in DOMAIN p.from : /\ p.from[j] \in DOMAIN notes
                                 /\ NullifierAt(p.from[j]) \in spent'
    BY <1>1, <1>2 DEF ProofSound, Elements
  <1>5. CASE p.note = NoNote
    <2>1. UNCHANGED <<leaves, notes, careless>>
      BY <1>1, <1>2, <1>5 DEF RecordOutput, ProofSound, OutputCommitment
    <2>2. \A i : NullifierAt(i)' = NullifierAt(i)
      BY <2>1 DEF NullifierAt
    <2>3. Kept
      BY <2>1, <2>2 DEF Kept
    <2>4. TypeOK' /\ UniqueLeaves' /\ KeysApart'
      BY <1>1, <1>3, <2>1 DEF TypeOK, TreeOK, UniqueLeaves, KeysApart
    <2>5. SpentIsUsed'
      BY <2>1, <2>2, SettleCounts DEF SpentIsUsed
    <2>6. KeysOrigin'
      BY <1>1, <1>2, <2>1, <2>2 DEF KeysOrigin, RotatedFrom
    <2>7. ProofsSound'
      BY <1>1, <1>2, <2>3, ProofStaysSound DEF ProofsSound
    <2>8. MergeKeysFresh'
      BY <1>1, <1>2, <2>1 DEF MergeKeysFresh
    <2> QED  BY <2>4, <2>5, <2>6, <2>7, <2>8 DEF IInv
  <1>6. CASE p.note # NoNote
    <2>1. p.pub.output # Zero
      BY <1>1, <1>6, HashesNonzero DEF ProofSound, OutputCommitment
    <2>2. /\ Insert(p.pub.output, p.note, p.careless)
          /\ p.careless \in BOOLEAN
          /\ p.pub.output = OutputCommitment(ChainId, p.note)
          /\ p.note.asset \in Assets
          /\ p.note.amount \in 1..Modulus-1
          /\ OutputOrigin(p)
      BY <1>1, <1>2, <1>6, <2>1 DEF RecordOutput, ProofSound, OutputOrigin
    <2>3. \A i \in DOMAIN leaves :
            leaves[i] = p.pub.output => p.careless /\ i \in careless
      BY <1>2, <1>6, OutputIsNew
    <2>4. TreeOK' /\ UniqueLeaves' /\ careless' \subseteq DOMAIN leaves'
      BY <1>1, <2>2, <2>3, InsertGrows
    <2>5. PICK new \in Positions \ DOMAIN leaves : Grown(new, p.note, p.careless)
      BY <1>1, <2>2, <2>3, InsertGrows
    <2>6. Kept /\ DOMAIN leaves' = DOMAIN leaves \cup {new}
               /\ DOMAIN notes' = DOMAIN leaves' /\ notes'[new] = p.note
      BY <2>5 DEF Grown
    <2>7. TypeOK'
      BY <1>3, <2>4 DEF TypeOK
    <2>8. SpentIsUsed'
      <3>1. used'[new] = 0
        BY SettleCounts
      <3>2. \A i \in DOMAIN leaves' : /\ used'[i] \in {0, 1}
                                      /\ used'[i] = 1 => NullifierAt(i)' \in spent'
        <4>1. \A i \in DOMAIN leaves : NullifierAt(i)' = NullifierAt(i)
          BY <2>6 DEF Kept
        <4> QED  BY <2>6, <3>1, <4>1, SettleCounts
      <3>3. \A i \in Positions : i \notin DOMAIN leaves' => used'[i] = 0
        BY <2>6, SettleCounts
      <3>4. \A n \in spent' : \E i \in DOMAIN leaves' : n = NullifierAt(i)' /\ used'[i] = 1
        <4>1. \A i \in DOMAIN leaves : NullifierAt(i)' = NullifierAt(i)
          BY <2>6 DEF Kept
        <4> QED  BY <2>6, <4>1, SettleCounts
      <3> QED  BY <3>2, <3>3, <3>4 DEF SpentIsUsed
    <2>9. KeysOrigin'
      <3>1. IF p.careless
            THEN \/ p.note.key \in CarelessKeys
                 \/ \E j \in careless : RotatedFrom(p.note.key, j)
            ELSE \/ \E k \in DepositKeys : p.note.key = Secret(k)
                 \/ \E m \in drawn : p.note.key = Secret(m)
                 \/ \E j \in DOMAIN notes \ careless : /\ NullifierAt(j) \in spent'
                                                       /\ RotatedFrom(p.note.key, j)
        BY <1>4, <2>2 DEF OutputOrigin
      <3> QED  BY <1>1, <1>2, <2>2, <2>5, <3>1, KeysOriginGrows
    <2>10. KeysApart'
      BY <1>1, <1>6, <2>2, <2>5, OutputApart, KeysApartGrows
    <2>11. ProofsSound'
      BY <1>1, <1>2, <2>6, ProofStaysSound DEF ProofsSound
    <2>12. MergeKeysFresh'
      <3> SUFFICES ASSUME NEW q \in proofs, NEW m \in MergeKeys, q.note.key = Secret(m)
                   PROVE  /\ \A r \in proofs : r.note.key = Secret(m) => r = q
                          /\ \A i \in DOMAIN notes' : notes'[i].key = Secret(m) =>
                                Elements(q.pub.nullifiers) \cap spent' # {}
        BY <1>2 DEF MergeKeysFresh
      <3>1. \A r \in proofs : r.note.key = Secret(m) => r = q
        BY <1>1 DEF MergeKeysFresh
      <3>2. \A i \in DOMAIN leaves : notes'[i].key = Secret(m) =>
               Elements(q.pub.nullifiers) \cap spent' # {}
        BY <1>1, <1>2, <2>6 DEF MergeKeysFresh, Kept
      <3>3. notes'[new].key = Secret(m) => Elements(q.pub.nullifiers) \cap spent' # {}
        <4> SUFFICES ASSUME p.note.key = Secret(m)
                     PROVE  Elements(q.pub.nullifiers) \cap spent' # {}
          BY <2>6
        <4>1. q = p
          BY <3>1
        <4>2. Elements(p.pub.nullifiers) # {}
          BY <1>1 DEF ProofSound, Elements
        <4> QED  BY <1>2, <4>1, <4>2
      <3> QED  BY <2>6, <3>1, <3>2, <3>3
    <2> QED  BY <2>4, <2>7, <2>8, <2>9, <2>10, <2>11, <2>12 DEF IInv
  <1> QED  BY <1>5, <1>6

\* Every step preserves the invariant.
LEMMA NextIInv == IInv /\ [Next]_vars => IInv'
  <1> SUFFICES ASSUME IInv, [Next]_vars PROVE IInv'
    OBVIOUS
  <1>1. ASSUME NEW d \in Deposits, Deposit(d.key, d.asset, d.amount) PROVE IInv'
    BY <1>1, DepositStep
  <1>2. CASE ProveSpend
    BY <1>2, ProveSpendStep
  <1>3. CASE ProveMerge
    BY <1>3, ProveMergeStep
  <1>4. ASSUME NEW p \in proofs, NEW context \in Contexts, Settle(p, context)
        PROVE  IInv'
    BY <1>4, SettleStep
  <1>5. ASSUME NEW p \in proofs, Drop(p) PROVE IInv'
    BY <1>5, DropStep
  <1>6. CASE UNCHANGED vars
    <2>1. UNCHANGED <<leaves, spent, deposited, paid, proofs, drawn, careless, notes, used>>
      BY <1>6 DEF vars
    <2>2. drawn' \subseteq MergeKeys
      BY <2>1 DEF IInv, TypeOK
    <2>3. Kept /\ TypeOK' /\ UniqueLeaves' /\ SpentIsUsed' /\ KeysOrigin' /\ KeysApart'
      BY <2>1, <2>2, TreeStays
    <2>4. ProofsSound' /\ MergeKeysFresh'
      BY <2>1, <2>3, ProofStaysSound DEF IInv, ProofsSound, MergeKeysFresh
    <2> QED  BY <2>3, <2>4 DEF IInv
  <1> QED  BY <1>1, <1>2, <1>3, <1>4, <1>5, <1>6 DEF Next

-----------------------------------------------------------------------------
\* The theorems.

\* Every reachable state of the pool satisfies the inductive invariant.
THEOREM Inductive == Spec => []IInv
  <1> QED  BY InitIInv, NextIInv, PTL DEF Spec

\* Types, and the shape of the tree: one commitment per known note, each to a
\* positive canonical amount of a token of the pool.
THEOREM TypeCorrect == Spec => []TypeOK
  <1>1. IInv => TypeOK
    BY DEF IInv
  <1> QED  BY <1>1, Inductive, PTL

\* No interleaving of deposits, proofs against old roots, replays and merges
\* consumes a leaf twice.
THEOREM NoDoubleSpendHolds == Spec => []NoDoubleSpend
  <1>1. IInv => NoDoubleSpend
    <2> SUFFICES ASSUME IInv, NEW i \in Positions PROVE used[i] <= 1
      BY DEF NoDoubleSpend
    <2>1. CASE i \in DOMAIN leaves
      BY <2>1 DEF IInv, SpentIsUsed
    <2>2. CASE i \notin DOMAIN leaves
      BY <2>2 DEF IInv, SpentIsUsed
    <2> QED  BY <2>1, <2>2
  <1> QED  BY <1>1, Inductive, PTL

\* Only deposits are checked for a repeated leaf, under whatever serial they
\* come, yet no leaf of a careful wallet ever repeats: change keys are rotated,
\* merge keys fresh, and neither is shown to others.
THEOREM UniqueLeavesHolds == Spec => []UniqueLeaves
  <1>1. IInv => UniqueLeaves
    BY DEF IInv
  <1> QED  BY <1>1, Inductive, PTL

\* Leaves that share a nullifier are twins.
LEMMA SharedNullifier ==
  ASSUME TreeOK, UniqueLeaves, NEW i \in DOMAIN leaves, NEW j \in DOMAIN leaves,
         NullifierAt(i) = NullifierAt(j)
  PROVE  j \in Twins(i)
  <1>1. leaves[i] = leaves[j]
    BY NullifierInjective DEF NullifierAt
  <1>2. i = j \/ {i, j} \subseteq careless
    BY <1>1 DEF UniqueLeaves
  <1> QED  BY <1>1, <1>2 DEF Twins

\* A canonical amount is its own residue, and nothing of it remains once it is
\* paid out.
LEMMA FullSpend ==
  ASSUME NEW v \in 1..Modulus-1
  PROVE  Canonical(v) /\ Remaining(v, v) = 0
  <1>1. Modulus \in Nat /\ Modulus > 1
    BY ModulusAssumption
  <1>2. v % Modulus = v
    BY <1>1
  <1>3. v - v = 0 /\ 0 % Modulus = 0
    BY <1>1
  <1> QED  BY <1>1, <1>2, <1>3 DEF Canonical, Encodings, Remaining

\* A careful note that is not consumed, and a careless one none of whose twins
\* is, can always be redeemed in full.
THEOREM NotesSpendable == Spec => []EveryNoteSpendable
  <1>1. IInv => EveryNoteSpendable
    <2> SUFFICES ASSUME IInv, NEW i \in DOMAIN notes, \A j \in Twins(i) : used[j] = 0,
                        NEW context \in Contexts \ {Zero}
                 PROVE  LET note == notes[i]
                            wit  == [key |-> note.key, amount |-> note.amount, index |-> i]
                            pub  == SpendStatement(ChainId, leaves, note.asset, context,
                                                   note.amount, wit)
                        IN /\ SpendCircuit(pub, wit)
                           /\ Settleable(pub, context)
                           /\ pub.output = Zero
      BY DEF EveryNoteSpendable
    <2> DEFINE note == notes[i]
               wit  == [key |-> note.key, amount |-> note.amount, index |-> i]
               pub  == SpendStatement(ChainId, leaves, note.asset, context,
                                      note.amount, wit)
    <2>1. /\ TreeOK /\ i \in DOMAIN leaves /\ DOMAIN leaves = 1..Len(leaves)
          /\ Len(leaves) \in Nat
          /\ note # NoNote /\ note.amount \in 1..Modulus-1
          /\ leaves[i] = OutputCommitment(ChainId, note)
      BY DomainFacts DEF IInv, TypeOK, TreeOK
    <2>2. SpentLeaf(ChainId, note.asset, wit) = leaves[i]
      BY <2>1 DEF SpentLeaf, OutputCommitment
    <2>3. Canonical(note.amount) /\ Remaining(note.amount, note.amount) = 0
      BY <2>1, FullSpend
    <2>4. note.key # Zero
      BY <2>1, KeyKinds, CarelessAssumption DEF IInv, KeysOrigin, RotatedFrom
    <2>5. ChangeNote(wit.key, NullifierAt(i), note.asset,
                     Remaining(wit.amount, note.amount)) = NoNote
      BY <2>3 DEF ChangeNote
    <2>6. /\ pub.kind = "spend"
          /\ pub.chain = ChainId /\ pub.root = leaves /\ pub.asset = note.asset
          /\ pub.context = context /\ pub.pay = note.amount
          /\ pub.nullifiers = <<NullifierAt(i)>>
          /\ pub.output = Zero
      BY <2>2, <2>5 DEF SpendStatement, NullifierAt, SpendChange, OutputCommitment
    <2>7. leaves \in AcceptedRoots
      <3>1. SubSeq(leaves, 1, Len(leaves)) = leaves
        BY <2>1 DEF TreeOK
      <3>2. Len(leaves) \in 0..Len(leaves)
        BY <2>1
      <3> HIDE DEF note, pub
      <3> QED  BY <3>1, <3>2, Zenon DEF AcceptedRoots
    <2>8. NullifierAt(i) \notin spent
      <3> SUFFICES ASSUME NullifierAt(i) \in spent
                   PROVE  FALSE
        OBVIOUS
      <3>1. PICK j \in DOMAIN leaves : NullifierAt(i) = NullifierAt(j) /\ used[j] = 1
        BY DEF IInv, SpentIsUsed
      <3>2. j \in Twins(i)
        BY <2>1, <3>1, SharedNullifier DEF IInv
      <3> QED  BY <3>1, <3>2
    <2>9. Settleable(pub, context)
      <3>1. Elements(<<NullifierAt(i)>>) = {NullifierAt(i)}
        BY DEF Elements
      <3> HIDE DEF pub
      <3> QED  BY <2>6, <2>7, <2>8, <3>1 DEF Settleable
    <2>10. SpendCircuit(pub, wit)
      <3>1. NoteCommitment(ChainId, NoteSn(wit.key), note.asset, wit.amount) = leaves[i]
        BY <2>2 DEF SpentLeaf
      <3>2. NoteNullifier(leaves[i], wit.key) = NullifierAt(i)
        BY DEF NullifierAt
      <3>3. Zero \notin {wit.key, context, NoteSn(wit.key), leaves[i], NullifierAt(i)}
        BY <2>4, <3>1, <3>2, HashesNonzero
      <3>4. Opens(leaves, wit.index, leaves[i])
        BY <2>1 DEF Opens
      <3>5. OutputCommitment(ChainId, NoNote) = Zero
        BY DEF OutputCommitment
      <3>6. wit.amount = note.amount /\ note.amount <= note.amount
        BY <2>1
      <3> HIDE DEF pub, wit
      <3> QED  BY <2>3, <2>5, <2>6, <3>1, <3>2, <3>3, <3>4, <3>5, <3>6 DEF SpendCircuit
    <2> QED  BY <2>6, <2>9, <2>10
  <1> QED  BY <1>1, Inductive, PTL

\* A root stays accepted whatever is inserted after it, and the tree fills up
\* one leaf at a time.
LEMMA RootsKept ==
  ASSUME TreeOK, NEW c, NEW n, NEW isCareless, Insert(c, n, isCareless)
  PROVE  /\ AcceptedRoots \subseteq AcceptedRoots'
         /\ Len(leaves') \in Nat /\ Len(leaves') <= Capacity
  <1>1. /\ leaves' = Append(leaves, c)
        /\ Len(leaves) < Capacity
        /\ Len(leaves) \in Nat
        /\ leaves \in Seq(Elements(leaves))
        /\ leaves' \in Seq(Elements(leaves'))
        /\ Len(leaves') = Len(leaves) + 1
        /\ \A i \in 1..Len(leaves) : leaves'[i] = leaves[i]
    BY AppendFacts DEF Insert, TreeOK
  <1>2. ASSUME NEW m \in 0..Len(leaves)
        PROVE  SubSeq(leaves', 1, m) = SubSeq(leaves, 1, m)
    <2>1. SubSeq(leaves, 1, m) = [i \in 1..m |-> leaves[i]]
      BY <1>1
    <2>2. SubSeq(leaves', 1, m) = [i \in 1..m |-> leaves'[i]]
      BY <1>1
    <2> QED  BY <1>1, <2>1, <2>2
  <1>3. 0..Len(leaves) \subseteq 0..Len(leaves')
    BY <1>1
  <1>4. AcceptedRoots \subseteq AcceptedRoots'
    BY <1>2, <1>3, Zenon DEF AcceptedRoots
  <1> QED  BY <1>1, <1>4, PoolAssumption

\* A proof that can settle stays so until one of its own inputs, or a careless
\* twin of one, is consumed or no slot is left for its output: nobody can make
\* the proof of a careful wallet stale from outside.
THEOREM PendingProofsSurvive == Spec => PendingProofSurvives
  <1>1. ASSUME IInv, Next, NEW p \in proofs, CanSettle(p)
        PROVE  \/ CanSettle(p)'
               \/ \E j \in DOMAIN p.from : \E i \in Twins(p.from[j]) : used'[i] > used[i]
               \/ p.pub.output # Zero /\ Len(leaves') = Capacity
    <2>1. TreeOK /\ ProofSound(p) /\ Len(leaves) \in 0..Capacity
      BY <1>1, DomainFacts DEF IInv, TypeOK, ProofsSound
    <2>2. \/ UNCHANGED leaves
          \/ \E c, n, b : Insert(c, n, b)
      <3>1. ASSUME NEW d \in Deposits, Deposit(d.key, d.asset, d.amount)
            PROVE  \E c, n, b : Insert(c, n, b)
        BY <3>1 DEF Deposit
      <3>2. ASSUME NEW q \in proofs, NEW context \in Contexts, Settle(q, context)
            PROVE  UNCHANGED leaves \/ \E c, n, b : Insert(c, n, b)
        BY <3>2 DEF Settle, RecordOutput
      <3> QED  BY <1>1, <3>1, <3>2 DEF Next, ProveSpend, ProveMerge, Drop
    <2>3. /\ AcceptedRoots \subseteq AcceptedRoots'
          /\ Len(leaves') \in Nat /\ Len(leaves') <= Capacity
      <3>1. CASE UNCHANGED leaves
        <4>1. AcceptedRoots' = AcceptedRoots
          BY <3>1 DEF AcceptedRoots
        <4> QED  BY <2>1, <3>1, <4>1, PoolAssumption
      <3>2. CASE \E c, n, b : Insert(c, n, b)
        BY <2>1, <3>2, RootsKept
      <3> QED  BY <2>2, <3>1, <3>2
    <2>4. \/ spent' = spent
          \/ \E q \in proofs, context \in Contexts : Settle(q, context)
      BY <1>1 DEF Next, Deposit, ProveSpend, ProveMerge, Drop
    <2>5. \/ Elements(p.pub.nullifiers) \cap spent' = {}
          \/ \E j \in DOMAIN p.from : \E i \in Twins(p.from[j]) : used'[i] > used[i]
      <3>1. Elements(p.pub.nullifiers) \cap spent = {}
        BY <1>1 DEF CanSettle, Settleable
      <3>2. CASE spent' = spent
        BY <3>1, <3>2
      <3>3. ASSUME NEW q \in proofs, NEW context \in Contexts, Settle(q, context),
                   Elements(p.pub.nullifiers) \cap spent' # {}
            PROVE  \E j \in DOMAIN p.from : \E i \in Twins(p.from[j]) : used'[i] > used[i]
        <4>1. PICK j \in DOMAIN p.pub.nullifiers : p.pub.nullifiers[j] \in spent'
          BY <3>3 DEF Elements
        <4>2. /\ j \in DOMAIN p.from /\ p.from[j] \in DOMAIN leaves
              /\ p.pub.nullifiers[j] = NullifierAt(p.from[j])
          BY <2>1, <4>1 DEF ProofSound
        <4>3. NullifierAt(p.from[j]) \in Elements(q.pub.nullifiers)
          BY <3>1, <3>3, <4>1, <4>2 DEF Elements, Settle
        <4>4. PICK l \in DOMAIN q.pub.nullifiers :
                q.pub.nullifiers[l] = NullifierAt(p.from[j])
          BY <4>3 DEF Elements
        <4>5. /\ l \in DOMAIN q.from /\ q.from[l] \in DOMAIN leaves
              /\ NullifierAt(q.from[l]) = NullifierAt(p.from[j])
          BY <1>1, <3>3, <4>4 DEF IInv, ProofsSound, ProofSound
        <4>6. q.from[l] \in Twins(p.from[j])
          BY <1>1, <2>1, <4>2, <4>5, SharedNullifier DEF IInv
        <4>7. used[q.from[l]] = 0 /\ used'[q.from[l]] = 1
          BY <1>1, <3>3, <4>5, SettleCounts
        <4> QED  BY <4>2, <4>6, <4>7
      <3> QED  BY <2>4, <3>2, <3>3
    <2>6. CanSettle(p)' \/ ~(Elements(p.pub.nullifiers) \cap spent' = {})
             \/ (p.pub.output # Zero /\ Len(leaves') = Capacity)
      <3>1. /\ p.pub.chain = ChainId /\ p.pub.root \in AcceptedRoots'
            /\ p.pub.kind = "spend" => p.pub.context = p.pub.context
        BY <1>1, <2>3 DEF CanSettle, Settleable
      <3>2. Len(leaves') < Capacity \/ Len(leaves') = Capacity
        BY <2>3, PoolAssumption
      <3> QED  BY <3>1, <3>2 DEF CanSettle, Settleable
    <2> QED  BY <2>5, <2>6
  <1>2. IInv /\ [Next]_vars =>
          [\A p \in proofs : CanSettle(p) =>
             \/ CanSettle(p)'
             \/ \E j \in DOMAIN p.from : \E i \in Twins(p.from[j]) : used'[i] > used[i]
             \/ p.pub.output # Zero /\ Len(leaves') = Capacity]_vars
    BY <1>1
  <1> QED  BY <1>2, Inductive, PTL DEF PendingProofSurvives, Spec
-----------------------------------------------------------------------------
\* The books: conservation, and the vault the pool implements.

\* Values that are natural numbers have a natural sum.
LEMMA WorthNat ==
  ASSUME NEW ns, ns \in Seq(Elements(ns)), \A i \in DOMAIN ns : ns[i].amount \in Nat,
         NEW u, NEW a
  PROVE  SumOf(Values(ns, u, a), Len(ns)) \in Nat
  <1>1. Len(ns) \in Nat /\ DOMAIN ns = 1..Len(ns)
    BY LenProperties
  <1>2. \A n \in 1..Len(ns) : Values(ns, u, a)[n] \in Nat
    BY <1>1 DEF Values
  <1> QED  BY <1>1, <1>2, SumNat

\* The values of the notes are natural numbers, and so is their sum.
LEMMA UnspentNat ==
  ASSUME TreeOK, NEW u, NEW a
  PROVE  /\ Len(notes) \in Nat
         /\ DOMAIN notes = 1..Len(notes)
         /\ \A n \in 1..Len(notes) : Values(notes, u, a)[n] \in Nat
         /\ SumOf(Values(notes, u, a), Len(notes)) \in Nat
  <1>1. /\ Len(notes) \in Nat /\ DOMAIN notes = 1..Len(notes)
        /\ \A n \in 1..Len(notes) : notes[n].amount \in Nat
    BY DomainFacts, ModulusAssumption DEF TreeOK
  <1>2. \A n \in 1..Len(notes) : Values(notes, u, a)[n] \in Nat
    BY <1>1 DEF Values
  <1> QED  BY <1>1, <1>2, SumNat

\* A new leaf adds the value of its note, in its asset.
LEMMA UnspentInserted ==
  ASSUME TreeOK, NEW c, NEW n, NEW isCareless, Insert(c, n, isCareless),
         n.amount \in Nat,
         NEW u, NEW a, u[Len(notes) + 1] = 0
  PROVE  SumOf(Values(notes', u, a), Len(notes'))
           = SumOf(Values(notes, u, a), Len(notes)) + (IF n.asset = a THEN n.amount ELSE 0)
  <1> DEFINE m == Len(notes)
             f == Values(notes, u, a)
             e == Values(notes', u, a)
  <1>1. /\ m \in Nat /\ Len(notes') = m + 1 /\ DOMAIN notes' = 1..m+1
        /\ DOMAIN notes = 1..m
        /\ \A i \in 1..m : notes'[i] = notes[i]
        /\ notes'[m + 1] = n
    BY AppendFacts DEF Insert, TreeOK
  <1>2. \A i \in 1..m : f[i] \in Int /\ e[i] \in Int /\ f[i] = e[i]
    <2>1. \A i \in 1..m : f[i] \in Nat
      BY UnspentNat
    <2>2. \A i \in 1..m : f[i] = e[i]
      BY <1>1 DEF Values
    <2> QED  BY <2>1, <2>2
  <1>3. e[m + 1] = (IF n.asset = a THEN n.amount ELSE 0)
    <2>1. m + 1 \in 1..m+1
      BY <1>1
    <2> QED  BY <1>1, <2>1 DEF Values
  <1> HIDE DEF m, f, e
  <1>4. \A i \in 1..m+1 : e[i] \in Int
    BY <1>1, <1>2, <1>3
  <1>5. SumOf(e, m + 1) = SumOf(e, m) + e[m + 1]
    BY <1>1, <1>4, SumMore
  <1>6. SumOf(f, m) = SumOf(e, m)
    BY <1>1, <1>2, SumSame
  <1>7. SumOf(e, m + 1) = SumOf(f, m) + (IF n.asset = a THEN n.amount ELSE 0)
    BY <1>3, <1>5, <1>6
  <1> QED  BY <1>1, <1>7 DEF m, f, e

\* A deposit adds its amount to the value of its asset, and to no other.
LEMMA DepositBooks ==
  ASSUME IInv, NEW k, NEW a, NEW v \in 1..Modulus-1,
         Deposit(k, a, v), NEW b \in Assets
  PROVE  Unspent(b)' = Unspent(b) + (IF b = a THEN v ELSE 0)
  <1> DEFINE n == [key |-> k, asset |-> a, amount |-> v]
             c == OutputCommitment(ChainId, n)
  <1>1. Insert(c, n, k \in CarelessKeys) /\ used' = used /\ TreeOK /\ SpentIsUsed
    BY DEF Deposit, IInv, TypeOK
  <1>2. n.asset = a /\ n.amount = v /\ v \in Nat
    BY ModulusAssumption
  <1> HIDE DEF c, n
  <1>3. used[Len(notes) + 1] = 0
    <2>1. Len(notes) + 1 \in Positions /\ Len(notes) + 1 \notin DOMAIN leaves
      BY <1>1, DomainFacts, PoolAssumption DEF Insert, Positions, TreeOK
    <2> QED  BY <1>1, <2>1 DEF SpentIsUsed
  <1>4. SumOf(Values(notes', used, b), Len(notes'))
          = SumOf(Values(notes, used, b), Len(notes)) + (IF n.asset = b THEN n.amount ELSE 0)
    BY <1>1, <1>2, <1>3, UnspentInserted
  <1> QED  BY <1>1, <1>2, <1>4 DEF Unspent

\* Consuming the inputs of a proof takes their worth away.
LEMMA InputsTaken ==
  ASSUME IInv, NEW p \in proofs, NEW context, Settle(p, context), NEW b \in Assets
  PROVE  SumOf(Values(notes, used', b), Len(notes))
           = SumOf(Values(notes, used, b), Len(notes))
               - (IF b = p.pub.asset THEN p.pub.pay + p.note.amount ELSE 0)
  <1> DEFINE m == Len(notes)
             c == Len(p.from)
             at == p.from
             f == Values(notes, used, b)
             e == Values(notes, used', b)
             in == [j \in 1..c |-> f[at[j]]]
             worth == [j \in DOMAIN at |-> notes[at[j]].amount]
  <1>1. /\ TreeOK /\ ProofSound(p) /\ ProofBalanced(p)
        /\ used \in [Positions -> Nat] /\ DOMAIN leaves \subseteq Positions
        /\ DOMAIN notes = DOMAIN leaves
    BY DomainFacts DEF IInv, TypeOK, ProofsSound
  <1>2. /\ m \in Nat /\ c \in Nat
        /\ DOMAIN notes = 1..m /\ DOMAIN at = 1..c
        /\ \A i \in 1..m : f[i] \in Nat
        /\ \A j \in 1..c : at[j] \in 1..m
        /\ \A i, j \in 1..c : at[i] = at[j] => i = j
    <2>1. c \in Nat /\ DOMAIN at = 1..c
      BY <1>1, LenProperties DEF ProofBalanced
    <2> QED  BY <1>1, <2>1, UnspentNat DEF ProofSound
  <1>3. used' = [i \in Positions |->
                   used[i] + Cardinality({j \in DOMAIN at : at[j] = i})]
    BY DEF Settle
  <1>4. \A j \in 1..c : used[at[j]] = 0 /\ used'[at[j]] = 1
    BY <1>2, SettleCounts
  <1>5. \A i \in 1..m : (\A j \in 1..c : at[j] # i) => used'[i] = used[i]
    <2> SUFFICES ASSUME NEW i \in 1..m, \A j \in 1..c : at[j] # i
                 PROVE  used'[i] = used[i]
      OBVIOUS
    <2> DEFINE hits == {j \in DOMAIN at : at[j] = i}
    <2>1. hits = {}
      BY <1>2
    <2>2. i \in Positions /\ used[i] \in Nat
      BY <1>1, <1>2
    <2>3. used'[i] = used[i] + Cardinality(hits)
      BY <1>3, <2>2
    <2>4. Cardinality(hits) = 0
      BY <2>1, FS_EmptySet
    <2> HIDE DEF hits
    <2> QED  BY <2>2, <2>3, <2>4
  <1>6. /\ \A j \in 1..c : e[at[j]] = 0
        /\ \A i \in 1..m : (\A j \in 1..c : at[j] # i) => e[i] = f[i]
    BY <1>2, <1>4, <1>5 DEF Values
  <1>7. \A j \in 1..c : in[j] = IF b = p.pub.asset THEN worth[j] ELSE 0
    <2> SUFFICES ASSUME NEW j \in 1..c
                 PROVE  f[at[j]] = IF b = p.pub.asset THEN worth[j] ELSE 0
      OBVIOUS
    <2>1. notes[at[j]].asset = p.pub.asset /\ at[j] \in DOMAIN notes
      BY <1>1, <1>2 DEF ProofBalanced
    <2> QED  BY <1>2, <1>4, <2>1 DEF Values
  <1>8. SumOf(worth, c) = p.pub.pay + p.note.amount
    BY <1>1 DEF ProofBalanced
  <1>9. \A j \in 1..c : in[j] \in Int
    BY <1>2
  <1>10. in = [j \in 1..c |-> f[at[j]]]
    OBVIOUS
  <1> HIDE DEF f, e, worth, m, c, at, in
  <1>11. SumOf(e, m) = SumOf(f, m) - SumOf(in, c)
    <2>1. /\ \A i \in 1..m : f[i] \in Int
          /\ \A j \in 1..c : at[j] \in 1..m
      BY <1>2
    <2>2. \A i, j \in 1..c : at[i] = at[j] => i = j
      BY <1>2
    <2>3. m \in Nat /\ c \in Nat
      BY <1>2
    <2>4. \A j \in 1..c : in[j] = f[at[j]]
      BY <1>10
    <2> QED  BY <1>6, <2>1, <2>2, <2>3, <2>4, SumClear
  <1>12. SumOf(in, c) = IF b = p.pub.asset THEN p.pub.pay + p.note.amount ELSE 0
    <2>1. CASE b = p.pub.asset
      <3>1. SumOf(in, c) = SumOf(worth, c)
        BY <1>2, <1>7, <1>9, <2>1, SumSame
      <3> QED  BY <1>8, <2>1, <3>1
    <2>2. CASE b # p.pub.asset
      <3>1. SumOf(in, c) = 0
        BY <1>2, <1>7, <2>2, SumNone
      <3> QED  BY <2>2, <3>1
    <2> QED  BY <2>1, <2>2
  <1> QED  BY <1>11, <1>12 DEF f, e, m

\* Settling takes the payment out of the value of its asset, and of no other:
\* the output of a proof is worth what is left of its inputs.
LEMMA SettleBooks ==
  ASSUME IInv, NEW p \in proofs, NEW context, Settle(p, context), NEW b \in Assets
  PROVE  Unspent(b)' = Unspent(b) - (IF b = p.pub.asset THEN p.pub.pay ELSE 0)
  <1> DEFINE old == SumOf(Values(notes, used, b), Len(notes))
             mid == SumOf(Values(notes, used', b), Len(notes))
             new == SumOf(Values(notes', used', b), Len(notes'))
  <1>1. /\ TreeOK /\ ProofSound(p) /\ ProofBalanced(p) /\ p.pub.pay \in Nat
    BY DEF IInv, TypeOK, ProofsSound, ProofSound
  <1>2. mid = old - (IF b = p.pub.asset THEN p.pub.pay + p.note.amount ELSE 0)
    BY InputsTaken
  <1>3. old \in Nat
    BY <1>1, UnspentNat
  <1>4. new = mid + (IF b = p.pub.asset THEN p.note.amount ELSE 0) /\ p.note.amount \in Nat
    <2>1. CASE p.note = NoNote
      <3>1. notes' = notes
        BY <1>1, <2>1 DEF Settle, RecordOutput, ProofSound, OutputCommitment
      <3>2. p.note.amount = 0
        BY <2>1 DEF NoNote
      <3>3. mid \in Nat
        BY <1>1, UnspentNat
      <3>4. new = mid
        BY <3>1
      <3> HIDE DEF new, mid
      <3> QED  BY <3>2, <3>3, <3>4
    <2>2. CASE p.note # NoNote
      <3>1. p.pub.output # Zero
        BY <1>1, <2>2, HashesNonzero DEF ProofSound, OutputCommitment
      <3>2. /\ Insert(p.pub.output, p.note, p.careless)
            /\ p.note.amount \in Nat
            /\ p.note.asset = p.pub.asset
        BY <1>1, <2>2, <3>1, ModulusAssumption
           DEF Settle, RecordOutput, ProofSound, ProofBalanced, OutputOrigin
      <3>3. used'[Len(notes) + 1] = 0
        <4>1. Len(notes) + 1 \in Positions /\ Len(notes) + 1 \notin DOMAIN leaves
          BY <1>1, <3>2, DomainFacts, PoolAssumption DEF Insert, Positions, TreeOK
        <4> QED  BY <4>1, SettleCounts
      <3>4. new = mid + (IF p.note.asset = b THEN p.note.amount ELSE 0)
        BY <1>1, <3>2, <3>3, UnspentInserted
      <3> QED  BY <3>2, <3>4
    <2> QED  BY <2>1, <2>2
  <1>5. Unspent(b) = old /\ Unspent(b)' = new
    BY DEF Unspent
  <1> HIDE DEF old, mid, new
  <1> QED  BY <1>1, <1>2, <1>3, <1>4, <1>5

\* What a step does to the books: a deposit, a covered withdrawal, or nothing.
LEMMA Books ==
  ASSUME IInv, IInv', [Next]_vars
  PROVE  \/ /\ \A b \in Assets : Unspent(b)' = Unspent(b)
            /\ deposited' = deposited /\ paid' = paid
         \/ \E a \in Assets, v \in Nat \ {0} :
              /\ \A b \in Assets : Unspent(b)' = Unspent(b) + (IF b = a THEN v ELSE 0)
              /\ deposited' = [deposited EXCEPT ![a] = @ + v] /\ paid' = paid
         \/ \E a \in Assets, v \in Nat \ {0} :
              /\ \A b \in Assets : Unspent(b)' = Unspent(b) - (IF b = a THEN v ELSE 0)
              /\ v <= Unspent(a)
              /\ paid' = [paid EXCEPT ![a] = @ + v] /\ deposited' = deposited
  <1>1. \A b : Unspent(b) \in Nat /\ Unspent(b)' \in Nat
    <2>1. \A b : Unspent(b) \in Nat
      BY UnspentNat DEF Unspent, IInv, TypeOK
    <2>2. \A b : Unspent(b)' \in Nat
      <3>1. /\ notes' \in Seq(Elements(notes'))
            /\ \A i \in DOMAIN notes' : notes'[i].amount \in Nat
        BY ModulusAssumption DEF IInv, TypeOK, TreeOK
      <3> QED  BY <3>1, WorthNat DEF Unspent
    <2> QED  BY <2>1, <2>2
  <1>2. ASSUME NEW d \in Deposits, Deposit(d.key, d.asset, d.amount)
        PROVE  \E x \in Assets, w \in Nat \ {0} :
              /\ \A b \in Assets : Unspent(b)' = Unspent(b) + (IF b = x THEN w ELSE 0)
              /\ deposited' = [deposited EXCEPT ![x] = @ + w] /\ paid' = paid
    <2> DEFINE a == d.asset
               v == d.amount
    <2>1. a \in Assets /\ v \in 1..Modulus-1
      BY DepositsAssumption
    <2>2. \A b \in Assets : Unspent(b)' = Unspent(b) + (IF b = a THEN v ELSE 0)
      BY <1>2, <2>1, DepositBooks
    <2>3. deposited' = [deposited EXCEPT ![a] = @ + v] /\ paid' = paid
      BY <1>2 DEF Deposit
    <2> HIDE DEF a, v
    <2>4. v \in Nat \ {0}
      BY <2>1, ModulusAssumption
    <2> QED  BY <2>1, <2>2, <2>3, <2>4
  <1>3. ASSUME NEW p \in proofs, NEW context \in Contexts, Settle(p, context),
               p.pub.pay # 0
        PROVE  \E a \in Assets, v \in Nat \ {0} :
              /\ \A b \in Assets : Unspent(b)' = Unspent(b) - (IF b = a THEN v ELSE 0)
              /\ v <= Unspent(a)
              /\ paid' = [paid EXCEPT ![a] = @ + v] /\ deposited' = deposited
    <2> DEFINE a == p.pub.asset
               v == p.pub.pay
    <2>1. a \in Assets /\ v \in Nat \ {0}
      BY <1>3 DEF IInv, ProofsSound, ProofSound
    <2>2. \A b \in Assets : Unspent(b)' = Unspent(b) - (IF b = a THEN v ELSE 0)
      BY <1>3, SettleBooks
    <2>3. paid' = [paid EXCEPT ![a] = @ + v] /\ deposited' = deposited
      BY <1>3 DEF Settle
    <2> HIDE DEF a, v
    <2>4. Unspent(a)' = Unspent(a) - v
      BY <2>1, <2>2
    <2>5. v <= Unspent(a)
      BY <1>1, <2>1, <2>4
    <2> QED  BY <2>1, <2>2, <2>3, <2>5
  <1>4. ASSUME NEW p \in proofs, NEW context \in Contexts, Settle(p, context),
               p.pub.pay = 0
        PROVE  /\ \A b \in Assets : Unspent(b)' = Unspent(b)
               /\ deposited' = deposited /\ paid' = paid
    <2>1. \A b \in Assets : Unspent(b)' = Unspent(b)
      BY <1>1, <1>4, SettleBooks
    <2>2. paid' = [paid EXCEPT ![p.pub.asset] = @ + p.pub.pay] /\ deposited' = deposited
      BY <1>4 DEF Settle
    <2>3. paid \in [Assets -> Nat] /\ p.pub.asset \in Assets
      BY DEF IInv, TypeOK, ProofsSound, ProofSound
    <2> QED  BY <1>4, <2>1, <2>2, <2>3
  <1>5. ASSUME ProveSpend \/ ProveMerge \/ (\E p \in proofs : Drop(p)) \/ UNCHANGED vars
        PROVE  /\ \A b \in Assets : Unspent(b)' = Unspent(b)
               /\ deposited' = deposited /\ paid' = paid
    BY <1>5 DEF ProveSpend, ProveMerge, Drop, vars, Unspent
  <1> QED  BY <1>2, <1>3, <1>4, <1>5 DEF Next

\* The empty pool holds nothing.
LEMMA InitBooks == Init => \A a \in Assets : Unspent(a) = 0
  BY SumZero DEF Init, Unspent

\* Token by token, what came in is what was paid out plus what the live notes
\* are worth.
THEOREM ValueConserved == Spec => []Conservation
  <1>1. Init => Conservation
    BY InitBooks DEF Init, Conservation
  <1>2. ASSUME IInv, IInv', Conservation, [Next]_vars PROVE Conservation'
    <2> SUFFICES ASSUME NEW b \in Assets
                 PROVE  deposited'[b] = paid'[b] + Unspent(b)'
      BY DEF Conservation
    <2>1. /\ deposited \in [Assets -> Nat] /\ paid \in [Assets -> Nat]
          /\ deposited[b] = paid[b] + Unspent(b)
          /\ Unspent(b) \in Nat
      BY <1>2, UnspentNat DEF IInv, TypeOK, Conservation, Unspent
    <2> QED  BY <1>2, <2>1, Books
  <1> QED  BY <1>1, <1>2, Inductive, PTL DEF Spec

\* The pool implements the vault: whatever provers and settlers do, an observer
\* of the token transfers sees deposits, and withdrawals that are covered.
THEOREM Refinement == Spec => ImplementsVault
  <1>1. Init => V!Init
    BY InitBooks DEF Init, V!Init
  <1>2. ASSUME IInv, IInv', [Next]_vars PROVE [V!Next]_V!vars
    <2> DEFINE balance == [a \in Assets |-> Unspent(a)]
    <2>1. /\ deposited \in [Assets -> Nat] /\ paid \in [Assets -> Nat]
          /\ \A b \in Assets : Unspent(b) \in Nat
      BY <1>2, UnspentNat DEF IInv, TypeOK, Unspent
    <2>2. CASE /\ \A b \in Assets : Unspent(b)' = Unspent(b)
               /\ deposited' = deposited /\ paid' = paid
      BY <2>2 DEF V!vars
    <2>3. ASSUME NEW a \in Assets, NEW v \in Nat \ {0},
                 \A b \in Assets : Unspent(b)' = Unspent(b) + (IF b = a THEN v ELSE 0),
                 deposited' = [deposited EXCEPT ![a] = @ + v], paid' = paid
          PROVE  V!Next
      <3>1. balance'[a] - balance[a] = v
        BY <2>1, <2>3
      <3>2. balance' = [balance EXCEPT ![a] = @ + v]
        <4>1. \A b \in Assets : balance'[b] = [balance EXCEPT ![a] = @ + v][b]
          BY <2>1, <2>3
        <4> QED  BY <4>1
      <3>3. V!TakeIn(a, v)
        BY <2>3, <3>2 DEF V!TakeIn
      <3> QED  BY <3>1, <3>3 DEF V!Next
    <2>4. ASSUME NEW a \in Assets, NEW v \in Nat \ {0},
                 \A b \in Assets : Unspent(b)' = Unspent(b) - (IF b = a THEN v ELSE 0),
                 v <= Unspent(a),
                 paid' = [paid EXCEPT ![a] = @ + v], deposited' = deposited
          PROVE  V!Next
      <3>1. balance[a] - balance'[a] = v
        BY <2>1, <2>4
      <3>2. balance' = [balance EXCEPT ![a] = @ - v]
        <4>1. \A b \in Assets : balance'[b] = [balance EXCEPT ![a] = @ - v][b]
          BY <2>1, <2>4
        <4> QED  BY <4>1
      <3>3. V!PayOut(a, v)
        BY <2>4, <3>2 DEF V!PayOut
      <3> QED  BY <3>1, <3>3 DEF V!Next
    <2> QED  BY <1>2, <2>2, <2>3, <2>4, Books
  <1> QED  BY <1>1, <1>2, Inductive, PTL DEF Spec, ImplementsVault, V!Spec
=============================================================================
