-------------------------- MODULE OwnedPool_proofs --------------------------
(***************************************************************************)
(* Proofs about OwnedPool, for every value of its constants.  The          *)
(* argument: a settled proof consumes exactly the leaf whose nullifier     *)
(* joins the nullifier set (SpentIsUsed); that nullifier is the leaf's     *)
(* alone because leaves never repeat (UniqueLeaves); and leaves never      *)
(* repeat because the key of a note tells where it comes from              *)
(* (KeysOrigin): a fund key is drawn once, a change key is rotated out of  *)
(* a leaf consumed in the same step, and the releases of a position carry  *)
(* its number and their running total as their receipt.                    *)
(***************************************************************************)
EXTENDS OwnedPool, Sums_proofs, SequenceTheorems, TLAPS

-----------------------------------------------------------------------------
\* The inductive invariant.

\* The nullifier of a leaf.
NullifierAt(i) == NoteNullifier(family, leaves[i], notes[i].key)

\* The leaves and the notes fill the same places, and each leaf commits to its
\* note.
TreeOK ==
  /\ family \in Families
  /\ leaves \in Seq(Elements(leaves)) /\ notes \in Seq(Elements(notes))
  /\ Len(leaves) = Len(notes) /\ Len(leaves) <= Capacity
  /\ \A i \in DOMAIN notes :
       /\ notes[i].owner \in Owners
       /\ notes[i].amount \in 1..Modulus-1
       /\ leaves[i] = Leaf(family, ChainId, notes[i])

BooksOK ==
  /\ funded \in [Owners -> Nat] /\ paid \in [Owners -> Nat]
  /\ used \in [Places -> Nat]
  /\ drawn \subseteq FundKeys

\* The nullifier set is the nullifiers of the leaves consumed.
SpentIsUsed ==
  /\ \A i \in DOMAIN leaves : used[i] = IF NullifierAt(i) \in spent THEN 1 ELSE 0
  /\ \A i \in Places : i \notin DOMAIN leaves => used[i] = 0
  /\ \A n \in spent : \E i \in DOMAIN leaves : n = NullifierAt(i)

IsReturnKey(key) == key[1] = Tag(PLEDGE, "RETURN_KEY")

\* A position is an issue's: its serial is of its holder and a return key.
PositionOK(pos) ==
  /\ pos = [serial   |-> NoteSn(PLEDGE, pos.holder, pos.key),
            pledged  |-> pos.pledged,
            released |-> pos.released,
            holder   |-> pos.holder,
            key      |-> pos.key]
  /\ pos.holder \in Owners
  /\ pos.pledged \in Nat /\ pos.released \in 0..pos.pledged
  /\ IsReturnKey(pos.key)

PositionsOK ==
  /\ positions \in Seq(Elements(positions))
  /\ \A j \in DOMAIN positions : family = PLEDGE /\ PositionOK(positions[j])

\* Where a note comes from: funding, the change of a leaf already consumed, or
\* a release of a position up to what it has released so far.
KeyOrigin(note) ==
  \/ \E k \in drawn : note.key = Secret(k)
  \/ \E h \in DOMAIN notes :
       /\ NullifierAt(h) \in spent
       /\ note.key = ChangeKey(family, notes[h].key, NullifierAt(h))
  \/ /\ IsReturnKey(note.key) /\ family = PLEDGE
     /\ \E j \in DOMAIN positions, t \in Nat :
          t <= positions[j].released /\ note.receipt = ReceiptContext(j, t)

KeysOrigin == \A i \in DOMAIN notes : KeyOrigin(notes[i])

\* What the circuits establish about a proof.
ProofSound(p) ==
  /\ p.from \in DOMAIN leaves
  /\ p.pub.nullifier = NullifierAt(p.from)
  /\ p.pub.pay \in Nat
  /\ p.pub.output = Output(family, ChainId, p.change)
  /\ p.change # NoNote =>
       /\ p.change.owner \in Owners
       /\ p.change.amount \in 1..Modulus-1
       /\ p.change.key = ChangeKey(family, notes[p.from].key, NullifierAt(p.from))
  /\ p.pub.kind # "issue" => p.pub.owner \in Owners
  /\ p.pub.kind = "issue" =>
       /\ family = PLEDGE
       /\ p.holder \in Owners
       /\ IsReturnKey(p.key)
       /\ p.pub.returnSerial = NoteSn(PLEDGE, p.holder, p.key)

\* What a proof takes in is what it pays out, or pledges, plus its change, and
\* all of it stays with the owner of the leaf.
ProofBalanced(p) ==
  /\ p.pub.pay # 0
  /\ p.change.amount \in Nat
  /\ notes[p.from].amount = p.pub.pay + p.change.amount
  /\ p.change # NoNote => p.change.owner = notes[p.from].owner
  /\ IF p.pub.kind = "issue" THEN p.holder = notes[p.from].owner
     ELSE p.pub.owner = notes[p.from].owner

ProofsSound == \A p \in proofs : ProofSound(p) /\ ProofBalanced(p)

IInv ==
  /\ TreeOK /\ BooksOK
  /\ UniqueLeaves
  /\ SpentIsUsed
  /\ PositionsOK
  /\ KeysOrigin
  /\ ProofsSound

-----------------------------------------------------------------------------
\* Facts about the hash terms and about sequences.

\* A leaf determines chain, owner, spend key and amount, and for a Pledge note
\* its receipt context (collision resistance of Poseidon2 over the formulas).
LEMMA LeafInjective ==
  ASSUME NEW f, NEW c, NEW n, NEW d, NEW m, Leaf(f, c, n) = Leaf(f, d, m)
  PROVE  /\ c = d
         /\ n.owner = m.owner /\ n.key = m.key /\ n.amount = m.amount
         /\ f = PLEDGE => n.receipt = m.receipt
  <1>1. CASE f = EMIT
    BY <1>1 DEF Leaf, NoteCommitment, NoteSn, HashMulti, EMIT, PLEDGE
  <1>2. CASE f # EMIT
    BY <1>2 DEF Leaf, NoteCommitment, NoteSn, HashMulti
  <1> QED  BY <1>1, <1>2

\* A nullifier determines its leaf.
LEMMA NullifierInjective ==
  ASSUME NEW f, NEW c, NEW k, NEW d, NEW l, NoteNullifier(f, c, k) = NoteNullifier(f, d, l)
  PROVE  c = d
  BY DEF NoteNullifier, HashMulti

\* A change key determines the nullifier it was rotated with, a drawn key its
\* secret; the three kinds of keys are apart, and none is zero.
LEMMA KeyKinds ==
  ASSUME NEW f, NEW k, NEW n, NEW l, NEW m, NEW s, NEW t, NEW key
  PROVE  /\ ChangeKey(f, k, n) = ChangeKey(f, l, m) => n = m
         /\ Secret(s) = Secret(t) => s = t
         /\ Secret(s) # ChangeKey(f, k, n)
         /\ Zero # Secret(s) /\ Zero # ChangeKey(f, k, n)
         /\ IsReturnKey(key) => /\ key # Secret(s) /\ key # ChangeKey(f, k, n)
                                /\ Zero # key
  BY DEF ChangeKey, Secret, IsReturnKey, HashMulti, Tag, Zero

\* The key of a return is a return key.
LEMMA ReturnKeyIs ==
  ASSUME NEW k, NEW n, NEW c
  PROVE  IsReturnKey(ReturnKey(k, n, c))
  BY DEF IsReturnKey, ReturnKey, HashMulti

\* A receipt determines its position and the total released with it.
LEMMA ReceiptInjective ==
  ASSUME NEW i, NEW a, NEW j, NEW b, ReceiptContext(i, a) = ReceiptContext(j, b)
  PROVE  i = j /\ a = b
  BY DEF ReceiptContext, HashMulti

\* No serial, leaf or nullifier is the zero element.
LEMMA HashesNonzero ==
  ASSUME NEW f, NEW c, NEW o, NEW n, NEW k
  PROVE  /\ Zero # NoteSn(f, o, k)
         /\ Zero # Leaf(f, c, n)
         /\ Zero # NoteNullifier(f, c, k)
  BY DEF NoteSn, Leaf, NoteCommitment, NoteNullifier, HashMulti, Tag, Zero

\* Append keeps what was there and adds one element at the end.
LEMMA AppendFacts ==
  ASSUME NEW s, s \in Seq(Elements(s)), NEW e
  PROVE  LET t == Append(s, e)
         IN /\ t \in Seq(Elements(t))
            /\ Len(s) \in Nat
            /\ DOMAIN s = 1..Len(s)
            /\ Len(t) = Len(s) + 1
            /\ DOMAIN t = 1..(Len(s) + 1)
            /\ \A i \in 1..Len(s) : t[i] = s[i]
            /\ t[Len(s) + 1] = e
  <1> DEFINE t == Append(s, e)
             S == Elements(s) \cup {e}
  <1>1. s \in Seq(S) /\ e \in S
    BY DEF Elements
  <1>2. /\ t \in Seq(S)
        /\ Len(s) \in Nat
        /\ DOMAIN s = 1..Len(s)
        /\ Len(t) = Len(s) + 1
        /\ \A i \in 1..Len(s) : t[i] = s[i]
        /\ t[Len(s) + 1] = e
    <2> HIDE DEF S
    <2> QED  BY <1>1
  <1>3. DOMAIN t = 1..(Len(s) + 1)
    <2> HIDE DEF S, t
    <2> QED  BY <1>2
  <1>4. t \in Seq(Elements(t))
    <2> HIDE DEF S, t
    <2>1. \A i \in 1..Len(t) : t[i] \in Elements(t)
      BY <1>2, <1>3 DEF Elements
    <2> QED  BY <1>2, <2>1
  <1> QED  BY <1>2, <1>3, <1>4

\* A function on 1..n is a sequence.
LEMMA FunctionIsSeq ==
  ASSUME NEW S, NEW n \in Nat, NEW f \in [1..n -> S]
  PROVE  f \in Seq(S) /\ Len(f) = n
  OBVIOUS

-----------------------------------------------------------------------------
\* Facts about the tree.

\* The leaves and the notes fill the same places, within the capacity.
LEMMA DomainFacts ==
  ASSUME TreeOK
  PROVE  /\ Len(leaves) \in 0..Capacity
         /\ DOMAIN leaves = 1..Len(leaves)
         /\ DOMAIN notes = 1..Len(leaves)
         /\ DOMAIN leaves \subseteq Places
  <1>1. /\ Len(leaves) \in Nat
        /\ DOMAIN leaves = 1..Len(leaves)
        /\ DOMAIN notes = 1..Len(leaves)
    BY LenProperties DEF TreeOK
  <1>2. DOMAIN leaves \subseteq Places
    BY <1>1, OwnedPoolAssumption DEF TreeOK, Places
  <1> QED  BY <1>1, <1>2, OwnedPoolAssumption DEF TreeOK

\* A note that shares its key, or a Pledge note its receipt, with no note of
\* the tree has a new leaf.
LEMMA LeafIsNew ==
  ASSUME TreeOK, NEW n,
         \A i \in DOMAIN notes :
           ~ (n.key = notes[i].key /\ (family = PLEDGE => n.receipt = notes[i].receipt))
  PROVE  Leaf(family, ChainId, n) \notin Elements(leaves)
  <1> SUFFICES ASSUME NEW i \in DOMAIN leaves, Leaf(family, ChainId, n) = leaves[i]
               PROVE  FALSE
    BY DEF Elements
  <1>1. i \in DOMAIN notes /\ leaves[i] = Leaf(family, ChainId, notes[i])
    BY DomainFacts DEF TreeOK
  <1> QED  BY <1>1, LeafInjective

\* Inserting a leaf that is new keeps the tree sound, and gives it a nullifier
\* that no other leaf has and that is not spent.
LEMMA InsertGrows ==
  ASSUME TreeOK, UniqueLeaves, SpentIsUsed, UNCHANGED family,
         NEW c, NEW n, Insert(c, n),
         c = Leaf(family, ChainId, n),
         n.owner \in Owners, n.amount \in 1..Modulus-1,
         c \notin Elements(leaves)
  PROVE  /\ TreeOK'
         /\ UniqueLeaves'
         /\ DOMAIN notes' = DOMAIN leaves'
         /\ \A i \in DOMAIN leaves : /\ leaves'[i] = leaves[i]
                                     /\ notes'[i] = notes[i]
                                     /\ NullifierAt(i)' = NullifierAt(i)
         /\ \E new \in Places \ DOMAIN leaves :
              /\ DOMAIN leaves' = DOMAIN leaves \cup {new}
              /\ notes'[new] = n
              /\ NullifierAt(new)' \notin spent
              /\ \A i \in DOMAIN leaves : NullifierAt(new)' # NullifierAt(i)
  <1>1. /\ leaves' = Append(leaves, c)
        /\ notes' = Append(notes, n)
        /\ Len(leaves) < Capacity
    BY DEF Insert
  <1>2. PICK new \in Places \ DOMAIN leaves : new = Len(leaves) + 1
    BY <1>1, DomainFacts, OwnedPoolAssumption DEF Places
  <1>3. /\ leaves' \in Seq(Elements(leaves'))
        /\ notes' \in Seq(Elements(notes'))
        /\ Len(leaves) \in Nat
        /\ DOMAIN leaves = 1..Len(leaves)
        /\ DOMAIN notes = 1..Len(leaves)
        /\ Len(leaves') = new
        /\ Len(notes') = new
        /\ DOMAIN leaves' = 1..new
        /\ DOMAIN notes' = 1..new
        /\ \A i \in 1..Len(leaves) : leaves'[i] = leaves[i] /\ notes'[i] = notes[i]
        /\ leaves'[new] = c
        /\ notes'[new] = n
    BY <1>1, <1>2, AppendFacts DEF TreeOK
  <1>4. TreeOK'
    <2>1. \A i \in DOMAIN notes' :
            /\ notes'[i].owner \in Owners
            /\ notes'[i].amount \in 1..Modulus-1
            /\ leaves'[i] = Leaf(family, ChainId, notes'[i])
      BY <1>2, <1>3 DEF TreeOK
    <2> QED  BY <1>1, <1>2, <1>3, <2>1, OwnedPoolAssumption DEF TreeOK
  <1>5. UniqueLeaves'
    <2> SUFFICES ASSUME NEW i \in 1..new, NEW j \in 1..new, leaves'[i] = leaves'[j]
                 PROVE  i = j
      BY <1>3 DEF UniqueLeaves
    <2>1. \A h \in DOMAIN leaves : leaves[h] # c
      BY DEF Elements
    <2>2. CASE i \in DOMAIN leaves /\ j \in DOMAIN leaves
      BY <1>3, <2>2 DEF UniqueLeaves
    <2>3. CASE i = new \/ j = new
      BY <1>2, <1>3, <2>1, <2>3
    <2> QED  BY <1>2, <1>3, <2>2, <2>3
  <1>6. \A i \in DOMAIN leaves : NullifierAt(i)' = NullifierAt(i)
    BY <1>3 DEF NullifierAt
  <1>7. \A i \in DOMAIN leaves : NullifierAt(new)' # NullifierAt(i)
    <2> SUFFICES ASSUME NEW i \in DOMAIN leaves, NullifierAt(new)' = NullifierAt(i)
                 PROVE  FALSE
      OBVIOUS
    <2>1. NullifierAt(new)' = NoteNullifier(family, c, n.key)
      BY <1>3 DEF NullifierAt
    <2>2. NoteNullifier(family, c, n.key) = NoteNullifier(family, leaves[i], notes[i].key)
      BY <2>1 DEF NullifierAt
    <2>3. c = leaves[i]
      BY <2>2, NullifierInjective
    <2> QED  BY <2>3 DEF Elements
  <1>8. NullifierAt(new)' \notin spent
    BY <1>7 DEF SpentIsUsed
  <1>9. DOMAIN leaves' = DOMAIN leaves \cup {new}
    BY <1>2, <1>3
  <1> QED  BY <1>3, <1>4, <1>5, <1>6, <1>7, <1>8, <1>9

\* What the circuits establish about an input: it opens a leaf of the pool with
\* the owner, key and amount that leaf was made of.
LEMMA OpeningSound ==
  ASSUME TreeOK, NEW root \in AcceptedRoots, NEW i, NEW chain, NEW note,
         Opens(root, i, Leaf(family, chain, note))
  PROVE  /\ i \in DOMAIN leaves
         /\ chain = ChainId
         /\ note.owner = notes[i].owner /\ note.key = notes[i].key
         /\ note.amount = notes[i].amount
         /\ NullifierOf(family, chain, note) = NullifierAt(i)
  <1>1. PICK n \in 0..Len(leaves) : root = SubSeq(leaves, 1, n)
    BY DEF AcceptedRoots
  <1>2. /\ Len(leaves) \in Nat
        /\ DOMAIN leaves = 1..Len(leaves)
        /\ DOMAIN notes = DOMAIN leaves
    BY DomainFacts
  <1>3. DOMAIN root = 1..n /\ \A j \in 1..n : root[j] = leaves[j]
    BY <1>1, <1>2 DEF TreeOK
  <1>4. i \in DOMAIN leaves /\ Leaf(family, chain, note) = leaves[i]
    BY <1>2, <1>3 DEF Opens
  <1>5. Leaf(family, chain, note) = Leaf(family, ChainId, notes[i])
    BY <1>2, <1>4 DEF TreeOK
  <1>6. /\ chain = ChainId
        /\ note.owner = notes[i].owner /\ note.key = notes[i].key
        /\ note.amount = notes[i].amount
    BY <1>5, LeafInjective
  <1> QED  BY <1>4, <1>6 DEF NullifierAt, NullifierOf

-----------------------------------------------------------------------------
\* What every step leaves true.

\* The tree, the sets and the released totals only grow.
Grows ==
  /\ family' = family
  /\ DOMAIN notes = DOMAIN leaves /\ DOMAIN notes' = DOMAIN leaves'
  /\ DOMAIN leaves \subseteq DOMAIN leaves'
  /\ \A i \in DOMAIN leaves : /\ notes'[i] = notes[i]
                              /\ NullifierAt(i)' = NullifierAt(i)
  /\ spent \subseteq spent' /\ drawn \subseteq drawn'
  /\ DOMAIN positions \subseteq DOMAIN positions'
  /\ \A j \in DOMAIN positions : \A t \in Nat :
       t <= positions[j].released => t <= positions'[j].released

\* A note keeps its origin.
LEMMA OriginKept ==
  ASSUME Grows, NEW note, KeyOrigin(note)
  PROVE  KeyOrigin(note)'
  <1>1. CASE \E k \in drawn : note.key = Secret(k)
    BY <1>1 DEF Grows, KeyOrigin
  <1>2. CASE \E h \in DOMAIN notes :
               /\ NullifierAt(h) \in spent
               /\ note.key = ChangeKey(family, notes[h].key, NullifierAt(h))
    <2>1. PICK h \in DOMAIN notes :
                 /\ NullifierAt(h) \in spent
                 /\ note.key = ChangeKey(family, notes[h].key, NullifierAt(h))
      BY <1>2
    <2>2. /\ h \in DOMAIN notes' /\ family' = family
          /\ NullifierAt(h)' \in spent'
          /\ note.key = ChangeKey(family, notes'[h].key, NullifierAt(h)')
      BY <2>1 DEF Grows
    <2> QED  BY <2>2 DEF KeyOrigin
  <1>3. CASE /\ IsReturnKey(note.key) /\ family = PLEDGE
             /\ \E j \in DOMAIN positions, t \in Nat :
                  t <= positions[j].released /\ note.receipt = ReceiptContext(j, t)
    BY <1>3 DEF Grows, KeyOrigin
  <1> QED  BY <1>1, <1>2, <1>3 DEF KeyOrigin

\* The notes that were there keep their origins.
LEMMA OriginsKept ==
  ASSUME Grows, KeysOrigin
  PROVE  \A i \in DOMAIN notes : KeyOrigin(notes[i])'
  <1> SUFFICES ASSUME NEW i \in DOMAIN notes PROVE KeyOrigin(notes[i])'
    OBVIOUS
  <1>1. PICK n : n = notes[i]
    OBVIOUS
  <1>2. notes'[i] = n
    BY <1>1 DEF Grows
  <1>3. KeyOrigin(n)
    BY <1>1 DEF KeysOrigin
  <1>4. KeyOrigin(n)'
    BY <1>3, OriginKept
  <1> QED  BY <1>2, <1>4

\* A sound proof stays sound.
LEMMA ProofKept ==
  ASSUME Grows, NEW p, ProofSound(p) /\ ProofBalanced(p)
  PROVE  ProofSound(p)' /\ ProofBalanced(p)'
  <1>1. ProofSound(p)'
    BY DEF Grows, ProofSound
  <1>2. ProofBalanced(p)'
    BY DEF Grows, ProofSound, ProofBalanced
  <1> QED  BY <1>1, <1>2

\* A step that leaves the tree, the nullifier set and the positions alone
\* leaves everything said about them.
LEMMA TreeUnchanged ==
  ASSUME IInv, UNCHANGED <<family, leaves, notes, spent, positions, drawn, used>>
  PROVE  /\ TreeOK' /\ UniqueLeaves' /\ SpentIsUsed' /\ PositionsOK' /\ KeysOrigin'
         /\ Grows
  <1>1. \A i : NullifierAt(i)' = NullifierAt(i)
    BY DEF NullifierAt
  <1>2. Grows
    BY <1>1, DomainFacts DEF Grows, IInv
  <1>3. KeysOrigin'
    BY <1>2, OriginsKept DEF IInv, KeysOrigin
  <1>4. PositionsOK'
    BY DEF IInv, PositionsOK
  <1> QED
    BY <1>1, <1>2, <1>3, <1>4 DEF IInv, TreeOK, UniqueLeaves, SpentIsUsed

\* Inserting a new note of a known origin, with the books of what was spent
\* already kept, preserves what is said about the tree.
LEMMA InsertKeeps ==
  ASSUME IInv, UNCHANGED family, NEW c, NEW n, Insert(c, n),
         c = Leaf(family, ChainId, n),
         n.owner \in Owners, n.amount \in 1..Modulus-1,
         c \notin Elements(leaves),
         spent \subseteq spent', drawn \subseteq drawn',
         DOMAIN positions \subseteq DOMAIN positions',
         \A j \in DOMAIN positions : \A t \in Nat :
           t <= positions[j].released => t <= positions'[j].released,
         \A i \in DOMAIN leaves : used'[i] = IF NullifierAt(i) \in spent' THEN 1 ELSE 0,
         \A i \in Places : i \notin DOMAIN leaves => used'[i] = 0,
         \A m \in spent' : \E i \in DOMAIN leaves : m = NullifierAt(i),
         Grows => KeyOrigin(n)'
  PROVE  TreeOK' /\ UniqueLeaves' /\ SpentIsUsed' /\ KeysOrigin' /\ Grows
  <1>1. PICK new \in Places \ DOMAIN leaves :
           /\ TreeOK' /\ UniqueLeaves' /\ DOMAIN notes' = DOMAIN leaves'
           /\ \A i \in DOMAIN leaves : /\ leaves'[i] = leaves[i]
                                       /\ notes'[i] = notes[i]
                                       /\ NullifierAt(i)' = NullifierAt(i)
           /\ DOMAIN leaves' = DOMAIN leaves \cup {new}
           /\ notes'[new] = n
           /\ NullifierAt(new)' \notin spent
           /\ \A i \in DOMAIN leaves : NullifierAt(new)' # NullifierAt(i)
    <2>1. TreeOK /\ UniqueLeaves /\ SpentIsUsed
      BY DEF IInv
    <2> QED  BY <2>1, InsertGrows
  <1>2. Grows
    BY <1>1, DomainFacts DEF Grows, IInv
  <1>3. NullifierAt(new)' \notin spent'
    BY <1>1
  <1>4. SpentIsUsed'
    <2>1. \A i \in DOMAIN leaves' : used'[i] = IF NullifierAt(i)' \in spent' THEN 1 ELSE 0
      BY <1>1, <1>3
    <2>2. \A i \in Places : i \notin DOMAIN leaves' => used'[i] = 0
      BY <1>1
    <2>3. \A m \in spent' : \E i \in DOMAIN leaves' : m = NullifierAt(i)'
      BY <1>1
    <2> QED  BY <2>1, <2>2, <2>3 DEF SpentIsUsed
  <1>5. KeysOrigin'
    <2>1. \A i \in DOMAIN notes : KeyOrigin(notes[i])'
      BY <1>2, OriginsKept DEF IInv
    <2>2. KeyOrigin(notes[new])'
      BY <1>1, <1>2
    <2> QED  BY <1>1, <1>2, <2>1, <2>2 DEF KeysOrigin, Grows
  <1> QED  BY <1>1, <1>2, <1>4, <1>5

-----------------------------------------------------------------------------
\* The initial states, and one lemma per action.

\* The empty pool satisfies the invariant.
LEMMA InitIInv == Init => IInv
  <1> SUFFICES ASSUME Init PROVE IInv
    OBVIOUS
  <1>1. /\ DOMAIN leaves = {} /\ DOMAIN notes = {} /\ DOMAIN positions = {}
        /\ Len(leaves) = 0 /\ Len(notes) = 0
        /\ leaves \in Seq(Elements(leaves)) /\ notes \in Seq(Elements(notes))
        /\ positions \in Seq(Elements(positions))
    BY DEF Init
  <1>2. TreeOK
    BY <1>1, OwnedPoolAssumption DEF Init, TreeOK
  <1>3. BooksOK
    BY DEF Init, BooksOK
  <1>4. UniqueLeaves /\ PositionsOK /\ KeysOrigin
    BY <1>1 DEF UniqueLeaves, PositionsOK, KeysOrigin
  <1>5. SpentIsUsed
    BY <1>1 DEF SpentIsUsed, Init
  <1>6. ProofsSound
    BY DEF ProofsSound, Init
  <1> QED  BY <1>2, <1>3, <1>4, <1>5, <1>6 DEF IInv

\* A fund key is drawn once, so its leaf is new.
LEMMA FundStep ==
  ASSUME IInv, NEW o \in Owners, NEW k \in FundKeys, NEW v \in 1..Modulus-1, Fund(o, k, v)
  PROVE  IInv'
  <1> DEFINE n == Note(o, Secret(k), v, Zero)
             c == Leaf(family, ChainId, n)
  <1>1. /\ Insert(c, n) /\ k \notin drawn
        /\ funded' = [funded EXCEPT ![o] = @ + v]
        /\ drawn' = drawn \cup {k}
        /\ UNCHANGED <<family, spent, positions, paid, proofs, used>>
    BY DEF Fund
  <1>2. /\ n.key = Secret(k) /\ n.owner \in Owners /\ n.amount \in 1..Modulus-1
    BY DEF Note
  <1> HIDE DEF n
  <1>3. c \notin Elements(leaves)
    <2> SUFFICES ASSUME NEW i \in DOMAIN notes, notes[i].key = Secret(k) PROVE FALSE
      BY <1>2, LeafIsNew DEF IInv
    <2>1. KeyOrigin(notes[i])
      BY DEF IInv, KeysOrigin
    <2>2. k \in drawn
      BY <2>1, KeyKinds DEF KeyOrigin
    <2> QED  BY <1>1, <2>2
  <1>4. KeyOrigin(n)'
    BY <1>1, <1>2 DEF KeyOrigin
  <1>5. TreeOK' /\ UniqueLeaves' /\ SpentIsUsed' /\ KeysOrigin' /\ Grows
    <2> HIDE DEF c
    <2>1. c = Leaf(family, ChainId, n)
      BY DEF c
    <2> QED  BY <1>1, <1>2, <1>3, <1>4, <2>1, InsertKeeps DEF IInv, SpentIsUsed
  <1>6. PositionsOK'
    BY <1>1 DEF IInv, PositionsOK
  <1>7. BooksOK'
    <2>1. funded' \in [Owners -> Nat]
      BY <1>1, ModulusAssumption DEF IInv, BooksOK
    <2> QED  BY <1>1, <2>1 DEF IInv, BooksOK
  <1>8. ProofsSound'
    BY <1>1, <1>5, ProofKept DEF IInv, ProofsSound
  <1> QED  BY <1>5, <1>6, <1>7, <1>8 DEF IInv

\* Dropping a proof changes nothing else.
LEMMA DropStep ==
  ASSUME IInv, NEW p \in proofs, Drop(p)
  PROVE  IInv'
  <1>1. /\ proofs' \subseteq proofs
        /\ UNCHANGED <<family, leaves, notes, funded, drawn, spent, positions, paid, used>>
    BY DEF Drop, ledger
  <1>2. TreeOK' /\ UniqueLeaves' /\ SpentIsUsed' /\ PositionsOK' /\ KeysOrigin' /\ Grows
    BY <1>1, TreeUnchanged
  <1>3. BooksOK'
    BY <1>1 DEF IInv, BooksOK
  <1>4. ProofsSound'
    BY <1>1, <1>2, ProofKept DEF IInv, ProofsSound
  <1> QED  BY <1>2, <1>3, <1>4 DEF IInv

\* A step that changes nothing.
LEMMA StutterStep ==
  ASSUME IInv, UNCHANGED vars
  PROVE  IInv'
  <1>1. UNCHANGED <<family, leaves, notes, funded, drawn, spent, positions, paid, proofs, used>>
    BY DEF vars, ledger
  <1>2. TreeOK' /\ UniqueLeaves' /\ SpentIsUsed' /\ PositionsOK' /\ KeysOrigin' /\ Grows
    BY <1>1, TreeUnchanged
  <1>3. BooksOK'
    BY <1>1 DEF IInv, BooksOK
  <1>4. ProofsSound'
    BY <1>1, <1>2, ProofKept DEF IInv, ProofsSound
  <1> QED  BY <1>2, <1>3, <1>4 DEF IInv

\* What is left of a canonical amount is a canonical amount, or nothing.
LEMMA RemainingRange ==
  ASSUME NEW v \in 1..Modulus-1, NEW pay \in 0..Modulus, Remaining(v, pay) # 0
  PROVE  Remaining(v, pay) \in 1..Modulus-1
  <1>1. Modulus \in Nat /\ Modulus > 1
    BY ModulusAssumption
  <1>2. Remaining(v, pay) \in 0..Modulus-1
    BY <1>1 DEF Remaining
  <1> HIDE DEF Remaining
  <1> QED  BY <1>1, <1>2

\* The circuits admit no amount of zero, as an integer or as its other encoding.
LEMMA AmountsPositive ==
  ASSUME NEW f, NEW pay \in 0..Modulus, AmountOK(f, pay)
  PROVE  pay \in 1..Modulus
  <1>1. Modulus \in Nat /\ 0 % Modulus = 0
    BY ModulusAssumption
  <1>2. pay # 0
    BY <1>1 DEF AmountOK, InRange, Canonical
  <1> QED  BY <1>1, <1>2

\* The subtraction of a payment that is covered does not borrow.
LEMMA RemainingExact ==
  ASSUME NEW v \in 1..Modulus-1, NEW pay \in 1..Modulus, pay <= v
  PROVE  Remaining(v, pay) = v - pay /\ v - pay \in Nat
  <1>1. Modulus \in Nat /\ Modulus > 1
    BY ModulusAssumption
  <1>2. v - pay \in 0..Modulus-1
    BY <1>1
  <1>3. \A x \in 0..Modulus-1 : x % Modulus = x
    BY <1>1
  <1> QED  BY <1>2, <1>3 DEF Remaining

\* The circuits make every proof sound: it opens a leaf of the pool, and its
\* outputs are derived from the note behind that leaf.
LEMMA ProveStep ==
  ASSUME IInv, Prove
  PROVE  IInv'
  <1>1. PICK kind \in Kinds(family), chain \in ChainIds, root \in AcceptedRoots :
        \E i \in DOMAIN root, note \in Claims :
          /\ Opens(root, i, Leaf(family, chain, note))
          /\ \E pay \in 0..Modulus, context \in IF family = EMIT THEN {Zero} ELSE Contexts :
               LET pub == Statement(family, kind, chain, root, context, pay, note)
               IN /\ Circuit(pub, note, i)
                  /\ proofs' = proofs \cup
                       {[pub    |-> pub,
                         from   |-> i,
                         change |-> Change(family, chain, note, pay),
                         holder |-> note.owner,
                         key    |-> ReturnKey(note.key, pub.nullifier, context)]}
    BY DEF Prove
  <1>2. PICK i \in DOMAIN root, note \in Claims, pay \in 0..Modulus,
             context \in IF family = EMIT THEN {Zero} ELSE Contexts :
          LET pub == Statement(family, kind, chain, root, context, pay, note)
          IN /\ Opens(root, i, Leaf(family, chain, note))
             /\ Circuit(pub, note, i)
             /\ proofs' = proofs \cup
                  {[pub    |-> pub,
                    from   |-> i,
                    change |-> Change(family, chain, note, pay),
                    holder |-> note.owner,
                    key    |-> ReturnKey(note.key, pub.nullifier, context)]}
    BY <1>1
  <1> DEFINE pub    == Statement(family, kind, chain, root, context, pay, note)
             change == Change(family, chain, note, pay)
             key    == ReturnKey(note.key, pub.nullifier, context)
             p      == [pub |-> pub, from |-> i, change |-> change,
                        holder |-> note.owner, key |-> key]
  <1>3. UNCHANGED <<family, leaves, notes, funded, drawn, spent, positions, paid, used>>
    BY DEF Prove, ledger
  <1>4. TreeOK' /\ UniqueLeaves' /\ SpentIsUsed' /\ PositionsOK' /\ KeysOrigin' /\ Grows
    BY <1>3, TreeUnchanged
  <1>5. BooksOK'
    BY <1>3 DEF IInv, BooksOK
  <1>6. /\ i \in DOMAIN leaves /\ chain = ChainId
        /\ note.owner = notes[i].owner /\ note.key = notes[i].key
        /\ note.amount = notes[i].amount
        /\ NullifierOf(family, chain, note) = NullifierAt(i)
    BY <1>2, OpeningSound DEF IInv
  <1>7. note.owner \in Owners /\ note.amount \in 1..Modulus-1
    BY <1>6, DomainFacts DEF IInv, TreeOK
  <1>8. /\ pub.kind = kind /\ pub.pay = pay /\ pub.nullifier = NullifierAt(i)
        /\ pub.owner = (IF kind = "issue" THEN ZeroAddress ELSE note.owner)
        /\ pub.output = Output(family, ChainId, change)
        /\ pub.returnSerial = (IF kind = "issue" THEN NoteSn(PLEDGE, note.owner, key) ELSE Zero)
    BY <1>6 DEF Statement
  <1>9. change # NoNote =>
          /\ change.owner \in Owners
          /\ change.amount \in 1..Modulus-1
          /\ change.key = ChangeKey(family, notes[i].key, NullifierAt(i))
    <2> SUFFICES ASSUME Remaining(note.amount, pay) # 0
                 PROVE  /\ change.owner \in Owners
                        /\ change.amount \in 1..Modulus-1
                        /\ change.key = ChangeKey(family, notes[i].key, NullifierAt(i))
      BY DEF Change
    <2>1. Remaining(note.amount, pay) \in 1..Modulus-1
      BY <1>7, RemainingRange
    <2>2. change = [owner |-> note.owner,
                    key |-> ChangeKey(family, notes[i].key, NullifierAt(i)),
                    amount |-> Remaining(note.amount, pay), receipt |-> Zero]
      BY <1>6 DEF Change, Note
    <2> QED  BY <1>7, <2>1, <2>2
  <1>10. kind = "issue" => family = PLEDGE
    BY DEF Kinds, IInv, TreeOK, Families
  <1>11. proofs' = proofs \cup {p}
    BY <1>2
  <1>12. pay \in Nat
    BY ModulusAssumption
  <1>13. IsReturnKey(key)
    BY ReturnKeyIs
  <1> HIDE DEF pub, change, key
  <1>14. ProofSound(p)
    <2>1. /\ p.pub = pub /\ p.from = i /\ p.change = change
          /\ p.holder = note.owner /\ p.key = key
      OBVIOUS
    <2> HIDE DEF p
    <2> QED  BY <1>6, <1>7, <1>8, <1>9, <1>10, <1>12, <1>13, <2>1 DEF ProofSound
  <1>15. ProofBalanced(p)
    <2>1. /\ p.pub = pub /\ p.from = i /\ p.change = change /\ p.holder = note.owner
      OBVIOUS
    <2>2. pay \in 1..Modulus /\ pay <= note.amount
      <3>1. AmountOK(family, pay) /\ pay <= note.amount
        <4>1. Circuit(pub, note, i)
          BY <1>2 DEF pub
        <4>2. SpendAsserts(family, pub, note, i)
          <5>1. CASE family = EMIT
            BY <1>8, <4>1, <5>1 DEF Circuit, MintCircuit, Kinds
          <5>2. CASE family # EMIT
            BY <1>8, <4>1, <5>2 DEF Circuit, IssueCircuit, UnpledgeCircuit, PledgeSpend,
                                    Kinds, IInv, TreeOK, Families
          <5> QED  BY <5>1, <5>2
        <4> QED  BY <1>8, <4>2 DEF SpendAsserts
      <3> QED  BY <3>1, AmountsPositive
    <2>3. Remaining(note.amount, pay) = note.amount - pay /\ note.amount - pay \in Nat
      BY <1>7, <2>2, RemainingExact
    <2>4. change.amount = note.amount - pay
      BY <2>3 DEF change, Change, Note, NoNote
    <2>5. change # NoNote => change.owner = note.owner
      BY DEF change, Change, Note
    <2>6. notes[i].amount = pay + change.amount /\ pay # 0
      BY <1>6, <1>7, <2>2, <2>4, ModulusAssumption
    <2> HIDE DEF p
    <2> QED  BY <1>6, <1>8, <2>1, <2>3, <2>4, <2>5, <2>6 DEF ProofBalanced
  <1> HIDE DEF p
  <1>16. ProofsSound'
    BY <1>4, <1>11, <1>14, <1>15, ProofKept DEF IInv, ProofsSound
  <1> QED  BY <1>4, <1>5, <1>16 DEF IInv

\* Consuming a proof marks exactly its leaf, and the change it may insert is new:
\* it was rotated with a nullifier that was not spent before.
LEMMA ConsumeKeeps ==
  ASSUME IInv, NEW p \in proofs, Consume(p), UNCHANGED <<family, drawn>>,
         DOMAIN positions \subseteq DOMAIN positions',
         \A j \in DOMAIN positions : \A t \in Nat :
           t <= positions[j].released => t <= positions'[j].released
  PROVE  /\ TreeOK' /\ UniqueLeaves' /\ SpentIsUsed' /\ KeysOrigin' /\ Grows
         /\ used' \in [Places -> Nat]
  <1> DEFINE h == p.from
  <1>1. /\ TreeOK /\ UniqueLeaves /\ SpentIsUsed /\ KeysOrigin /\ ProofSound(p)
        /\ used \in [Places -> Nat] /\ DOMAIN leaves \subseteq Places
        /\ DOMAIN notes = DOMAIN leaves
    BY DomainFacts DEF IInv, ProofsSound, BooksOK
  <1>2. /\ p.pub.nullifier \notin spent
        /\ spent' = spent \cup {p.pub.nullifier}
        /\ used' = [used EXCEPT ![h] = @ + 1]
        /\ IF p.pub.output = Zero THEN UNCHANGED <<leaves, notes>>
           ELSE Insert(p.pub.output, p.change)
    BY DEF Consume, Settleable
  <1>3. h \in DOMAIN leaves /\ p.pub.nullifier = NullifierAt(h)
    BY <1>1 DEF ProofSound
  <1>4. \A i \in DOMAIN leaves : NullifierAt(i) \in spent' <=> NullifierAt(i) \in spent \/ i = h
    <2> SUFFICES ASSUME NEW i \in DOMAIN leaves, NullifierAt(i) = NullifierAt(h)
                 PROVE  i = h
      BY <1>2, <1>3
    <2>1. leaves[i] = leaves[h]
      BY NullifierInjective DEF NullifierAt
    <2> QED  BY <1>1, <1>3, <2>1 DEF UniqueLeaves
  <1>5. \A i \in DOMAIN leaves : used'[i] = IF NullifierAt(i) \in spent' THEN 1 ELSE 0
    <2>1. used[h] = 0
      BY <1>1, <1>2, <1>3 DEF SpentIsUsed
    <2>2. used'[h] = 1
      BY <1>1, <1>2, <1>3, <2>1
    <2>3. \A i \in DOMAIN leaves : i # h => used'[i] = used[i]
      BY <1>1, <1>2
    <2> QED  BY <1>1, <1>3, <1>4, <2>2, <2>3 DEF SpentIsUsed
  <1>6. \A i \in Places : i \notin DOMAIN leaves => used'[i] = 0
    BY <1>1, <1>2, <1>3 DEF SpentIsUsed
  <1>7. \A m \in spent' : \E i \in DOMAIN leaves : m = NullifierAt(i)
    BY <1>1, <1>2, <1>3 DEF SpentIsUsed
  <1>8. used' \in [Places -> Nat]
    BY <1>1, <1>2, <1>3
  <1>9. CASE p.change = NoNote
    <2>1. UNCHANGED <<leaves, notes>>
      BY <1>1, <1>2, <1>9 DEF ProofSound, Output
    <2>2. \A i : NullifierAt(i)' = NullifierAt(i)
      BY <2>1 DEF NullifierAt
    <2>3. Grows
      BY <1>1, <1>2, <2>1, <2>2 DEF Grows
    <2>4. KeysOrigin'
      BY <1>1, <2>1, <2>3, OriginsKept DEF KeysOrigin
    <2>5. SpentIsUsed'
      BY <1>5, <1>6, <1>7, <2>1, <2>2 DEF SpentIsUsed
    <2> QED  BY <1>1, <1>8, <2>1, <2>3, <2>4, <2>5 DEF TreeOK, UniqueLeaves
  <1>10. CASE p.change # NoNote
    <2> DEFINE n == p.change
               c == p.pub.output
    <2>1. /\ c = Leaf(family, ChainId, n)
          /\ n.owner \in Owners /\ n.amount \in 1..Modulus-1
          /\ n.key = ChangeKey(family, notes[h].key, NullifierAt(h))
      BY <1>1, <1>10 DEF ProofSound, Output
    <2>2. Insert(c, n)
      BY <1>2, <2>1, HashesNonzero
    <2> HIDE DEF n, c
    <2>3. c \notin Elements(leaves)
      <3> SUFFICES ASSUME NEW i \in DOMAIN notes, n.key = notes[i].key PROVE FALSE
        BY <1>1, <2>1, LeafIsNew
      <3>1. KeyOrigin(notes[i])
        BY <1>1 DEF KeysOrigin
      <3>2. PICK g \in DOMAIN notes :
              /\ NullifierAt(g) \in spent
              /\ notes[i].key = ChangeKey(family, notes[g].key, NullifierAt(g))
        BY <2>1, <3>1, KeyKinds DEF KeyOrigin
      <3>3. NullifierAt(g) = NullifierAt(h)
        <4>1. ChangeKey(family, notes[g].key, NullifierAt(g))
                = ChangeKey(family, notes[h].key, NullifierAt(h))
          BY <2>1, <3>2
        <4> QED  BY <4>1 DEF ChangeKey, HashMulti
      <3> QED  BY <1>2, <1>3, <3>2, <3>3
    <2>4. Grows => KeyOrigin(n)'
      <3> SUFFICES ASSUME Grows PROVE KeyOrigin(n)'
        OBVIOUS
      <3>1. /\ h \in DOMAIN notes' /\ family' = family
            /\ NullifierAt(h)' \in spent'
            /\ n.key = ChangeKey(family, notes'[h].key, NullifierAt(h)')
        BY <1>1, <1>2, <1>3, <2>1 DEF Grows
      <3> QED  BY <3>1 DEF KeyOrigin
    <2>5. spent \subseteq spent' /\ drawn \subseteq drawn'
      BY <1>2
    <2> HIDE DEF h
    <2>6. TreeOK' /\ UniqueLeaves' /\ SpentIsUsed' /\ KeysOrigin' /\ Grows
      BY <1>5, <1>6, <1>7, <2>1, <2>2, <2>3, <2>4, <2>5, InsertKeeps
    <2> QED  BY <1>8, <2>6
  <1> QED  BY <1>9, <1>10

\* A mint or an unpledge consumes its leaf and pays the owner.
LEMMA RedeemStep ==
  ASSUME IInv, NEW p \in proofs, Redeem(p)
  PROVE  IInv'
  <1>1. /\ p.pub.kind # "issue" /\ Consume(p)
        /\ paid' = [paid EXCEPT ![p.pub.owner] = @ + p.pub.pay]
        /\ UNCHANGED <<family, positions, funded, drawn, proofs>>
    BY DEF Redeem
  <1>2. /\ TreeOK' /\ UniqueLeaves' /\ SpentIsUsed' /\ KeysOrigin' /\ Grows
        /\ used' \in [Places -> Nat]
    BY <1>1, ConsumeKeeps
  <1>3. PositionsOK'
    BY <1>1 DEF IInv, PositionsOK
  <1>4. BooksOK'
    <2>1. p.pub.owner \in Owners /\ p.pub.pay \in Nat
      BY <1>1 DEF IInv, ProofsSound, ProofSound
    <2>2. paid' \in [Owners -> Nat]
      BY <1>1, <2>1 DEF IInv, BooksOK
    <2> QED  BY <1>1, <1>2, <2>2 DEF IInv, BooksOK
  <1>5. ProofsSound'
    BY <1>1, <1>2, ProofKept DEF IInv, ProofsSound
  <1> QED  BY <1>2, <1>3, <1>4, <1>5 DEF IInv

\* An issue consumes its leaf and opens a position under its return serial.
LEMMA IssueStep ==
  ASSUME IInv, NEW p \in proofs, Issue(p)
  PROVE  IInv'
  <1> DEFINE pos == [serial |-> p.pub.returnSerial, pledged |-> p.pub.pay, released |-> 0,
                     holder |-> p.holder, key |-> p.key]
  <1>1. /\ p.pub.kind = "issue" /\ Consume(p)
        /\ positions' = Append(positions, pos)
        /\ UNCHANGED <<family, funded, drawn, paid, proofs>>
    BY DEF Issue
  <1>2. PositionsOK /\ ProofSound(p)
    BY DEF IInv, ProofsSound
  <1>3. /\ positions' \in Seq(Elements(positions'))
        /\ Len(positions) \in Nat
        /\ DOMAIN positions = 1..Len(positions)
        /\ DOMAIN positions' = 1..(Len(positions) + 1)
        /\ \A j \in 1..Len(positions) : positions'[j] = positions[j]
        /\ positions'[Len(positions) + 1] = pos
    <2> HIDE DEF pos
    <2> QED  BY <1>1, <1>2, AppendFacts DEF PositionsOK
  <1>4. family = PLEDGE /\ PositionOK(pos)
    BY <1>1, <1>2 DEF ProofSound, PositionOK
  <1> HIDE DEF pos
  <1>5. PositionsOK'
    <2>1. \A j \in DOMAIN positions' : family' = PLEDGE /\ PositionOK(positions'[j])
      BY <1>1, <1>2, <1>3, <1>4 DEF PositionsOK
    <2> QED  BY <1>3, <2>1 DEF PositionsOK, PositionOK, IsReturnKey
  <1>6. /\ TreeOK' /\ UniqueLeaves' /\ SpentIsUsed' /\ KeysOrigin' /\ Grows
        /\ used' \in [Places -> Nat]
    BY <1>1, <1>3, ConsumeKeeps
  <1>7. BooksOK'
    BY <1>1, <1>6 DEF IInv, BooksOK
  <1>8. ProofsSound'
    BY <1>1, <1>6, ProofKept DEF IInv, ProofsSound
  <1> QED  BY <1>5, <1>6, <1>7, <1>8 DEF IInv

\* A release inserts a note to the position's serial; its receipt carries a
\* total that no earlier release of the position reached.
LEMMA ReleaseStep ==
  ASSUME IInv, NEW i \in DOMAIN positions, NEW v \in 1..Modulus-1, Release(i, v)
  PROVE  IInv'
  <1>0. PICK pos : pos = positions[i]
    OBVIOUS
  <1> DEFINE total   == pos.released + v
             receipt == ReceiptContext(i, total)
             n       == Note(pos.holder, pos.key, v, receipt)
             c       == NoteCommitment(PLEDGE, ChainId, pos.serial, v, receipt)
  <1>1. /\ total <= pos.pledged
        /\ Insert(c, n)
        /\ positions' = [positions EXCEPT ![i].released = total]
        /\ UNCHANGED <<family, spent, funded, drawn, paid, proofs, used>>
    BY <1>0 DEF Release
  <1>2. /\ PositionsOK /\ family = PLEDGE /\ PositionOK(pos)
        /\ pos.holder \in Owners /\ pos.pledged \in Nat /\ pos.released \in 0..pos.pledged
        /\ IsReturnKey(pos.key)
    BY <1>0 DEF IInv, PositionsOK, PositionOK
  <1>3. pos = [serial   |-> NoteSn(PLEDGE, pos.holder, pos.key),
               pledged  |-> pos.pledged,
               released |-> pos.released,
               holder   |-> pos.holder,
               key      |-> pos.key]
    BY <1>2 DEF PositionOK
  <1>4. total \in Nat /\ pos.released \in Nat /\ pos.released < total
    BY <1>2, ModulusAssumption
  <1>5. /\ n.owner = pos.holder /\ n.key = pos.key /\ n.amount = v /\ n.receipt = receipt
        /\ c = Leaf(family, ChainId, n)
    <2>1. n.owner = pos.holder /\ n.key = pos.key /\ n.amount = v /\ n.receipt = receipt
      BY DEF Note
    <2>2. pos.serial = NoteSn(PLEDGE, pos.holder, pos.key)
      BY <1>3
    <2> HIDE DEF n, receipt
    <2> QED  BY <1>2, <2>1, <2>2 DEF Leaf
  <1>6. positions \in Seq(Elements(positions)) /\ Len(positions) \in Nat
        /\ DOMAIN positions = 1..Len(positions)
    BY <1>2 DEF PositionsOK
  <1>7. /\ DOMAIN positions' = 1..Len(positions)
        /\ positions'[i] = [pos EXCEPT !.released = total]
        /\ \A j \in DOMAIN positions : j # i => positions'[j] = positions[j]
    BY <1>0, <1>1, <1>6
  <1>8. /\ positions'[i].released = total /\ positions'[i].pledged = pos.pledged
        /\ positions'[i].holder = pos.holder /\ positions'[i].key = pos.key
        /\ PositionOK(positions'[i])
    <2> HIDE DEF total
    <2> DEFINE q == [pos EXCEPT !.released = total]
    <2>1. q = [serial   |-> NoteSn(PLEDGE, pos.holder, pos.key),
               pledged  |-> pos.pledged,
               released |-> total,
               holder   |-> pos.holder,
               key      |-> pos.key]
      BY <1>3
    <2>2. PositionOK(q)
      <3>1. q.holder = pos.holder /\ q.key = pos.key /\ q.pledged = pos.pledged /\ q.released = total
        BY <2>1
      <3>2. total \in 0..pos.pledged
        BY <1>1, <1>4, <1>2
      <3> HIDE DEF q
      <3> QED  BY <1>2, <2>1, <3>1, <3>2 DEF PositionOK
    <2> QED  BY <1>7, <2>1, <2>2
  <1> HIDE DEF total
  <1>9. \A j \in DOMAIN positions : \A t \in Nat :
          t <= positions[j].released => t <= positions'[j].released
    <2> SUFFICES ASSUME NEW j \in DOMAIN positions, NEW t \in Nat, t <= positions[j].released
                 PROVE  t <= positions'[j].released
      OBVIOUS
    <2>1. CASE j = i
      BY <1>0, <1>4, <1>8, <2>1
    <2>2. CASE j # i
      BY <1>7, <2>2
    <2> QED  BY <2>1, <2>2
  <1>10. PositionsOK'
    <2>1. \A j \in 1..Len(positions) : PositionOK(positions'[j])
      BY <1>2, <1>6, <1>7, <1>8 DEF PositionsOK
    <2>2. positions' \in [1..Len(positions) -> Elements(positions')]
      BY <1>1, <1>6, <1>7 DEF Elements
    <2>3. positions' \in Seq(Elements(positions'))
      BY <1>6, <2>2, FunctionIsSeq
    <2>4. family' = PLEDGE
      BY <1>1, <1>2
    <2> QED  BY <1>7, <2>1, <2>3, <2>4 DEF PositionsOK, PositionOK, IsReturnKey
  <1>11. c \notin Elements(leaves)
    <2> HIDE DEF n, c, receipt
    <2> SUFFICES ASSUME NEW l \in DOMAIN notes,
                        n.key = notes[l].key, n.receipt = notes[l].receipt
                 PROVE  FALSE
      BY <1>2, <1>5, LeafIsNew DEF IInv
    <2>1. KeyOrigin(notes[l]) /\ IsReturnKey(notes[l].key)
      BY <1>2, <1>5 DEF IInv, KeysOrigin
    <2>2. PICK j \in DOMAIN positions, t \in Nat :
            t <= positions[j].released /\ notes[l].receipt = ReceiptContext(j, t)
      BY <2>1, KeyKinds DEF KeyOrigin
    <2>3. ReceiptContext(j, t) = ReceiptContext(i, total)
      BY <1>5, <2>2 DEF receipt
    <2>4. j = i /\ t = total
      BY <2>3, ReceiptInjective
    <2> QED  BY <1>0, <1>4, <2>2, <2>4
  <1>12. KeyOrigin(n)'
    <2>1. /\ IsReturnKey(n.key) /\ family' = PLEDGE
          /\ i \in DOMAIN positions' /\ total \in Nat
          /\ total <= positions'[i].released /\ n.receipt = ReceiptContext(i, total)
      BY <1>1, <1>2, <1>4, <1>5, <1>6, <1>7, <1>8
    <2> HIDE DEF n
    <2> QED  BY <2>1 DEF KeyOrigin, IsReturnKey
  <1> HIDE DEF n, c, receipt
  <1>13. TreeOK' /\ UniqueLeaves' /\ SpentIsUsed' /\ KeysOrigin' /\ Grows
    <2>1. n.owner \in Owners /\ n.amount \in 1..Modulus-1
      BY <1>2, <1>5
    <2>2. DOMAIN positions \subseteq DOMAIN positions'
      BY <1>6, <1>7
    <2> QED  BY <1>1, <1>5, <1>9, <1>11, <1>12, <2>1, <2>2, InsertKeeps DEF IInv, SpentIsUsed
  <1>14. BooksOK'
    BY <1>1 DEF IInv, BooksOK
  <1>15. ProofsSound'
    BY <1>1, <1>13, ProofKept DEF IInv, ProofsSound
  <1> QED  BY <1>10, <1>13, <1>14, <1>15 DEF IInv

\* Every step preserves the invariant.
LEMMA NextIInv == IInv /\ [Next]_vars => IInv'
  <1> SUFFICES ASSUME IInv, [Next]_vars PROVE IInv'
    OBVIOUS
  <1>1. ASSUME NEW o \in Owners, NEW k \in FundKeys, NEW v \in 1..Modulus-1, Fund(o, k, v)
        PROVE  IInv'
    BY <1>1, FundStep
  <1>2. CASE Prove
    BY <1>2, ProveStep
  <1>3. ASSUME NEW p \in proofs, Drop(p) PROVE IInv'
    BY <1>3, DropStep
  <1>4. ASSUME NEW p \in proofs, Redeem(p) PROVE IInv'
    BY <1>4, RedeemStep
  <1>5. ASSUME NEW p \in proofs, Issue(p) PROVE IInv'
    BY <1>5, IssueStep
  <1>6. ASSUME NEW i \in DOMAIN positions, NEW v \in 1..Modulus-1, Release(i, v)
        PROVE  IInv'
    BY <1>6, ReleaseStep
  <1>7. CASE UNCHANGED vars
    BY <1>7, StutterStep
  <1> QED  BY <1>1, <1>2, <1>3, <1>4, <1>5, <1>6, <1>7 DEF Next

-----------------------------------------------------------------------------
\* The theorems.

\* Every reachable state of the pool satisfies the inductive invariant.
THEOREM Inductive == Spec => []IInv
  <1> QED  BY InitIInv, NextIInv, PTL DEF Spec

\* Types, and the shape of the tree: every leaf commits to a note with a
\* positive canonical amount, and no position releases more than was pledged.
THEOREM TypeCorrect == Spec => []TypeOK
  <1>1. IInv => TypeOK
    BY DEF IInv, TreeOK, BooksOK, PositionsOK, PositionOK, TypeOK
  <1> QED  BY <1>1, Inductive, PTL

\* No replayed proof, and no issue and unpledge of one note prepared against
\* different roots, consume a leaf twice.
THEOREM NoDoubleSpendHolds == Spec => []NoDoubleSpend
  <1>1. IInv => NoDoubleSpend
    <2> SUFFICES ASSUME IInv, NEW i \in Places PROVE used[i] <= 1
      BY DEF NoDoubleSpend
    <2>1. CASE i \in DOMAIN leaves
      BY <2>1 DEF IInv, SpentIsUsed
    <2>2. CASE i \notin DOMAIN leaves
      BY <2>2 DEF IInv, SpentIsUsed
    <2> QED  BY <2>1, <2>2
  <1> QED  BY <1>1, Inductive, PTL

\* No leaf ever repeats, though the runtime does not look: change keys rotate,
\* and releases carry a receipt of their own.
THEOREM UniqueLeavesHolds == Spec => []UniqueLeaves
  <1>1. IInv => UniqueLeaves
    BY DEF IInv
  <1> QED  BY <1>1, Inductive, PTL

\* Nothing remains of an amount once it is paid out.
LEMMA FullSpend ==
  ASSUME NEW v \in 1..Modulus-1, NEW f
  PROVE  AmountOK(f, v) /\ Remaining(v, v) = 0 /\ v <= v
  <1>1. Modulus \in Nat /\ Modulus > 1
    BY ModulusAssumption
  <1>2. v % Modulus = v /\ v # 0 /\ v \in 0..Modulus /\ v \in 0..2 * Modulus - 1
    BY <1>1
  <1>3. v - v = 0 /\ 0 % Modulus = 0
    BY <1>1
  <1> QED  BY <1>1, <1>2, <1>3 DEF AmountOK, InRange, Canonical, Encodings, Remaining

\* The owner of an unconsumed note can always redeem all of it, also of one of
\* many returns to the same serial, and in a full tree.
THEOREM NotesSpendable == Spec => []EveryNoteSpendable
  <1>1. IInv => EveryNoteSpendable
    <2> SUFFICES ASSUME IInv, NEW i \in DOMAIN notes, used[i] = 0,
                        NEW context \in IF family = EMIT THEN {Zero} ELSE Contexts \ {Zero}
                 PROVE  LET pub == Statement(family,
                                     IF family = EMIT THEN "mint" ELSE "unpledge",
                                     ChainId, leaves, context, notes[i].amount, notes[i])
                        IN Circuit(pub, notes[i], i) /\ Settleable(pub) /\ pub.output = Zero
      BY DEF EveryNoteSpendable
    <2> DEFINE note == notes[i]
               kind == IF family = EMIT THEN "mint" ELSE "unpledge"
               pub  == Statement(family, kind, ChainId, leaves, context, note.amount, note)
    <2>1. /\ TreeOK /\ i \in DOMAIN leaves /\ DOMAIN leaves = 1..Len(leaves)
          /\ Len(leaves) \in Nat
          /\ note.owner \in Owners /\ note.amount \in 1..Modulus-1
          /\ leaves[i] = Leaf(family, ChainId, note)
      BY DomainFacts DEF IInv, TreeOK
    <2>2. AmountOK(family, note.amount) /\ Remaining(note.amount, note.amount) = 0
          /\ note.amount <= note.amount
      BY <2>1, FullSpend
    <2>3. note.key # Zero
      <3>1. KeyOrigin(note)
        BY DEF IInv, KeysOrigin
      <3> HIDE DEF note
      <3>2. ASSUME NEW k, note.key = Secret(k) PROVE note.key # Zero
        BY <3>2 DEF Secret, Zero
      <3>3. ASSUME NEW k, NEW n, note.key = ChangeKey(family, k, n) PROVE note.key # Zero
        BY <3>3 DEF ChangeKey, HashMulti, Tag, Zero
      <3>4. IsReturnKey(note.key) => note.key # Zero
        BY DEF IsReturnKey, Tag, Zero
      <3> QED  BY <3>1, <3>2, <3>3, <3>4 DEF KeyOrigin
    <2>4. /\ NullifierOf(family, ChainId, note) = NullifierAt(i)
          /\ NoteNullifier(family, Leaf(family, ChainId, note), note.key) = NullifierAt(i)
      BY <2>1 DEF NullifierOf, NullifierAt
    <2>5. Change(family, ChainId, note, note.amount) = NoNote
      BY <2>2 DEF Change
    <2>6. Output(family, ChainId, NoNote) = Zero
      BY DEF Output
    <2>7. /\ pub.kind = kind /\ pub.chain = ChainId /\ pub.root = leaves
          /\ pub.context = context /\ pub.pay = note.amount /\ pub.owner = note.owner
          /\ pub.nullifier = NullifierAt(i) /\ pub.output = Zero
      BY <2>4, <2>5, <2>6 DEF Statement
    <2>8. leaves \in AcceptedRoots
      <3>1. SubSeq(leaves, 1, Len(leaves)) = leaves
        BY <2>1 DEF TreeOK
      <3>2. Len(leaves) \in 0..Len(leaves)
        BY <2>1
      <3> HIDE DEF note, pub
      <3> QED  BY <3>1, <3>2, Zenon DEF AcceptedRoots
    <2>9. NullifierAt(i) \notin spent
      BY <2>1 DEF IInv, SpentIsUsed
    <2>10. Settleable(pub)
      <3> HIDE DEF pub
      <3> QED  BY <2>7, <2>8, <2>9 DEF Settleable
    <2>11. SpendAsserts(family, pub, note, i)
      <3>1. Zero \notin {note.key, NoteSn(family, note.owner, note.key),
                         Leaf(family, ChainId, note), NullifierAt(i)}
        BY <2>3, HashesNonzero DEF NullifierAt
      <3>2. Opens(leaves, i, Leaf(family, ChainId, note))
        BY <2>1 DEF Opens
      <3> HIDE DEF pub, note
      <3> QED  BY <2>2, <2>4, <2>5, <2>6, <2>7, <3>1, <3>2 DEF SpendAsserts
    <2>12. Circuit(pub, note, i)
      <3> HIDE DEF pub, note
      <3>1. CASE family = EMIT
        BY <2>7, <2>11, <3>1 DEF Circuit, MintCircuit
      <3>2. CASE family # EMIT
        <4>1. family = PLEDGE
          BY <2>1, <3>2 DEF TreeOK, Families
        <4>2. note.owner # ZeroAddress
          BY <2>1, OwnedPoolAssumption
        <4>3. context # Zero
          BY <3>2
        <4> QED  BY <2>7, <2>11, <3>2, <4>1, <4>2, <4>3
                 DEF Circuit, UnpledgeCircuit, PledgeSpend
      <3> QED  BY <3>1, <3>2
    <2> QED  BY <2>7, <2>10, <2>12
  <1> QED  BY <1>1, Inductive, PTL
-----------------------------------------------------------------------------
\* The books: the vault the pool implements.

\* Amounts that are natural numbers have a natural sum.
LEMMA NoteValuesNat ==
  ASSUME NEW ns, ns \in Seq(Elements(ns)), \A i \in DOMAIN ns : ns[i].amount \in Nat,
         NEW u, NEW b
  PROVE  /\ Len(ns) \in Nat /\ DOMAIN ns = 1..Len(ns)
         /\ \A i \in 1..Len(ns) : NoteValues(ns, u, b)[i] \in Nat
         /\ SumOf(NoteValues(ns, u, b), Len(ns)) \in Nat
  <1>1. Len(ns) \in Nat /\ DOMAIN ns = 1..Len(ns)
    BY LenProperties
  <1>2. \A n \in 1..Len(ns) : NoteValues(ns, u, b)[n] \in Nat
    BY <1>1 DEF NoteValues
  <1> QED  BY <1>1, <1>2, SumNat

\* What positions owe is natural, and so is its sum.
LEMMA OwedNat ==
  ASSUME NEW ps, ps \in Seq(Elements(ps)),
         \A i \in DOMAIN ps : ps[i].pledged \in Nat /\ ps[i].released \in 0..ps[i].pledged,
         NEW b
  PROVE  /\ Len(ps) \in Nat /\ DOMAIN ps = 1..Len(ps)
         /\ \A i \in 1..Len(ps) : OwedValues(ps, b)[i] \in Nat
         /\ SumOf(OwedValues(ps, b), Len(ps)) \in Nat
  <1>1. Len(ps) \in Nat /\ DOMAIN ps = 1..Len(ps)
    BY LenProperties
  <1>2. \A n \in 1..Len(ps) : OwedValues(ps, b)[n] \in Nat
    BY <1>1 DEF OwedValues
  <1> QED  BY <1>1, <1>2, SumNat

\* Holdings are never negative.
LEMMA HoldingsNat == IInv => \A b : /\ SumOf(NoteValues(notes, used, b), Len(notes)) \in Nat
                                    /\ SumOf(OwedValues(positions, b), Len(positions)) \in Nat
                                    /\ Holdings(b) \in Nat
  <1> SUFFICES ASSUME IInv, NEW b
               PROVE  /\ SumOf(NoteValues(notes, used, b), Len(notes)) \in Nat
                      /\ SumOf(OwedValues(positions, b), Len(positions)) \in Nat
                      /\ Holdings(b) \in Nat
    OBVIOUS
  <1>1. SumOf(NoteValues(notes, used, b), Len(notes)) \in Nat
    <2>1. notes \in Seq(Elements(notes)) /\ \A i \in DOMAIN notes : notes[i].amount \in Nat
      BY ModulusAssumption DEF IInv, TreeOK
    <2> QED  BY <2>1, NoteValuesNat
  <1>2. SumOf(OwedValues(positions, b), Len(positions)) \in Nat
    <2>1. /\ positions \in Seq(Elements(positions))
          /\ \A i \in DOMAIN positions : /\ positions[i].pledged \in Nat
                                          /\ positions[i].released \in 0..positions[i].pledged
      BY DEF IInv, PositionsOK, PositionOK
    <2> QED  BY <2>1, OwedNat
  <1> QED  BY <1>1, <1>2 DEF Holdings

\* A new leaf adds the amount of its note to its owner.
LEMMA NoteInserted ==
  ASSUME TreeOK, NEW c, NEW n, Insert(c, n), n.amount \in Nat,
         NEW u, NEW b, u[Len(notes) + 1] = 0
  PROVE  SumOf(NoteValues(notes', u, b), Len(notes'))
           = SumOf(NoteValues(notes, u, b), Len(notes))
               + (IF n.owner = b THEN n.amount ELSE 0)
  <1> DEFINE m == Len(notes)
             f == NoteValues(notes, u, b)
             e == NoteValues(notes', u, b)
  <1>1. /\ m \in Nat /\ Len(notes') = m + 1 /\ DOMAIN notes' = 1..m+1
        /\ DOMAIN notes = 1..m
        /\ \A i \in 1..m : notes'[i] = notes[i]
        /\ notes'[m + 1] = n
    BY AppendFacts DEF Insert, TreeOK
  <1>2. \A i \in 1..m : f[i] \in Int /\ e[i] \in Int /\ f[i] = e[i]
    <2>1. \A i \in 1..m : f[i] \in Nat
      <3>1. notes \in Seq(Elements(notes)) /\ \A i \in DOMAIN notes : notes[i].amount \in Nat
        BY ModulusAssumption DEF TreeOK
      <3> QED  BY <3>1, NoteValuesNat
    <2>2. \A i \in 1..m : f[i] = e[i]
      BY <1>1 DEF NoteValues
    <2> QED  BY <2>1, <2>2
  <1>3. e[m + 1] = (IF n.owner = b THEN n.amount ELSE 0)
    <2>1. m + 1 \in 1..m+1
      BY <1>1
    <2> QED  BY <1>1, <2>1 DEF NoteValues
  <1> HIDE DEF m, f, e
  <1>4. \A i \in 1..m+1 : e[i] \in Int
    BY <1>1, <1>2, <1>3
  <1>5. SumOf(e, m + 1) = SumOf(e, m) + e[m + 1]
    BY <1>1, <1>4, SumMore
  <1>6. SumOf(f, m) = SumOf(e, m)
    BY <1>1, <1>2, SumSame
  <1>7. SumOf(e, m + 1) = SumOf(f, m) + (IF n.owner = b THEN n.amount ELSE 0)
    BY <1>3, <1>5, <1>6
  <1> QED  BY <1>1, <1>7 DEF m, f, e

\* The place of the next leaf is still unconsumed.
LEMMA NextPlaceUnused ==
  ASSUME TreeOK, NEW c, NEW n, Insert(c, n), NEW u,
         \A i \in Places : i \notin DOMAIN leaves => u[i] = 0
  PROVE  u[Len(notes) + 1] = 0
  <1>1. Len(notes) + 1 \in Places /\ Len(notes) + 1 \notin DOMAIN leaves
    BY DomainFacts, OwnedPoolAssumption DEF Insert, Places, TreeOK
  <1> QED  BY <1>1

\* Funding adds its amount to its owner's holdings.
LEMMA FundBooks ==
  ASSUME IInv, NEW o \in Owners, NEW k \in FundKeys, NEW v \in 1..Modulus-1,
         Fund(o, k, v), NEW b \in Owners
  PROVE  Holdings(b)' = Holdings(b) + (IF b = o THEN v ELSE 0)
  <1> DEFINE n == Note(o, Secret(k), v, Zero)
             c == Leaf(family, ChainId, n)
  <1>1. /\ Insert(c, n) /\ used' = used /\ positions' = positions
        /\ TreeOK /\ SpentIsUsed
    BY DEF Fund, IInv
  <1>2. n.owner = o /\ n.amount = v /\ v \in Nat
    BY ModulusAssumption DEF Note
  <1> HIDE DEF c, n
  <1>3. used[Len(notes) + 1] = 0
    BY <1>1, NextPlaceUnused DEF SpentIsUsed
  <1>4. SumOf(NoteValues(notes', used, b), Len(notes'))
          = SumOf(NoteValues(notes, used, b), Len(notes))
              + (IF n.owner = b THEN n.amount ELSE 0)
    BY <1>1, <1>2, <1>3, NoteInserted
  <1>5. /\ SumOf(NoteValues(notes, used, b), Len(notes)) \in Nat
        /\ SumOf(OwedValues(positions, b), Len(positions)) \in Nat
    BY HoldingsNat
  <1> QED  BY <1>1, <1>2, <1>4, <1>5 DEF Holdings

\* Consuming a proof takes what it pays out of the notes of the leaf's owner: the
\* change goes back to them.
LEMMA ConsumeBooks ==
  ASSUME IInv, NEW p \in proofs, Consume(p), UNCHANGED <<family, drawn>>,
         DOMAIN positions \subseteq DOMAIN positions',
         \A j \in DOMAIN positions : \A t \in Nat :
           t <= positions[j].released => t <= positions'[j].released,
         NEW b \in Owners
  PROVE  SumOf(NoteValues(notes', used', b), Len(notes'))
           = SumOf(NoteValues(notes, used, b), Len(notes))
               - (IF b = notes[p.from].owner THEN p.pub.pay ELSE 0)
  <1> DEFINE m == Len(notes)
             f == NoteValues(notes, used, b)
             e == NoteValues(notes, used', b)
             mine == b = notes[p.from].owner
             new == SumOf(NoteValues(notes', used', b), Len(notes'))
  <1>1. /\ TreeOK /\ ProofSound(p) /\ ProofBalanced(p) /\ SpentIsUsed
        /\ used \in [Places -> Nat] /\ DOMAIN leaves \subseteq Places
        /\ DOMAIN notes = DOMAIN leaves
        /\ notes \in Seq(Elements(notes)) /\ \A i \in DOMAIN notes : notes[i].amount \in Nat
    BY DomainFacts, ModulusAssumption DEF IInv, ProofsSound, BooksOK, TreeOK
  <1>2. PICK h \in DOMAIN notes : h = p.from
    BY <1>1 DEF ProofSound
  <1>3. /\ p.pub.nullifier \notin spent
        /\ used' = [used EXCEPT ![h] = @ + 1]
        /\ IF p.pub.output = Zero THEN UNCHANGED <<leaves, notes>>
           ELSE Insert(p.pub.output, p.change)
    BY <1>2 DEF Consume, Settleable
  <1>4. used[h] = 0 /\ used'[h] = 1 /\ \A i \in DOMAIN notes : i # h => used'[i] = used[i]
    <2>1. used[h] = 0
      BY <1>1, <1>2, <1>3 DEF SpentIsUsed, ProofSound
    <2> QED  BY <1>1, <1>3, <2>1
  <1>5. /\ m \in Nat /\ DOMAIN notes = 1..m
        /\ \A i \in 1..m : f[i] \in Int /\ e[i] \in Int
        /\ SumOf(f, m) \in Nat
    <2>1. /\ m \in Nat /\ DOMAIN notes = 1..m /\ SumOf(f, m) \in Nat
          /\ \A i \in 1..m : f[i] \in Nat
      BY <1>1, NoteValuesNat
    <2>2. \A i \in 1..m : e[i] \in Nat
      BY <1>1, NoteValuesNat
    <2> QED  BY <2>1, <2>2
  <1>6. /\ e[h] = 0 /\ f[h] = IF mine THEN p.pub.pay + p.change.amount ELSE 0
        /\ \A i \in 1..m : i # h => f[i] = e[i]
    <2>1. e[h] = 0
      BY <1>4 DEF NoteValues
    <2>2. f[h] = IF mine THEN notes[h].amount ELSE 0
      BY <1>2, <1>4 DEF NoteValues
    <2>3. \A i \in 1..m : i # h => f[i] = e[i]
      BY <1>4, <1>5 DEF NoteValues
    <2> QED  BY <1>1, <1>2, <2>1, <2>2, <2>3 DEF ProofBalanced
  <1>7. p.pub.pay \in Nat /\ p.change.amount \in Nat
    BY <1>1 DEF ProofSound, ProofBalanced
  <1>8. SumOf(e, m) = SumOf(f, m) - (IF mine THEN p.pub.pay + p.change.amount ELSE 0)
    <2> HIDE DEF f, e, m, mine
    <2>1. h \in 1..m
      BY <1>5
    <2>2. m \in Nat /\ \A j \in 1..m : f[j] \in Int /\ e[j] \in Int
      BY <1>5
    <2>3. \A j \in 1..m : j # h => f[j] = e[j]
      BY <1>6
    <2>4. SumOf(e, m) = SumOf(f, m) + e[h] - f[h]
      BY <2>1, <2>2, <2>3, SumChange
    <2> QED  BY <1>5, <1>6, <1>7, <2>4
  <1>9. new = SumOf(e, m) + (IF mine THEN p.change.amount ELSE 0)
    <2>1. CASE p.change = NoNote
      <3>1. notes' = notes
        BY <1>1, <1>3, <2>1 DEF ProofSound, Output
      <3>2. p.change.amount = 0
        BY <2>1 DEF NoNote, Note
      <3>3. new = SumOf(e, m)
        BY <3>1
      <3> HIDE DEF new, e, m, mine
      <3> QED  BY <1>5, <1>7, <1>8, <3>2, <3>3
    <2>2. CASE p.change # NoNote
      <3>1. p.pub.output # Zero
        BY <1>1, <2>2, HashesNonzero DEF ProofSound, Output
      <3>2. Insert(p.pub.output, p.change) /\ p.change.owner = notes[h].owner
        BY <1>1, <1>2, <1>3, <2>2, <3>1 DEF ProofBalanced
      <3>3. used'[m + 1] = 0
        <4>1. \A i \in Places : i \notin DOMAIN leaves => used'[i] = 0
          BY <1>1, <1>2, <1>3 DEF SpentIsUsed
        <4> QED  BY <1>1, <3>2, <4>1, NextPlaceUnused
      <3>4. new = SumOf(e, m) + (IF p.change.owner = b THEN p.change.amount ELSE 0)
        BY <1>1, <1>7, <3>2, <3>3, NoteInserted
      <3> QED  BY <1>2, <3>2, <3>4
    <2> QED  BY <2>1, <2>2
  <1>10. new = SumOf(f, m) - (IF mine THEN p.pub.pay ELSE 0)
    <2> HIDE DEF new, f, e, m, mine
    <2> QED  BY <1>5, <1>7, <1>8, <1>9
  <1> QED  BY <1>10

\* A mint or an unpledge takes what it pays out of its owner's holdings.
LEMMA RedeemBooks ==
  ASSUME IInv, NEW p \in proofs, Redeem(p), NEW b \in Owners
  PROVE  Holdings(b)' = Holdings(b) - (IF b = p.pub.owner THEN p.pub.pay ELSE 0)
  <1>1. /\ Consume(p) /\ UNCHANGED <<family, drawn, positions>> /\ p.pub.kind # "issue"
        /\ ProofBalanced(p) /\ p.pub.pay \in Nat
    BY DEF Redeem, IInv, ProofsSound, ProofSound
  <1>2. p.pub.owner = notes[p.from].owner
    BY <1>1 DEF ProofBalanced
  <1>3. SumOf(NoteValues(notes', used', b), Len(notes'))
          = SumOf(NoteValues(notes, used, b), Len(notes))
              - (IF b = notes[p.from].owner THEN p.pub.pay ELSE 0)
    BY <1>1, ConsumeBooks
  <1>4. /\ SumOf(NoteValues(notes, used, b), Len(notes)) \in Nat
        /\ SumOf(OwedValues(positions, b), Len(positions)) \in Nat
    BY HoldingsNat
  <1> QED  BY <1>1, <1>2, <1>3, <1>4 DEF Holdings

\* An issue moves what it pledges from the notes of an owner to their positions.
LEMMA IssueBooks ==
  ASSUME IInv, NEW p \in proofs, Issue(p), NEW b \in Owners
  PROVE  Holdings(b)' = Holdings(b)
  <1> DEFINE pos == [serial |-> p.pub.returnSerial, pledged |-> p.pub.pay, released |-> 0,
                     holder |-> p.holder, key |-> p.key]
             m == Len(positions)
             f == OwedValues(positions, b)
             e == OwedValues(positions', b)
  <1>1. /\ Consume(p) /\ UNCHANGED <<family, drawn>> /\ p.pub.kind = "issue"
        /\ positions' = Append(positions, pos)
        /\ ProofBalanced(p) /\ p.pub.pay \in Nat /\ PositionsOK
    BY DEF Issue, IInv, ProofsSound, ProofSound
  <1>2. p.holder = notes[p.from].owner
    BY <1>1 DEF ProofBalanced
  <1>3. /\ m \in Nat /\ Len(positions') = m + 1
        /\ DOMAIN positions = 1..m /\ DOMAIN positions' = 1..m+1
        /\ \A j \in 1..m : positions'[j] = positions[j]
        /\ positions'[m + 1] = pos
    <2> HIDE DEF pos
    <2> QED  BY <1>1, AppendFacts DEF PositionsOK
  <1>4. SumOf(NoteValues(notes', used', b), Len(notes'))
          = SumOf(NoteValues(notes, used, b), Len(notes))
              - (IF b = notes[p.from].owner THEN p.pub.pay ELSE 0)
    BY <1>1, <1>3, ConsumeBooks
  <1>5. /\ \A i \in 1..m : f[i] \in Int /\ e[i] \in Int /\ f[i] = e[i]
        /\ e[m + 1] = (IF b = p.holder THEN p.pub.pay ELSE 0)
    <2>1. \A i \in 1..m : f[i] \in Nat
      <3>1. /\ positions \in Seq(Elements(positions))
            /\ \A i \in DOMAIN positions : /\ positions[i].pledged \in Nat
                                            /\ positions[i].released \in 0..positions[i].pledged
        BY <1>1 DEF PositionsOK, PositionOK
      <3> QED  BY <3>1, OwedNat
    <2>2. \A i \in 1..m : f[i] = e[i]
      BY <1>3 DEF OwedValues
    <2>3. e[m + 1] = (IF b = p.holder THEN p.pub.pay ELSE 0)
      <3>1. m + 1 \in DOMAIN positions'
        BY <1>3
      <3>2. pos.holder = p.holder /\ pos.pledged - pos.released = p.pub.pay
        BY <1>1
      <3> QED  BY <1>3, <3>1, <3>2 DEF OwedValues
    <2> QED  BY <2>1, <2>2, <2>3
  <1>6. SumOf(e, m + 1) = SumOf(f, m) + (IF b = p.holder THEN p.pub.pay ELSE 0)
    <2> HIDE DEF m, f, e
    <2>1. \A i \in 1..m+1 : e[i] \in Int
      BY <1>1, <1>3, <1>5
    <2>2. SumOf(e, m + 1) = SumOf(e, m) + e[m + 1]
      BY <1>3, <2>1, SumMore
    <2>3. SumOf(f, m) = SumOf(e, m)
      BY <1>3, <1>5, SumSame
    <2> QED  BY <1>5, <2>2, <2>3
  <1>7. /\ SumOf(NoteValues(notes, used, b), Len(notes)) \in Nat
        /\ SumOf(f, m) \in Nat
    BY HoldingsNat
  <1>8. Holdings(b)' = SumOf(NoteValues(notes', used', b), Len(notes')) + SumOf(e, m + 1)
    BY <1>3 DEF Holdings
  <1>9. Holdings(b) = SumOf(NoteValues(notes, used, b), Len(notes)) + SumOf(f, m)
    BY DEF Holdings
  <1> HIDE DEF f, e, m
  <1> QED  BY <1>1, <1>2, <1>4, <1>6, <1>7, <1>8, <1>9

\* A release moves its amount from a position to the notes of its holder.
LEMMA ReleaseBooks ==
  ASSUME IInv, NEW i \in DOMAIN positions, NEW v \in 1..Modulus-1, Release(i, v),
         NEW b \in Owners
  PROVE  Holdings(b)' = Holdings(b)
  <1>0. PICK pos : pos = positions[i]
    OBVIOUS
  <1> DEFINE total   == pos.released + v
             receipt == ReceiptContext(i, total)
             n       == Note(pos.holder, pos.key, v, receipt)
             c       == NoteCommitment(PLEDGE, ChainId, pos.serial, v, receipt)
             m       == Len(positions)
             f       == OwedValues(positions, b)
             e       == OwedValues(positions', b)
             mine    == b = pos.holder
  <1>1. /\ total <= pos.pledged
        /\ Insert(c, n)
        /\ positions' = [positions EXCEPT ![i].released = total]
        /\ used' = used
        /\ TreeOK /\ SpentIsUsed /\ PositionsOK
    BY <1>0 DEF Release, IInv
  <1>2. n.owner = pos.holder /\ n.amount = v /\ v \in Nat
    BY ModulusAssumption DEF Note
  <1>3. /\ pos.pledged \in Nat /\ pos.released \in Nat /\ total \in Nat
        /\ pos = [serial   |-> NoteSn(PLEDGE, pos.holder, pos.key),
                  pledged  |-> pos.pledged,
                  released |-> pos.released,
                  holder   |-> pos.holder,
                  key      |-> pos.key]
    <2>1. PositionOK(pos)
      BY <1>0, <1>1 DEF PositionsOK
    <2> QED  BY <1>2, <2>1 DEF PositionOK
  <1>4. SumOf(NoteValues(notes', used, b), Len(notes'))
          = SumOf(NoteValues(notes, used, b), Len(notes)) + (IF mine THEN v ELSE 0)
    <2> HIDE DEF n, c
    <2>1. used[Len(notes) + 1] = 0
      BY <1>1, NextPlaceUnused DEF SpentIsUsed
    <2>2. SumOf(NoteValues(notes', used, b), Len(notes'))
            = SumOf(NoteValues(notes, used, b), Len(notes))
                + (IF n.owner = b THEN n.amount ELSE 0)
      BY <1>1, <1>2, <2>1, NoteInserted
    <2> QED  BY <1>2, <2>2
  <1>5. /\ m \in Nat /\ DOMAIN positions = 1..m /\ DOMAIN positions' = 1..m
        /\ Len(positions') = m
        /\ positions'[i] = [pos EXCEPT !.released = total]
        /\ \A j \in 1..m : j # i => positions'[j] = positions[j]
    <2>1. m \in Nat /\ DOMAIN positions = 1..m
      BY <1>1, LenProperties DEF PositionsOK
    <2>2. /\ DOMAIN positions' = 1..m
          /\ positions'[i] = [pos EXCEPT !.released = total]
          /\ \A j \in 1..m : j # i => positions'[j] = positions[j]
      BY <1>0, <1>1, <2>1
    <2>3. positions' \in [1..m -> Elements(positions')]
      BY <1>1, <2>1, <2>2 DEF Elements
    <2>4. Len(positions') = m
      BY <2>1, <2>3, FunctionIsSeq
    <2> QED  BY <2>1, <2>2, <2>4
  <1>6. /\ positions'[i].holder = pos.holder /\ positions'[i].pledged = pos.pledged
        /\ positions'[i].released = total
    <2> HIDE DEF total
    <2>1. [pos EXCEPT !.released = total]
            = [serial   |-> NoteSn(PLEDGE, pos.holder, pos.key),
               pledged  |-> pos.pledged,
               released |-> total,
               holder   |-> pos.holder,
               key      |-> pos.key]
      BY <1>3
    <2> QED  BY <1>5, <2>1
  <1>7. /\ f[i] = IF mine THEN pos.pledged - pos.released ELSE 0
        /\ e[i] = IF mine THEN pos.pledged - total ELSE 0
        /\ \A j \in 1..m : j # i => f[j] = e[j]
    BY <1>0, <1>5, <1>6 DEF OwedValues
  <1>8. \A j \in 1..m : f[j] \in Int /\ e[j] \in Int
    <2>1. \A j \in 1..m : f[j] \in Nat
      <3>1. /\ positions \in Seq(Elements(positions))
            /\ \A j \in DOMAIN positions : /\ positions[j].pledged \in Nat
                                            /\ positions[j].released \in 0..positions[j].pledged
        BY <1>1 DEF PositionsOK, PositionOK
      <3> QED  BY <3>1, OwedNat
    <2>2. e[i] \in Int
      BY <1>3, <1>7
    <2> HIDE DEF f, e
    <2> QED  BY <1>7, <2>1, <2>2
  <1>9. /\ SumOf(NoteValues(notes, used, b), Len(notes)) \in Nat
        /\ SumOf(f, m) \in Nat
    BY HoldingsNat
  <1>10. SumOf(e, m) = SumOf(f, m) - (IF mine THEN v ELSE 0)
    <2>1. i \in 1..m
      BY <1>5
    <2> HIDE DEF f, e, m, mine
    <2>2. m \in Nat /\ \A j \in 1..m : f[j] \in Int /\ e[j] \in Int
      BY <1>5, <1>8
    <2>3. \A j \in 1..m : j # i => f[j] = e[j]
      BY <1>7
    <2>4. SumOf(e, m) = SumOf(f, m) + e[i] - f[i]
      BY <2>1, <2>2, <2>3, SumChange
    <2> QED  BY <1>2, <1>3, <1>7, <1>9, <2>4
  <1>11. Holdings(b)' = SumOf(NoteValues(notes', used, b), Len(notes')) + SumOf(e, m)
    BY <1>1, <1>5 DEF Holdings
  <1>12. Holdings(b) = SumOf(NoteValues(notes, used, b), Len(notes)) + SumOf(f, m)
    BY DEF Holdings
  <1> HIDE DEF f, e, m, mine
  <1> QED  BY <1>2, <1>4, <1>9, <1>10, <1>11, <1>12

\* What a step does to the books: something comes in, a covered payment goes
\* out, or nothing changes.
LEMMA Books ==
  ASSUME IInv, IInv', [Next]_vars
  PROVE  \/ /\ \A b \in Owners : Holdings(b)' = Holdings(b)
            /\ funded' = funded /\ paid' = paid
         \/ \E o \in Owners, v \in Nat \ {0} :
              /\ \A b \in Owners : Holdings(b)' = Holdings(b) + (IF b = o THEN v ELSE 0)
              /\ funded' = [funded EXCEPT ![o] = @ + v] /\ paid' = paid
         \/ \E o \in Owners, v \in Nat \ {0} :
              /\ \A b \in Owners : Holdings(b)' = Holdings(b) - (IF b = o THEN v ELSE 0)
              /\ v <= Holdings(o)
              /\ paid' = [paid EXCEPT ![o] = @ + v] /\ funded' = funded
  <1>1. \A b : Holdings(b) \in Nat /\ Holdings(b)' \in Nat
    <2>1. \A b : Holdings(b) \in Nat
      BY HoldingsNat
    <2>2. \A b : Holdings(b)' \in Nat
      <3> SUFFICES ASSUME NEW b PROVE Holdings(b)' \in Nat
        OBVIOUS
      <3>1. SumOf(NoteValues(notes', used', b), Len(notes')) \in Nat
        <4>1. /\ notes' \in Seq(Elements(notes'))
              /\ \A i \in DOMAIN notes' : notes'[i].amount \in Nat
          BY ModulusAssumption DEF IInv, TreeOK
        <4> QED  BY <4>1, NoteValuesNat
      <3>2. SumOf(OwedValues(positions', b), Len(positions')) \in Nat
        <4>1. /\ positions' \in Seq(Elements(positions'))
              /\ \A i \in DOMAIN positions' :
                   /\ positions'[i].pledged \in Nat
                   /\ positions'[i].released \in 0..positions'[i].pledged
          BY DEF IInv, PositionsOK, PositionOK
        <4> QED  BY <4>1, OwedNat
      <3> QED  BY <3>1, <3>2 DEF Holdings
    <2> QED  BY <2>1, <2>2
  <1>2. ASSUME NEW o \in Owners, NEW k \in FundKeys, NEW v \in 1..Modulus-1, Fund(o, k, v)
        PROVE  \E x \in Owners, w \in Nat \ {0} :
              /\ \A b \in Owners : Holdings(b)' = Holdings(b) + (IF b = x THEN w ELSE 0)
              /\ funded' = [funded EXCEPT ![x] = @ + w] /\ paid' = paid
    <2>1. \A b \in Owners : Holdings(b)' = Holdings(b) + (IF b = o THEN v ELSE 0)
      BY <1>2, FundBooks
    <2>2. funded' = [funded EXCEPT ![o] = @ + v] /\ paid' = paid
      BY <1>2 DEF Fund
    <2>3. v \in Nat \ {0}
      BY ModulusAssumption
    <2> QED  BY <2>1, <2>2, <2>3
  <1>3. ASSUME NEW p \in proofs, Redeem(p)
        PROVE  \E o \in Owners, v \in Nat \ {0} :
              /\ \A b \in Owners : Holdings(b)' = Holdings(b) - (IF b = o THEN v ELSE 0)
              /\ v <= Holdings(o)
              /\ paid' = [paid EXCEPT ![o] = @ + v] /\ funded' = funded
    <2> DEFINE o == p.pub.owner
               v == p.pub.pay
    <2>1. o \in Owners /\ v \in Nat \ {0}
      BY <1>3 DEF Redeem, IInv, ProofsSound, ProofSound, ProofBalanced
    <2>2. \A b \in Owners : Holdings(b)' = Holdings(b) - (IF b = o THEN v ELSE 0)
      BY <1>3, RedeemBooks
    <2>3. paid' = [paid EXCEPT ![o] = @ + v] /\ funded' = funded
      BY <1>3 DEF Redeem
    <2> HIDE DEF o, v
    <2>4. Holdings(o)' = Holdings(o) - v
      BY <2>1, <2>2
    <2>5. v <= Holdings(o)
      BY <1>1, <2>1, <2>4
    <2> QED  BY <2>1, <2>2, <2>3, <2>5
  <1>4. ASSUME NEW p \in proofs, Issue(p)
        PROVE  /\ \A b \in Owners : Holdings(b)' = Holdings(b)
               /\ funded' = funded /\ paid' = paid
    BY <1>4, IssueBooks DEF Issue
  <1>5. ASSUME NEW i \in DOMAIN positions, NEW v \in 1..Modulus-1, Release(i, v)
        PROVE  /\ \A b \in Owners : Holdings(b)' = Holdings(b)
               /\ funded' = funded /\ paid' = paid
    BY <1>5, ReleaseBooks DEF Release
  <1>6. ASSUME Prove \/ (\E p \in proofs : Drop(p)) \/ UNCHANGED vars
        PROVE  /\ \A b \in Owners : Holdings(b)' = Holdings(b)
               /\ funded' = funded /\ paid' = paid
    BY <1>6 DEF Prove, Drop, vars, ledger, Holdings
  <1> QED  BY <1>2, <1>3, <1>4, <1>5, <1>6 DEF Next

\* The pool implements the vault, owner by owner: whatever anyone proves with
\* anyone's keys, an owner's account changes only by what is funded to it and by
\* covered payments to it.
THEOREM Refinement == Spec => ImplementsVault
  <1>1. Init => V!Init
    BY SumZero DEF Init, Holdings, V!Init
  <1>2. ASSUME IInv, IInv', [Next]_vars PROVE [V!Next]_V!vars
    <2> DEFINE balance == [o \in Owners |-> Holdings(o)]
    <2>1. /\ funded \in [Owners -> Nat] /\ paid \in [Owners -> Nat]
          /\ \A b \in Owners : Holdings(b) \in Nat
      BY <1>2, HoldingsNat DEF IInv, BooksOK
    <2>2. CASE /\ \A b \in Owners : Holdings(b)' = Holdings(b)
               /\ funded' = funded /\ paid' = paid
      BY <2>2 DEF V!vars
    <2>3. ASSUME NEW o \in Owners, NEW v \in Nat \ {0},
                 \A b \in Owners : Holdings(b)' = Holdings(b) + (IF b = o THEN v ELSE 0),
                 funded' = [funded EXCEPT ![o] = @ + v], paid' = paid
          PROVE  V!Next
      <3>1. balance'[o] - balance[o] = v
        BY <2>1, <2>3
      <3>2. balance' = [balance EXCEPT ![o] = @ + v]
        <4>1. \A b \in Owners : balance'[b] = [balance EXCEPT ![o] = @ + v][b]
          BY <2>1, <2>3
        <4> QED  BY <4>1
      <3>3. V!TakeIn(o, v)
        BY <2>3, <3>2 DEF V!TakeIn
      <3> QED  BY <3>1, <3>3 DEF V!Next
    <2>4. ASSUME NEW o \in Owners, NEW v \in Nat \ {0},
                 \A b \in Owners : Holdings(b)' = Holdings(b) - (IF b = o THEN v ELSE 0),
                 v <= Holdings(o),
                 paid' = [paid EXCEPT ![o] = @ + v], funded' = funded
          PROVE  V!Next
      <3>1. balance[o] - balance'[o] = v
        BY <2>1, <2>4
      <3>2. balance' = [balance EXCEPT ![o] = @ - v]
        <4>1. \A b \in Owners : balance'[b] = [balance EXCEPT ![o] = @ - v][b]
          BY <2>1, <2>4
        <4> QED  BY <4>1
      <3>3. V!PayOut(o, v)
        BY <2>4, <3>2 DEF V!PayOut
      <3> QED  BY <3>1, <3>3 DEF V!Next
    <2> QED  BY <1>2, <2>2, <2>3, <2>4, Books
  <1> QED  BY <1>1, <1>2, Inductive, PTL DEF Spec, ImplementsVault, V!Spec
=============================================================================
