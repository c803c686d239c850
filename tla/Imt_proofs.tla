----------------------------- MODULE Imt_proofs -----------------------------
(***************************************************************************)
(* Proofs about Imt, for every depth and every set of leaves.  The         *)
(* argument: the reference tree over one more leaf differs from the tree   *)
(* before in the ancestors of that leaf only (NodeKept), and an ancestor   *)
(* is the hash of the ancestor below and of its sibling (Upwards).  So     *)
(* whoever holds the siblings holds the root: the wallet has them among    *)
(* its stored nodes, the contract, where they are not empty, in its        *)
(* frontier (FrontierOK).                                                  *)
(***************************************************************************)
EXTENDS Imt, Sums_proofs, SequenceTheorems, TLAPS

-----------------------------------------------------------------------------
\* The inductive invariant.

Elements(s) == {s[i] : i \in DOMAIN s}

ShapesOK ==
  /\ log \in Seq(Leaves)
  /\ DOMAIN frontier = 0..Depth-1
  /\ \A h \in Levels : levels[h] \in Seq(Elements(levels[h]))
  /\ appends \in Seq(Elements(appends))
  /\ returned \in Seq(Elements(returned))
  /\ updates \in Seq(Elements(updates))

\* h is the first level where the node above the leaf at n is on the left.
FirstLeft(n, h) == IsLeft(n, h) /\ \A g \in 0..h-1 : ~IsLeft(n, g)

\* What changes with the leaf at n, from the leaves s to the leaves t: the level,
\* the node there, the root.
ChangeOver(s, t, n) ==
  LET first == CHOOSE h \in Levels : FirstLeft(n, h)
  IN IF first = Depth
     THEN <<Depth - 1, NodeAt(s, Depth - 1, 0), NodeAt(t, Depth, 0)>>
     ELSE <<first, NodeAt(t, first, Above(n)[first]), NodeAt(t, Depth, 0)>>

ChangeAt(s, n) == ChangeOver(SubSeq(s, 1, n), SubSeq(s, 1, n + 1), n)

\* The frontier of a contract with the leaves s: it holds the left sibling of
\* every right child above the next leaf; its other slots may be stale.
Waits(front, s) ==
  \A h \in 0..Depth-1 :
    ~IsLeft(Len(s), h) => front[h] = NodeAt(s, h, Above(Len(s))[h] - 1)

FrontierOK == Waits(frontier, log)

AppendsOK  == \A n \in 1..Len(appends) : appends[n] = ChangeAt(log, n - 1)
ReturnedOK == \A n \in 1..Len(returned) : returned[n] = ChangeAt(log, n - 1)

\* An append in progress has hashed the ancestors of the next leaf, so far.
UpdatesOK ==
  updates # <<>> =>
    /\ Stored < Len(log)
    /\ Len(updates) \in 1..Depth+1
    /\ \A h \in 0..Len(updates)-1 :
         updates[h + 1] = NodeAt(Prefix(Stored + 1), h, Above(Stored)[h])

\* The siblings of the ancestors of a leaf.
SiblingsAt(s, index, siblings) ==
  \A h \in 1..Depth :
    LET a == Above(index)[h - 1]
    IN siblings[h] = NodeAt(s, h - 1, IF IsLeft(index, h - 1) THEN a + 1 ELSE a - 1)

\* A path is one of the tree as it was.
PathOK(p) ==
  /\ p.size \in 1..Stored
  /\ p.index \in 0..p.size-1
  /\ p.leaf = log[p.index + 1]
  /\ SiblingsAt(Prefix(p.size), p.index, p.siblings)
  /\ p.root = NodeAt(Prefix(p.size), Depth, 0)

IInv ==
  /\ ShapesOK
  /\ TypeOK
  /\ StoredNodesExact
  /\ FrontierOK
  /\ AppendsOK
  /\ ReturnedOK
  /\ UpdatesOK
  /\ \A p \in paths : PathOK(p)

-----------------------------------------------------------------------------
\* The recursive functions.

IsWidth(g, m) == g = [h \in 0..m |-> IF h = 0 THEN 1 ELSE 2 * g[h - 1]]

\* Width doubles from level to level.
LEMMA WidthIs ==
  /\ Width[0] = 1
  /\ \A h \in 1..Depth : Width[h] = 2 * Width[h - 1]
  <1> DEFINE S == {k \in Nat : \E g : IsWidth(g, k)}
  <1>1. 0 \in S
    <2>1. IsWidth([h \in 0..0 |-> 1], 0)
      BY DEF IsWidth
    <2> QED  BY <2>1
  <1>2. ASSUME NEW k \in 0..Depth-1, k \in S PROVE k + 1 \in S
    <2>0. k \in Nat
      OBVIOUS
    <2>1. PICK g : IsWidth(g, k)
      BY <1>2
    <2> DEFINE f == [h \in 0..k+1 |-> IF h = k + 1 THEN 2 * g[k] ELSE g[h]]
    <2>2. ASSUME NEW h \in 0..k+1
          PROVE  f[h] = IF h = 0 THEN 1 ELSE 2 * f[h - 1]
      <3>1. CASE h = k + 1
        BY <2>0, <3>1
      <3>2. CASE h # k + 1
        <4>1. h \in 0..k /\ f[h] = g[h] /\ (h # 0 => f[h - 1] = g[h - 1])
          BY <2>0, <3>2
        <4> QED  BY <2>1, <4>1 DEF IsWidth
      <3> QED  BY <3>1, <3>2
    <2>3. f = [h \in 0..k+1 |-> f[h]]
      OBVIOUS
    <2> HIDE DEF f
    <2>4. IsWidth(f, k + 1)
      BY <2>2, <2>3 DEF IsWidth
    <2> QED  BY <2>0, <2>4
  <1> HIDE DEF S
  <1>3. Depth \in Nat
    BY DepthAssumption
  <1>4. \A k \in 0..Depth : k \in S
    BY <1>1, <1>2, <1>3, InductTo
  <1>5. \E g : IsWidth(g, Depth)
    BY <1>3, <1>4 DEF S
  <1>6. Width = CHOOSE g : IsWidth(g, Depth)
    BY DEF Width, IsWidth, Levels
  <1>7. IsWidth(Width, Depth)
    BY <1>5, <1>6
  <1> QED  BY <1>3, <1>7 DEF IsWidth

IsAbove(g, index, m) == g = [h \in 0..m |-> IF h = 0 THEN index ELSE g[h - 1] \div 2]

\* An ancestor is at half the place of the node below it.
LEMMA AboveIs ==
  ASSUME NEW index
  PROVE  /\ Above(index)[0] = index
         /\ \A h \in 1..Depth : Above(index)[h] = Above(index)[h - 1] \div 2
  <1> DEFINE S == {k \in Nat : \E g : IsAbove(g, index, k)}
  <1>1. 0 \in S
    <2>1. IsAbove([h \in 0..0 |-> index], index, 0)
      BY DEF IsAbove
    <2> QED  BY <2>1
  <1>2. ASSUME NEW k \in 0..Depth-1, k \in S PROVE k + 1 \in S
    <2>0. k \in Nat
      OBVIOUS
    <2>1. PICK g : IsAbove(g, index, k)
      BY <1>2
    <2> DEFINE f == [h \in 0..k+1 |-> IF h = k + 1 THEN g[k] \div 2 ELSE g[h]]
    <2>2. ASSUME NEW h \in 0..k+1
          PROVE  f[h] = IF h = 0 THEN index ELSE f[h - 1] \div 2
      <3>1. CASE h = k + 1
        BY <2>0, <3>1
      <3>2. CASE h # k + 1
        <4>1. h \in 0..k /\ f[h] = g[h] /\ (h # 0 => f[h - 1] = g[h - 1])
          BY <2>0, <3>2
        <4> QED  BY <2>1, <4>1 DEF IsAbove
      <3> QED  BY <3>1, <3>2
    <2>3. f = [h \in 0..k+1 |-> f[h]]
      OBVIOUS
    <2> HIDE DEF f
    <2>4. IsAbove(f, index, k + 1)
      BY <2>2, <2>3 DEF IsAbove
    <2> QED  BY <2>0, <2>4
  <1> HIDE DEF S
  <1>3. Depth \in Nat
    BY DepthAssumption
  <1>4. \A k \in 0..Depth : k \in S
    BY <1>1, <1>2, <1>3, InductTo
  <1>5. \E g : IsAbove(g, index, Depth)
    BY <1>3, <1>4 DEF S
  <1>6. Above(index) = CHOOSE g : IsAbove(g, index, Depth)
    BY DEF Above, IsAbove, Levels
  <1>7. IsAbove(Above(index), index, Depth)
    BY <1>5, <1>6
  <1> QED  BY <1>3, <1>7 DEF IsAbove

IsEmptyRoots(g, m) ==
  g = [h \in 0..m |-> IF h = 0 THEN EmptyLeaf ELSE NodeHash(g[h - 1], g[h - 1])]

\* The empty subtrees, each of two of those below.
LEMMA EmptyRootsIs ==
  /\ EmptyRoots[0] = EmptyLeaf
  /\ \A h \in 1..Depth : EmptyRoots[h] = NodeHash(EmptyRoots[h - 1], EmptyRoots[h - 1])
  <1> DEFINE S == {k \in Nat : \E g : IsEmptyRoots(g, k)}
  <1>1. 0 \in S
    <2>1. IsEmptyRoots([h \in 0..0 |-> EmptyLeaf], 0)
      BY DEF IsEmptyRoots
    <2> QED  BY <2>1
  <1>2. ASSUME NEW k \in 0..Depth-1, k \in S PROVE k + 1 \in S
    <2>0. k \in Nat
      OBVIOUS
    <2>1. PICK g : IsEmptyRoots(g, k)
      BY <1>2
    <2> DEFINE f == [h \in 0..k+1 |-> IF h = k + 1 THEN NodeHash(g[k], g[k]) ELSE g[h]]
    <2>2. ASSUME NEW h \in 0..k+1
          PROVE  f[h] = IF h = 0 THEN EmptyLeaf ELSE NodeHash(f[h - 1], f[h - 1])
      <3>1. CASE h = k + 1
        BY <2>0, <3>1
      <3>2. CASE h # k + 1
        <4>1. h \in 0..k /\ f[h] = g[h] /\ (h # 0 => f[h - 1] = g[h - 1])
          BY <2>0, <3>2
        <4> QED  BY <2>1, <4>1 DEF IsEmptyRoots
      <3> QED  BY <3>1, <3>2
    <2>3. f = [h \in 0..k+1 |-> f[h]]
      OBVIOUS
    <2> HIDE DEF f
    <2>4. IsEmptyRoots(f, k + 1)
      BY <2>2, <2>3 DEF IsEmptyRoots
    <2> QED  BY <2>0, <2>4
  <1> HIDE DEF S
  <1>3. Depth \in Nat
    BY DepthAssumption
  <1>4. \A k \in 0..Depth : k \in S
    BY <1>1, <1>2, <1>3, InductTo
  <1>5. \E g : IsEmptyRoots(g, Depth)
    BY <1>3, <1>4 DEF S
  <1>6. EmptyRoots = CHOOSE g : IsEmptyRoots(g, Depth)
    BY DEF EmptyRoots, IsEmptyRoots, Levels
  <1>7. IsEmptyRoots(EmptyRoots, Depth)
    BY <1>5, <1>6
  <1> QED  BY <1>3, <1>7 DEF IsEmptyRoots

Step(onLeft, current, sibling) ==
  IF onLeft THEN NodeHash(current, sibling) ELSE NodeHash(sibling, current)

IsClimb(g, leaf, onLeft, siblings, m) ==
  g = [h \in 0..m |-> IF h = 0 THEN leaf ELSE Step(onLeft[h], g[h - 1], siblings[h])]

\* A climb, one level.
LEMMA ClimbIs ==
  ASSUME NEW leaf, NEW onLeft, NEW siblings
  PROVE  /\ Climb(leaf, onLeft, siblings)[0] = leaf
         /\ \A h \in 1..Depth :
              Climb(leaf, onLeft, siblings)[h]
                = Step(onLeft[h], Climb(leaf, onLeft, siblings)[h - 1], siblings[h])
  <1> DEFINE S == {k \in Nat : \E g : IsClimb(g, leaf, onLeft, siblings, k)}
  <1>1. 0 \in S
    <2>1. IsClimb([h \in 0..0 |-> leaf], leaf, onLeft, siblings, 0)
      BY DEF IsClimb
    <2> QED  BY <2>1
  <1>2. ASSUME NEW k \in 0..Depth-1, k \in S PROVE k + 1 \in S
    <2>0. k \in Nat
      OBVIOUS
    <2>1. PICK g : IsClimb(g, leaf, onLeft, siblings, k)
      BY <1>2
    <2> DEFINE top == Step(onLeft[k + 1], g[k], siblings[k + 1])
               f == [h \in 0..k+1 |-> IF h = k + 1 THEN top ELSE g[h]]
    <2>2. ASSUME NEW h \in 0..k+1
          PROVE  f[h] = IF h = 0 THEN leaf ELSE Step(onLeft[h], f[h - 1], siblings[h])
      <3>1. CASE h = k + 1
        BY <2>0, <3>1
      <3>2. CASE h # k + 1
        <4>1. h \in 0..k /\ f[h] = g[h] /\ (h # 0 => f[h - 1] = g[h - 1])
          BY <2>0, <3>2
        <4> QED  BY <2>1, <4>1 DEF IsClimb
      <3> QED  BY <3>1, <3>2
    <2>3. f = [h \in 0..k+1 |-> f[h]]
      OBVIOUS
    <2> HIDE DEF f
    <2>4. IsClimb(f, leaf, onLeft, siblings, k + 1)
      BY <2>2, <2>3 DEF IsClimb
    <2> QED  BY <2>0, <2>4
  <1> HIDE DEF S
  <1>3. Depth \in Nat
    BY DepthAssumption
  <1>4. \A k \in 0..Depth : k \in S
    BY <1>1, <1>2, <1>3, InductTo
  <1>5. \E g : IsClimb(g, leaf, onLeft, siblings, Depth)
    BY <1>3, <1>4 DEF S
  <1>6. Climb(leaf, onLeft, siblings) = CHOOSE g : IsClimb(g, leaf, onLeft, siblings, Depth)
    BY DEF Climb, IsClimb, Step, Levels
  <1>7. IsClimb(Climb(leaf, onLeft, siblings), leaf, onLeft, siblings, Depth)
    BY <1>5, <1>6
  <1> QED  BY <1>3, <1>7 DEF IsClimb

LeafRow(s)  == [i \in Nat |-> IF i < Len(s) THEN s[i + 1] ELSE EmptyLeaf]
RowOver(row) == [i \in Nat |-> NodeHash(row[2 * i], row[2 * i + 1])]

IsFullTree(g, s, m) ==
  g = [h \in 0..m |-> IF h = 0 THEN LeafRow(s) ELSE RowOver(g[h - 1])]

\* The reference tree, one level.
LEMMA NodeIs ==
  ASSUME NEW s
  PROVE  /\ \A i \in Nat : NodeAt(s, 0, i) = IF i < Len(s) THEN s[i + 1] ELSE EmptyLeaf
         /\ \A h \in 1..Depth, i \in Nat :
              NodeAt(s, h, i) = NodeHash(NodeAt(s, h - 1, 2 * i), NodeAt(s, h - 1, 2 * i + 1))
  <1> DEFINE S == {k \in Nat : \E g : IsFullTree(g, s, k)}
  <1>1. 0 \in S
    <2>1. IsFullTree([h \in 0..0 |-> LeafRow(s)], s, 0)
      BY DEF IsFullTree
    <2> QED  BY <2>1
  <1>2. ASSUME NEW k \in 0..Depth-1, k \in S PROVE k + 1 \in S
    <2>0. k \in Nat
      OBVIOUS
    <2>1. PICK g : IsFullTree(g, s, k)
      BY <1>2
    <2> DEFINE f == [h \in 0..k+1 |-> IF h = k + 1 THEN RowOver(g[k]) ELSE g[h]]
    <2>2. ASSUME NEW h \in 0..k+1
          PROVE  f[h] = IF h = 0 THEN LeafRow(s) ELSE RowOver(f[h - 1])
      <3>1. CASE h = k + 1
        BY <2>0, <3>1
      <3>2. CASE h # k + 1
        <4>1. h \in 0..k /\ f[h] = g[h] /\ (h # 0 => f[h - 1] = g[h - 1])
          BY <2>0, <3>2
        <4> QED  BY <2>1, <4>1 DEF IsFullTree
      <3> QED  BY <3>1, <3>2
    <2>3. f = [h \in 0..k+1 |-> f[h]]
      OBVIOUS
    <2> HIDE DEF f
    <2>4. IsFullTree(f, s, k + 1)
      BY <2>2, <2>3 DEF IsFullTree
    <2> QED  BY <2>0, <2>4
  <1> HIDE DEF S
  <1>3. Depth \in Nat
    BY DepthAssumption
  <1>4. \A k \in 0..Depth : k \in S
    BY <1>1, <1>2, <1>3, InductTo
  <1>5. \E g : IsFullTree(g, s, Depth)
    BY <1>3, <1>4 DEF S
  <1>6. FullTree(s) = CHOOSE g : IsFullTree(g, s, Depth)
    BY DEF FullTree, IsFullTree, LeafRow, RowOver, Levels
  <1>7. IsFullTree(FullTree(s), s, Depth)
    BY <1>5, <1>6
  <1>8. /\ FullTree(s)[0] = LeafRow(s)
        /\ \A h \in 1..Depth : FullTree(s)[h] = RowOver(FullTree(s)[h - 1])
    BY <1>3, <1>7 DEF IsFullTree
  <1> QED  BY <1>8 DEF NodeAt, LeafRow, RowOver

-----------------------------------------------------------------------------
\* Places.

\* The halves of a number.
LEMMA Halves ==
  ASSUME NEW x \in Nat
  PROVE  /\ x \div 2 \in Nat
         /\ x % 2 \in {0, 1}
         /\ x = 2 * (x \div 2) + (x % 2)
  OBVIOUS

\* There is a slot at every level.
LEMMA WidthNat == \A h \in Levels : Width[h] \in Nat /\ Width[h] >= 1
  <1> DEFINE S == {h \in Nat : Width[h] \in Nat /\ Width[h] >= 1}
  <1>1. 0 \in S
    BY WidthIs
  <1>2. ASSUME NEW h \in 0..Depth-1, h \in S PROVE h + 1 \in S
    <2>1. h + 1 \in 1..Depth /\ Width[h + 1] = 2 * Width[(h + 1) - 1]
      BY WidthIs, DepthAssumption
    <2> QED  BY <1>2, <2>1
  <1> HIDE DEF S
  <1>3. Depth \in Nat
    BY DepthAssumption
  <1>4. \A h \in 0..Depth : h \in S
    BY <1>1, <1>2, <1>3, InductTo
  <1> QED  BY <1>4 DEF S, Levels

\* The indices are numbers.
LEMMA SizeNat == Size \in Nat /\ Size >= 1 /\ Indices \subseteq Nat
  BY WidthNat, DepthAssumption DEF Size, Indices, Levels

\* The places above a place.
LEMMA AboveNat ==
  ASSUME NEW index \in Nat
  PROVE  \A h \in Levels : Above(index)[h] \in Nat
  <1> DEFINE S == {h \in Nat : Above(index)[h] \in Nat}
  <1>1. 0 \in S
    BY AboveIs
  <1>2. ASSUME NEW h \in 0..Depth-1, h \in S PROVE h + 1 \in S
    <2>1. h + 1 \in 1..Depth /\ Above(index)[h + 1] = Above(index)[(h + 1) - 1] \div 2
      BY AboveIs, DepthAssumption
    <2> QED  BY <1>2, <2>1
  <1> HIDE DEF S
  <1>3. Depth \in Nat
    BY DepthAssumption
  <1>4. \A h \in 0..Depth : h \in S
    BY <1>1, <1>2, <1>3, InductTo
  <1> QED  BY <1>4 DEF S, Levels

\* A node and the one above it: it is the left child or the right one.
LEMMA Parent ==
  ASSUME NEW index \in Nat, NEW h \in 0..Depth-1
  PROVE  /\ Above(index)[h] \in Nat /\ Above(index)[h + 1] \in Nat
         /\ IsLeft(index, h) => Above(index)[h] = 2 * Above(index)[h + 1]
         /\ ~IsLeft(index, h) => Above(index)[h] = 2 * Above(index)[h + 1] + 1
  <1> DEFINE a == Above(index)[h]
             b == Above(index)[h + 1]
  <1>1. h \in Levels /\ h + 1 \in Levels /\ h + 1 \in 1..Depth
    BY DepthAssumption DEF Levels
  <1>2. a \in Nat /\ b \in Nat
    BY <1>1, AboveNat
  <1>3. b = a \div 2
    <2>1. b = Above(index)[(h + 1) - 1] \div 2
      BY <1>1, AboveIs
    <2> QED  BY <2>1
  <1>4. IsLeft(index, h) <=> a % 2 = 0
    BY DEF IsLeft
  <1> HIDE DEF a, b
  <1>5. a % 2 \in {0, 1} /\ a = 2 * b + (a % 2)
    BY <1>2, <1>3, Halves
  <1>6. /\ IsLeft(index, h) => a = 2 * b
        /\ ~IsLeft(index, h) => a = 2 * b + 1
    BY <1>2, <1>4, <1>5
  <1> QED  BY <1>2, <1>6 DEF a, b

\* An ancestor is within its level.
LEMMA AboveBound ==
  ASSUME NEW index \in Indices
  PROVE  \A h \in Levels : Above(index)[h] < Width[Depth - h]
  <1> DEFINE S == {h \in Nat : Above(index)[h] < Width[Depth - h]}
  <1>0. index \in Nat /\ Depth \in Nat
    BY SizeNat, DepthAssumption
  <1>1. 0 \in S
    <2>1. index < Width[Depth]
      BY <1>0, SizeNat DEF Indices, Size
    <2> QED  BY <1>0, <2>1, AboveIs
  <1>2. ASSUME NEW h \in 0..Depth-1, h \in S PROVE h + 1 \in S
    <2> DEFINE a == Above(index)[h]
               b == Above(index)[h + 1]
               w == Width[Depth - h]
               v == Width[Depth - (h + 1)]
    <2>1. a \in Nat /\ b \in Nat /\ (a = 2 * b \/ a = 2 * b + 1)
      BY <1>0, Parent
    <2>2. w = 2 * v
      <3>1. Depth - h \in 1..Depth /\ Depth - (h + 1) = (Depth - h) - 1
        BY <1>0
      <3> QED  BY <3>1, WidthIs
    <2>3. v \in Nat
      <3>1. Depth - (h + 1) \in Levels
        BY <1>0 DEF Levels
      <3> QED  BY <3>1, WidthNat
    <2>4. a < w
      BY <1>2
    <2> HIDE DEF a, b, w, v
    <2>5. b < v
      BY <2>1, <2>2, <2>3, <2>4
    <2>6. Above(index)[h + 1] < Width[Depth - (h + 1)]
      BY <2>5 DEF b, v
    <2> QED  BY <2>6
  <1> HIDE DEF S
  <1>4. \A h \in 0..Depth : h \in S
    BY <1>0, <1>1, <1>2, InductTo
  <1> QED  BY <1>4 DEF S, Levels

\* There is one root, and two nodes below it.
LEMMA AboveTop ==
  ASSUME NEW index \in Indices
  PROVE  /\ Above(index)[Depth] = 0
         /\ IsLeft(index, Depth)
         /\ Above(index)[Depth - 1] \in {0, 1}
         /\ ~IsLeft(index, Depth - 1) => Above(index)[Depth - 1] = 1
  <1>0. index \in Nat /\ Depth \in Levels /\ Depth - 1 \in 0..Depth-1
    BY SizeNat, DepthAssumption DEF Levels
  <1>1. Above(index)[Depth] < Width[Depth - Depth]
    BY <1>0, AboveBound
  <1>2. Above(index)[Depth] = 0
    BY <1>0, <1>1, WidthIs, AboveNat, DepthAssumption
  <1>3. /\ IsLeft(index, Depth - 1)
             => Above(index)[Depth - 1] = 2 * Above(index)[(Depth - 1) + 1]
        /\ ~IsLeft(index, Depth - 1)
             => Above(index)[Depth - 1] = 2 * Above(index)[(Depth - 1) + 1] + 1
    BY <1>0, Parent
  <1>4. (Depth - 1) + 1 = Depth
    BY DepthAssumption
  <1> QED  BY <1>2, <1>3, <1>4 DEF IsLeft

\* The ancestors of the next place: the next ones as far as the first left child
\* of the place before, the same above it.
LEMMA AboveNext ==
  ASSUME NEW index \in Nat
  PROVE  \A h \in Levels :
           Above(index + 1)[h] = IF \A g \in 0..h-1 : ~IsLeft(index, g)
                                 THEN Above(index)[h] + 1 ELSE Above(index)[h]
  <1> DEFINE Carries(h) == \A g \in 0..h-1 : ~IsLeft(index, g)
             S == {h \in Nat :
                     /\ Carries(h) => Above(index + 1)[h] = Above(index)[h] + 1
                     /\ ~Carries(h) => Above(index + 1)[h] = Above(index)[h]}
  <1>1. 0 \in S
    <2>1. Carries(0)
      OBVIOUS
    <2> QED  BY <2>1, AboveIs
  <1>2. ASSUME NEW h \in 0..Depth-1, h \in S PROVE h + 1 \in S
    <2> DEFINE a == Above(index)[h]
               b == Above(index)[h + 1]
               c == Above(index + 1)[h]
               d == Above(index + 1)[h + 1]
    <2>1. /\ a \in Nat /\ b \in Nat
          /\ IsLeft(index, h) => a = 2 * b
          /\ ~IsLeft(index, h) => a = 2 * b + 1
      BY Parent
    <2>2. c \in Nat /\ d \in Nat /\ (c = 2 * d \/ c = 2 * d + 1)
      <3>1. index + 1 \in Nat
        OBVIOUS
      <3> QED  BY <3>1, Parent
    <2>3. Carries(h + 1) <=> Carries(h) /\ ~IsLeft(index, h)
      OBVIOUS
    <2>4. (Carries(h) => c = a + 1) /\ (~Carries(h) => c = a)
      BY <1>2
    <2> HIDE DEF a, b, c, d, Carries
    <2>5. (Carries(h + 1) => d = b + 1) /\ (~Carries(h + 1) => d = b)
      BY <2>1, <2>2, <2>3, <2>4
    <2>6. /\ Carries(h + 1) => Above(index + 1)[h + 1] = Above(index)[h + 1] + 1
          /\ ~Carries(h + 1) => Above(index + 1)[h + 1] = Above(index)[h + 1]
      BY <2>5 DEF b, d
    <2> QED  BY <2>6
  <1> HIDE DEF S
  <1>3. Depth \in Nat
    BY DepthAssumption
  <1>4. \A h \in 0..Depth : h \in S
    BY <1>1, <1>2, <1>3, InductTo
  <1> QED  BY <1>4 DEF S, Levels

\* The next place at a level is after the occupied ones or the last of them.
LEMMA OccupiedNext ==
  ASSUME NEW n \in Nat, NEW h \in Levels
  PROVE  /\ Above(n)[h] \in Nat /\ Occupied(n, h) \in Nat
         /\ Above(n)[h] = Occupied(n, h) \/ Above(n)[h] = Occupied(n, h) - 1
         /\ Occupied(n + 1, h) = Above(n)[h] + 1
  <1>1. Above(n)[h] \in Nat
    BY AboveNat
  <1>2. Occupied(n + 1, h) = Above(n)[h] + 1
    <2>1. n + 1 # 0 /\ (n + 1) - 1 = n
      OBVIOUS
    <2> QED  BY <2>1 DEF Occupied
  <1>3. CASE n = 0
    <2>1. \A g \in Levels : Above(0)[g] = 0
      <3> DEFINE S == {g \in Nat : Above(0)[g] = 0}
      <3>1. 0 \in S
        BY AboveIs
      <3>2. ASSUME NEW g \in 0..Depth-1, g \in S PROVE g + 1 \in S
        <4>1. g + 1 \in 1..Depth /\ Above(0)[g + 1] = Above(0)[(g + 1) - 1] \div 2
          BY AboveIs, DepthAssumption
        <4> QED  BY <3>2, <4>1
      <3> HIDE DEF S
      <3>3. Depth \in Nat
        BY DepthAssumption
      <3>4. \A g \in 0..Depth : g \in S
        BY <3>1, <3>2, <3>3, InductTo
      <3> QED  BY <3>4 DEF S, Levels
    <2> QED  BY <1>1, <1>2, <1>3, <2>1 DEF Occupied
  <1>4. CASE n # 0
    <2>1. n - 1 \in Nat /\ (n - 1) + 1 = n
      BY <1>4
    <2>2. Above(n)[h] = Above(n - 1)[h] + 1 \/ Above(n)[h] = Above(n - 1)[h]
      BY <2>1, AboveNext
    <2>3. Occupied(n, h) = Above(n - 1)[h] + 1 /\ Above(n - 1)[h] \in Nat
      BY <1>4, <2>1, AboveNat DEF Occupied
    <2> QED  BY <1>1, <1>2, <2>2, <2>3
  <1> QED  BY <1>3, <1>4

-----------------------------------------------------------------------------
\* The reference tree.

\* Beyond the occupied nodes it is empty.
LEMMA NodeEmpty ==
  ASSUME NEW s, NEW n \in Nat, n = Len(s)
  PROVE  \A h \in Levels, i \in Nat : i >= Occupied(n, h) => NodeAt(s, h, i) = EmptyRoots[h]
  <1> DEFINE S == {h \in Nat : \A i \in Nat :
                                 i >= Occupied(n, h) => NodeAt(s, h, i) = EmptyRoots[h]}
  <1>1. 0 \in S
    <2>1. Occupied(n, 0) = n
      <3>1. n # 0 => Above(n - 1)[0] = n - 1
        BY AboveIs
      <3> QED  BY <3>1 DEF Occupied
    <2> QED  BY <2>1, NodeIs, EmptyRootsIs
  <1>2. ASSUME NEW h \in 0..Depth-1, h \in S PROVE h + 1 \in S
    <2> SUFFICES ASSUME NEW i \in Nat, i >= Occupied(n, h + 1)
                 PROVE  NodeAt(s, h + 1, i) = EmptyRoots[h + 1]
      OBVIOUS
    <2>0. h + 1 \in 1..Depth /\ (h + 1) - 1 = h
      BY DepthAssumption
    <2>1. 2 * i \in Nat /\ 2 * i + 1 \in Nat /\ Occupied(n, h) \in Nat
          /\ 2 * i >= Occupied(n, h) /\ 2 * i + 1 >= Occupied(n, h)
      <3>1. CASE n = 0
        BY <3>1 DEF Occupied
      <3>2. CASE n # 0
        <4>1. n - 1 \in Nat
          BY <3>2
        <4> DEFINE a == Above(n - 1)[h]
                   b == Above(n - 1)[h + 1]
        <4>2. a \in Nat /\ b \in Nat /\ (a = 2 * b \/ a = 2 * b + 1)
          BY <4>1, Parent
        <4>3. Occupied(n, h) = a + 1 /\ Occupied(n, h + 1) = b + 1
          BY <3>2 DEF Occupied
        <4> HIDE DEF a, b
        <4> QED  BY <4>2, <4>3
      <3> QED  BY <3>1, <3>2
    <2>2. NodeAt(s, h, 2 * i) = EmptyRoots[h] /\ NodeAt(s, h, 2 * i + 1) = EmptyRoots[h]
      BY <1>2, <2>1
    <2>3. NodeAt(s, h + 1, i) = NodeHash(NodeAt(s, h, 2 * i), NodeAt(s, h, 2 * i + 1))
      BY <2>0, NodeIs
    <2>4. EmptyRoots[h + 1] = NodeHash(EmptyRoots[h], EmptyRoots[h])
      BY <2>0, EmptyRootsIs
    <2> QED  BY <2>2, <2>3, <2>4
  <1> HIDE DEF S
  <1>3. Depth \in Nat
    BY DepthAssumption
  <1>4. \A h \in 0..Depth : h \in S
    BY <1>1, <1>2, <1>3, InductTo
  <1> QED  BY <1>4 DEF S, Levels

\* One more leaf changes its ancestors only.
LEMMA NodeKept ==
  ASSUME NEW s, NEW t, NEW n \in Nat, n = Len(s), Len(t) = n + 1,
         \A i \in 1..n : t[i] = s[i]
  PROVE  \A h \in Levels, i \in Nat : i # Above(n)[h] => NodeAt(t, h, i) = NodeAt(s, h, i)
  <1> DEFINE S == {h \in Nat : \A i \in Nat :
                                 i # Above(n)[h] => NodeAt(t, h, i) = NodeAt(s, h, i)}
  <1>1. 0 \in S
    <2> SUFFICES ASSUME NEW i \in Nat, i # Above(n)[0]
                 PROVE  NodeAt(t, 0, i) = NodeAt(s, 0, i)
      OBVIOUS
    <2>1. i # n
      BY AboveIs
    <2>2. NodeAt(t, 0, i) = IF i < n + 1 THEN t[i + 1] ELSE EmptyLeaf
      BY NodeIs
    <2>3. NodeAt(s, 0, i) = IF i < n THEN s[i + 1] ELSE EmptyLeaf
      BY NodeIs
    <2> QED  BY <2>1, <2>2, <2>3
  <1>2. ASSUME NEW h \in 0..Depth-1, h \in S PROVE h + 1 \in S
    <2> SUFFICES ASSUME NEW i \in Nat, i # Above(n)[h + 1]
                 PROVE  NodeAt(t, h + 1, i) = NodeAt(s, h + 1, i)
      OBVIOUS
    <2>0. h + 1 \in 1..Depth /\ (h + 1) - 1 = h
      BY DepthAssumption
    <2>1. 2 * i \in Nat /\ 2 * i + 1 \in Nat
          /\ 2 * i # Above(n)[h] /\ 2 * i + 1 # Above(n)[h]
      <3> DEFINE a == Above(n)[h]
                 b == Above(n)[h + 1]
      <3>1. a \in Nat /\ b \in Nat /\ (a = 2 * b \/ a = 2 * b + 1) /\ i # b
        BY Parent
      <3> HIDE DEF a, b
      <3>2. 2 * i # a /\ 2 * i + 1 # a
        BY <3>1
      <3> QED  BY <3>2 DEF a
    <2>2. /\ NodeAt(t, h, 2 * i) = NodeAt(s, h, 2 * i)
          /\ NodeAt(t, h, 2 * i + 1) = NodeAt(s, h, 2 * i + 1)
      BY <1>2, <2>1
    <2>3. NodeAt(s, h + 1, i) = NodeHash(NodeAt(s, h, 2 * i), NodeAt(s, h, 2 * i + 1))
      BY <2>0, NodeIs
    <2>4. NodeAt(t, h + 1, i) = NodeHash(NodeAt(t, h, 2 * i), NodeAt(t, h, 2 * i + 1))
      BY <2>0, NodeIs
    <2> QED  BY <2>2, <2>3, <2>4
  <1> HIDE DEF S
  <1>3. Depth \in Nat
    BY DepthAssumption
  <1>4. \A h \in 0..Depth : h \in S
    BY <1>1, <1>2, <1>3, InductTo
  <1> QED  BY <1>4 DEF S, Levels

\* An ancestor is the hash of the one below it and of its sibling.
LEMMA Upwards ==
  ASSUME NEW s, NEW index \in Nat, NEW h \in 0..Depth-1
  PROVE  LET a == Above(index)[h]
         IN NodeAt(s, h + 1, Above(index)[h + 1])
              = Step(IsLeft(index, h), NodeAt(s, h, a),
                     NodeAt(s, h, IF IsLeft(index, h) THEN a + 1 ELSE a - 1))
  <1> DEFINE a == Above(index)[h]
             b == Above(index)[h + 1]
  <1>0. h + 1 \in 1..Depth /\ (h + 1) - 1 = h
    BY DepthAssumption
  <1>1. /\ a \in Nat /\ b \in Nat
        /\ IsLeft(index, h) => a = 2 * b
        /\ ~IsLeft(index, h) => a = 2 * b + 1
    BY Parent
  <1>2. NodeAt(s, h + 1, b) = NodeHash(NodeAt(s, h, 2 * b), NodeAt(s, h, 2 * b + 1))
    BY <1>0, <1>1, NodeIs
  <1> HIDE DEF a, b
  <1>3. CASE IsLeft(index, h)
    BY <1>1, <1>2, <1>3 DEF Step, a, b
  <1>4. CASE ~IsLeft(index, h)
    <2>1. a - 1 = 2 * b /\ a = 2 * b + 1
      BY <1>1, <1>4
    <2> QED  BY <1>2, <1>4, <2>1 DEF Step, a, b
  <1> QED  BY <1>3, <1>4

\* Whoever climbs from the leaf with the siblings meets its ancestors.
LEMMA ClimbMeets ==
  ASSUME NEW s, NEW index \in Nat, NEW siblings, NEW leaf, leaf = NodeAt(s, 0, index),
         SiblingsAt(s, index, siblings)
  PROVE  \A h \in Levels :
           Climb(leaf, CircuitIndices(index), siblings)[h] = NodeAt(s, h, Above(index)[h])
  <1> DEFINE node == Climb(leaf, CircuitIndices(index), siblings)
             S == {h \in Nat : node[h] = NodeAt(s, h, Above(index)[h])}
  <1>1. 0 \in S
    BY ClimbIs, AboveIs
  <1>2. ASSUME NEW h \in 0..Depth-1, h \in S PROVE h + 1 \in S
    <2>0. h + 1 \in 1..Depth /\ (h + 1) - 1 = h
      BY DepthAssumption
    <2>1. node[h + 1] = Step(CircuitIndices(index)[h + 1], node[h], siblings[h + 1])
      BY <2>0, ClimbIs
    <2>2. CircuitIndices(index)[h + 1] = IsLeft(index, h)
      BY <2>0 DEF CircuitIndices
    <2>3. siblings[h + 1] = NodeAt(s, h, IF IsLeft(index, h) THEN Above(index)[h] + 1
                                                           ELSE Above(index)[h] - 1)
      BY <2>0 DEF SiblingsAt
    <2>4. node[h] = NodeAt(s, h, Above(index)[h])
      BY <1>2
    <2> HIDE DEF node
    <2>5. node[h + 1] = NodeAt(s, h + 1, Above(index)[h + 1])
      BY <2>1, <2>2, <2>3, <2>4, Upwards
    <2> QED  BY <2>5
  <1> HIDE DEF S
  <1>3. Depth \in Nat
    BY DepthAssumption
  <1>4. \A h \in 0..Depth : h \in S
    BY <1>1, <1>2, <1>3, InductTo
  <1> QED  BY <1>4 DEF S, Levels

\* Whoever climbs to the root has met them: a hash binds what it hashes.
LEMMA ClimbBinds ==
  ASSUME NEW s, NEW index \in Indices, NEW siblings, NEW leaf,
         Climb(leaf, CircuitIndices(index), siblings)[Depth] = NodeAt(s, Depth, 0)
  PROVE  leaf = NodeAt(s, 0, index)
  <1> DEFINE node == Climb(leaf, CircuitIndices(index), siblings)
             S == {k \in Nat : node[Depth - k] = NodeAt(s, Depth - k, Above(index)[Depth - k])}
  <1>0. Depth \in Nat /\ index \in Nat
    BY DepthAssumption, SizeNat
  <1>1. 0 \in S
    BY <1>0, AboveTop
  <1>2. ASSUME NEW k \in 0..Depth-1, k \in S PROVE k + 1 \in S
    <2>0. PICK h \in 0..Depth-1 : /\ h = Depth - (k + 1) /\ h + 1 = Depth - k
                                  /\ h + 1 \in 1..Depth /\ (h + 1) - 1 = h
      BY <1>0
    <2>1. node[h + 1] = Step(CircuitIndices(index)[h + 1], node[h], siblings[h + 1])
      BY <2>0, ClimbIs
    <2>2. CircuitIndices(index)[h + 1] = IsLeft(index, h)
      BY <2>0 DEF CircuitIndices
    <2>3. node[h + 1] = NodeAt(s, h + 1, Above(index)[h + 1])
      BY <1>2, <2>0
    <2> HIDE DEF node
    <2> DEFINE sibling == NodeAt(s, h, IF IsLeft(index, h) THEN Above(index)[h] + 1
                                                          ELSE Above(index)[h] - 1)
    <2>4. NodeAt(s, h + 1, Above(index)[h + 1])
            = Step(IsLeft(index, h), NodeAt(s, h, Above(index)[h]), sibling)
      BY <1>0, Upwards
    <2> HIDE DEF sibling
    <2>5. node[h] = NodeAt(s, h, Above(index)[h])
      BY <2>1, <2>2, <2>3, <2>4 DEF Step, NodeHash
    <2> QED  BY <2>0, <2>5
  <1> HIDE DEF S
  <1>3. \A k \in 0..Depth : k \in S
    BY <1>0, <1>1, <1>2, InductTo
  <1>4. Depth \in S
    BY <1>0, <1>3
  <1>5. node[0] = NodeAt(s, 0, Above(index)[0])
    <2>1. Depth - Depth = 0
      BY <1>0
    <2> QED  BY <1>4, <2>1 DEF S
  <1> QED  BY <1>5, ClimbIs, AboveIs

-----------------------------------------------------------------------------
\* Sequences.

\* Append keeps what was there and adds one element at the end.
LEMMA AppendFacts ==
  ASSUME NEW s, s \in Seq(Elements(s)), NEW e
  PROVE  LET t == Append(s, e)
         IN /\ t \in Seq(Elements(t))
            /\ Len(s) \in Nat
            /\ DOMAIN s = 1..Len(s)
            /\ Len(t) = Len(s) + 1
            /\ DOMAIN t = 1..(Len(s) + 1)
            /\ \A i \in 1..Len(s) : t[i] = s[i]
            /\ t[Len(s) + 1] = e
  <1> DEFINE t == Append(s, e)
             S == Elements(s) \cup {e}
  <1>1. s \in Seq(S) /\ e \in S
    BY DEF Elements
  <1>2. /\ t \in Seq(S)
        /\ Len(s) \in Nat
        /\ DOMAIN s = 1..Len(s)
        /\ Len(t) = Len(s) + 1
        /\ \A i \in 1..Len(s) : t[i] = s[i]
        /\ t[Len(s) + 1] = e
    <2> HIDE DEF S
    <2> QED  BY <1>1
  <1>3. DOMAIN t = 1..(Len(s) + 1)
    <2> HIDE DEF S, t
    <2> QED  BY <1>2
  <1>4. t \in Seq(Elements(t))
    <2> HIDE DEF S, t
    <2>1. \A i \in 1..Len(t) : t[i] \in Elements(t)
      BY <1>2, <1>3 DEF Elements
    <2> QED  BY <1>2, <2>1
  <1> QED  BY <1>2, <1>3, <1>4

\* The first leaves of a sequence.
LEMMA PrefixFacts ==
  ASSUME NEW s \in Seq(Leaves), NEW n \in 0..Len(s)
  PROVE  /\ SubSeq(s, 1, n) \in Seq(Leaves)
         /\ Len(SubSeq(s, 1, n)) = n
         /\ \A i \in 1..n : SubSeq(s, 1, n)[i] = s[i]
  <1>1. /\ 1 \in Int /\ n \in Int /\ \A i \in 1..n : s[i] \in Leaves
    BY ElementOfSeq, LenProperties
  <1>2. /\ SubSeq(s, 1, n) \in Seq(Leaves)
        /\ Len(SubSeq(s, 1, n)) = IF 1 <= n THEN n - 1 + 1 ELSE 0
        /\ \A i \in 1..n-1+1 : SubSeq(s, 1, n)[i] = s[1 + i - 1]
    BY <1>1, SubSeqProperties
  <1>3. n \in Nat
    BY LenProperties
  <1> QED  BY <1>2, <1>3

\* An append leaves them.
LEMMA PrefixKept ==
  ASSUME NEW s \in Seq(Leaves), NEW leaf \in Leaves
  PROVE  /\ \A n \in 0..Len(s) : SubSeq(Append(s, leaf), 1, n) = SubSeq(s, 1, n)
         /\ SubSeq(s, 1, Len(s)) = s
         /\ SubSeq(Append(s, leaf), 1, Len(s) + 1) = Append(s, leaf)
  <1> DEFINE t == Append(s, leaf)
  <1>1. /\ t \in Seq(Leaves) /\ Len(s) \in Nat /\ Len(t) = Len(s) + 1
        /\ \A i \in 1..Len(s) : t[i] = s[i]
    OBVIOUS
  <1> HIDE DEF t
  <1>2. ASSUME NEW n \in 0..Len(s)
        PROVE  SubSeq(t, 1, n) = SubSeq(s, 1, n)
    <2>1. /\ SubSeq(s, 1, n) \in Seq(Leaves)
          /\ Len(SubSeq(s, 1, n)) = n
          /\ \A i \in 1..n : SubSeq(s, 1, n)[i] = s[i]
      BY PrefixFacts
    <2>2. n \in 0..Len(t)
      BY <1>1
    <2>3. /\ SubSeq(t, 1, n) \in Seq(Leaves)
          /\ Len(SubSeq(t, 1, n)) = n
          /\ \A i \in 1..n : SubSeq(t, 1, n)[i] = t[i]
      BY <1>1, <2>2, PrefixFacts
    <2>4. \A i \in 1..n : SubSeq(t, 1, n)[i] = SubSeq(s, 1, n)[i]
      BY <1>1, <2>1, <2>3
    <2> QED  BY <2>1, <2>3, <2>4, SeqEqual
  <1>3. SubSeq(s, 1, Len(s)) = s
    BY SubSeqFull
  <1>4. SubSeq(t, 1, Len(s) + 1) = t
    BY <1>1, SubSeqFull
  <1> QED  BY <1>2, <1>3, <1>4 DEF t

\* The reference tree over one leaf more of a sequence.
LEMMA PrefixNodes ==
  ASSUME NEW s \in Seq(Leaves), NEW n \in 0..Len(s)-1
  PROVE  /\ \A h \in Levels, i \in Nat :
               i # Above(n)[h] =>
                 NodeAt(SubSeq(s, 1, n + 1), h, i) = NodeAt(SubSeq(s, 1, n), h, i)
         /\ \A h \in Levels, i \in Nat :
               i > Above(n)[h] => NodeAt(SubSeq(s, 1, n + 1), h, i) = EmptyRoots[h]
         /\ NodeAt(SubSeq(s, 1, n + 1), 0, n) = s[n + 1]
  <1> DEFINE a == SubSeq(s, 1, n)
             b == SubSeq(s, 1, n + 1)
  <1>1. /\ n \in Nat /\ n + 1 \in Nat /\ n = Len(a) /\ Len(b) = n + 1
        /\ \A i \in 1..n : a[i] = s[i]
        /\ \A i \in 1..n+1 : b[i] = s[i]
    <2>1. n \in 0..Len(s) /\ n + 1 \in 0..Len(s)
      BY LenProperties
    <2>2. Len(a) = n /\ \A i \in 1..n : a[i] = s[i]
      BY <2>1, PrefixFacts
    <2>3. Len(b) = n + 1 /\ \A i \in 1..n+1 : b[i] = s[i]
      BY <2>1, PrefixFacts
    <2> QED  BY <2>1, <2>2, <2>3
  <1> HIDE DEF a, b
  <1>2. \A h \in Levels, i \in Nat : i # Above(n)[h] => NodeAt(b, h, i) = NodeAt(a, h, i)
    <2>1. n \in Nat /\ n = Len(a) /\ Len(b) = n + 1
      BY <1>1
    <2>2. \A i \in 1..n : b[i] = a[i]
      BY <1>1
    <2> QED  BY <2>1, <2>2, NodeKept
  <1>3. \A h \in Levels, i \in Nat : i > Above(n)[h] => NodeAt(b, h, i) = EmptyRoots[h]
    <2> SUFFICES ASSUME NEW h \in Levels, NEW i \in Nat, i > Above(n)[h]
                 PROVE  NodeAt(b, h, i) = EmptyRoots[h]
      OBVIOUS
    <2>1. Occupied(n + 1, h) = Above(n)[h] + 1 /\ Above(n)[h] \in Nat
      BY <1>1, OccupiedNext
    <2>2. i >= Occupied(n + 1, h)
      BY <2>1
    <2>3. n + 1 \in Nat /\ n + 1 = Len(b)
      BY <1>1
    <2> QED  BY <2>2, <2>3, NodeEmpty
  <1>4. NodeAt(b, 0, n) = s[n + 1]
    <2>1. NodeAt(b, 0, n) = IF n < Len(b) THEN b[n + 1] ELSE EmptyLeaf
      BY <1>1, NodeIs
    <2> QED  BY <1>1, <2>1
  <1> QED  BY <1>2, <1>3, <1>4 DEF a, b

-----------------------------------------------------------------------------
\* The change of an append.

\* The first left level of an index is unique, and there is one: the root's.
LEMMA FirstLeftIs ==
  ASSUME NEW n \in Indices
  PROVE  \E first \in Levels :
           /\ FirstLeft(n, first)
           /\ \A h \in Levels : FirstLeft(n, h) => h = first
  <1> DEFINE S == {h \in Nat : \/ \E g \in 0..h : FirstLeft(n, g)
                              \/ \A g \in 0..h : ~IsLeft(n, g)}
  <1>0. Depth \in Nat
    BY DepthAssumption
  <1>1. 0 \in S
    BY DEF FirstLeft
  <1>2. ASSUME NEW h \in 0..Depth-1, h \in S PROVE h + 1 \in S
    <2>1. CASE \E g \in 0..h : FirstLeft(n, g)
      BY <2>1
    <2>2. CASE \A g \in 0..h : ~IsLeft(n, g)
      <3>1. CASE IsLeft(n, h + 1)
        <4>1. \A g \in 0..(h+1)-1 : ~IsLeft(n, g)
          BY <2>2
        <4>2. FirstLeft(n, h + 1)
          BY <3>1, <4>1 DEF FirstLeft
        <4> QED  BY <4>2
      <3>2. CASE ~IsLeft(n, h + 1)
        <4>1. \A g \in 0..h+1 : ~IsLeft(n, g)
          BY <2>2, <3>2
        <4> QED  BY <4>1
      <3> QED  BY <3>1, <3>2
    <2> QED  BY <1>2, <2>1, <2>2
  <1> HIDE DEF S
  <1>3. \A h \in 0..Depth : h \in S
    BY <1>0, <1>1, <1>2, InductTo
  <1>4. Depth \in S /\ IsLeft(n, Depth)
    BY <1>0, <1>3, AboveTop
  <1>5. PICK first \in 0..Depth : FirstLeft(n, first)
    BY <1>0, <1>4 DEF S
  <1>6. \A h \in Levels : FirstLeft(n, h) => h = first
    <2> SUFFICES ASSUME NEW h \in Levels, FirstLeft(n, h), h # first PROVE FALSE
      OBVIOUS
    <2>1. h \in 0..first-1 \/ first \in 0..h-1
      BY DEF Levels
    <2> QED  BY <1>5, <2>1 DEF FirstLeft
  <1> QED  BY <1>5, <1>6 DEF Levels

\* As ChangeAt spells it.
LEMMA ChangeIs ==
  ASSUME NEW n \in Indices, NEW s
  PROVE  \E first \in Levels :
           /\ FirstLeft(n, first)
           /\ \A h \in Levels : FirstLeft(n, h) => h = first
           /\ first = Depth =>
                ChangeAt(s, n) = <<Depth - 1, NodeAt(SubSeq(s, 1, n), Depth - 1, 0),
                                   NodeAt(SubSeq(s, 1, n + 1), Depth, 0)>>
           /\ first # Depth =>
                ChangeAt(s, n) = <<first, NodeAt(SubSeq(s, 1, n + 1), first, Above(n)[first]),
                                   NodeAt(SubSeq(s, 1, n + 1), Depth, 0)>>
  <1>1. PICK first \in Levels : /\ FirstLeft(n, first)
                               /\ \A h \in Levels : FirstLeft(n, h) => h = first
    BY FirstLeftIs
  <1>2. first = CHOOSE h \in Levels : FirstLeft(n, h)
    BY <1>1
  <1> QED  BY <1>1, <1>2 DEF ChangeAt, ChangeOver

\* An odd number and the next.
LEMMA OddNext ==
  ASSUME NEW x \in Nat, x % 2 # 0
  PROVE  (x + 1) % 2 = 0
  OBVIOUS

\* The kernel climbs to the ancestors of the new leaf.
LEMMA AscentMeets ==
  ASSUME NEW s \in Seq(Leaves), NEW leaf \in Leaves, Len(s) \in Indices,
         NEW front, Waits(front, s)
  PROVE  \A h \in Levels :
           Ascent(front, Len(s), leaf)[h] = NodeAt(Append(s, leaf), h, Above(Len(s))[h])
  <1> DEFINE t == Append(s, leaf)
             n == Len(s)
             siblings == [h \in 1..Depth |->
                            IF IsLeft(n, h - 1) THEN EmptyRoots[h - 1] ELSE front[h - 1]]
  <1>1. /\ t \in Seq(Leaves) /\ n \in Nat /\ Len(t) = n + 1
        /\ n \in 0..Len(t)-1 /\ t[n + 1] = leaf
    OBVIOUS
  <1>2. SubSeq(t, 1, n) = s /\ SubSeq(t, 1, n + 1) = t
    <2>1. n \in 0..Len(s)
      BY <1>1
    <2> QED  BY <2>1, PrefixKept
  <1>3. /\ \A h \in Levels, i \in Nat : i # Above(n)[h] => NodeAt(t, h, i) = NodeAt(s, h, i)
        /\ \A h \in Levels, i \in Nat : i > Above(n)[h] => NodeAt(t, h, i) = EmptyRoots[h]
        /\ NodeAt(t, 0, n) = leaf
    <2> HIDE DEF t, n
    <2>1. t \in Seq(Leaves) /\ n \in 0..Len(t)-1
      BY <1>1
    <2>2. /\ \A h \in Levels, i \in Nat :
               i # Above(n)[h] =>
                 NodeAt(SubSeq(t, 1, n + 1), h, i) = NodeAt(SubSeq(t, 1, n), h, i)
          /\ \A h \in Levels, i \in Nat :
               i > Above(n)[h] => NodeAt(SubSeq(t, 1, n + 1), h, i) = EmptyRoots[h]
          /\ NodeAt(SubSeq(t, 1, n + 1), 0, n) = t[n + 1]
      BY <2>1, PrefixNodes
    <2> QED  BY <1>1, <1>2, <2>2
  <1>4. SiblingsAt(t, n, siblings)
    <2> SUFFICES ASSUME NEW h \in 1..Depth
                 PROVE  siblings[h] = NodeAt(t, h - 1, IF IsLeft(n, h - 1)
                                                       THEN Above(n)[h - 1] + 1
                                                       ELSE Above(n)[h - 1] - 1)
      BY DEF SiblingsAt
    <2>1. PICK g \in 0..Depth-1 : g = h - 1 /\ g \in Levels
      BY DepthAssumption DEF Levels
    <2>2. /\ Above(n)[g] \in Nat
          /\ ~IsLeft(n, g) => Above(n)[g] = 2 * Above(n)[g + 1] + 1 /\ Above(n)[g + 1] \in Nat
      BY <1>1, Parent
    <2>3. CASE IsLeft(n, g)
      <3>1. siblings[h] = EmptyRoots[g]
        BY <2>1, <2>3
      <3>2. Above(n)[g] + 1 \in Nat /\ Above(n)[g] + 1 > Above(n)[g]
        BY <2>2
      <3>3. NodeAt(t, g, Above(n)[g] + 1) = EmptyRoots[g]
        BY <1>3, <2>1, <3>2
      <3> QED  BY <2>1, <2>3, <3>1, <3>3
    <2>4. CASE ~IsLeft(n, g)
      <3>1. siblings[h] = front[g]
        BY <2>1, <2>4
      <3>2. Above(n)[g] - 1 \in Nat /\ Above(n)[g] - 1 # Above(n)[g]
        BY <2>2, <2>4
      <3>3. NodeAt(t, g, Above(n)[g] - 1) = NodeAt(s, g, Above(n)[g] - 1)
        BY <1>3, <2>1, <3>2
      <3>4. front[g] = NodeAt(s, g, Above(n)[g] - 1)
        BY <2>1, <2>4 DEF Waits
      <3> QED  BY <2>1, <2>4, <3>1, <3>3, <3>4
    <2> QED  BY <2>3, <2>4
  <1>5. Ascent(front, n, leaf) = Climb(leaf, CircuitIndices(n), siblings)
    BY DEF Ascent, CircuitIndices
  <1> HIDE DEF t, n, siblings
  <1>6. \A h \in Levels :
          Climb(leaf, CircuitIndices(n), siblings)[h] = NodeAt(t, h, Above(n)[h])
    BY <1>1, <1>3, <1>4, ClimbMeets
  <1>7. \A h \in Levels : Ascent(front, n, leaf)[h] = NodeAt(t, h, Above(n)[h])
    BY <1>5, <1>6
  <1> QED  BY <1>7 DEF t, n

\* What it returns is the change, and the frontier with the changed slot waits
\* for the leaf after.
LEMMA KernelAppends ==
  ASSUME NEW s \in Seq(Leaves), NEW leaf \in Leaves, Len(s) \in Indices,
         NEW front, Waits(front, s), DOMAIN front = 0..Depth-1
  PROVE  LET result == FrontierAppend(front, Len(s), leaf)
         IN /\ result = ChangeAt(Append(s, leaf), Len(s))
            /\ Waits([front EXCEPT ![result[1]] = result[2]], Append(s, leaf))
  <1> DEFINE t == Append(s, leaf)
             n == Len(s)
             node == Ascent(front, n, leaf)
             left == {h \in 0..Depth-1 : IsLeft(n, h)}
             least == CHOOSE h \in left : \A g \in left : h <= g
             result == FrontierAppend(front, n, leaf)
             next == [front EXCEPT ![result[1]] = result[2]]
  <1>0. Depth \in Nat /\ Depth >= 1
    BY DepthAssumption
  <1>1. t \in Seq(Leaves) /\ n \in Nat /\ Len(t) = n + 1
    OBVIOUS
  <1>2. SubSeq(t, 1, n) = s /\ SubSeq(t, 1, n + 1) = t
    <2>1. n \in 0..Len(s)
      BY <1>1
    <2> QED  BY <2>1, PrefixKept
  <1>3. \A h \in Levels, i \in Nat : i # Above(n)[h] => NodeAt(t, h, i) = NodeAt(s, h, i)
    <2>1. t \in Seq(Leaves) /\ n \in 0..Len(t)-1
      BY <1>1
    <2> HIDE DEF t, n
    <2>2. \A h \in Levels, i \in Nat :
             i # Above(n)[h] =>
               NodeAt(SubSeq(t, 1, n + 1), h, i) = NodeAt(SubSeq(t, 1, n), h, i)
      BY <2>1, PrefixNodes
    <2> QED  BY <1>2, <2>2
  <1>4. \A h \in Levels : node[h] = NodeAt(t, h, Above(n)[h])
    BY AscentMeets
  <1>5. PICK first \in Levels :
          /\ FirstLeft(n, first)
          /\ \A h \in Levels : FirstLeft(n, h) => h = first
          /\ first = Depth =>
               ChangeAt(t, n) = <<Depth - 1, NodeAt(s, Depth - 1, 0), NodeAt(t, Depth, 0)>>
          /\ first # Depth =>
               ChangeAt(t, n) = <<first, NodeAt(t, first, Above(n)[first]), NodeAt(t, Depth, 0)>>
    BY <1>2, ChangeIs
  <1>6. Above(n)[Depth] = 0 /\ (~IsLeft(n, Depth - 1) => Above(n)[Depth - 1] = 1)
    BY AboveTop
  <1>7. node[Depth] = NodeAt(t, Depth, 0)
    BY <1>0, <1>4, <1>6 DEF Levels
  <1>8. result = IF left = {} THEN <<Depth - 1, front[Depth - 1], node[Depth]>>
                 ELSE <<least, node[least], node[Depth]>>
    BY DEF FrontierAppend
  <1>9. \A h \in 0..Depth-1 : /\ h \in Levels
                              /\ Above(n)[h] \in Nat
                              /\ ~IsLeft(n, h) => Above(n)[h] - 1 \in Nat
                              /\ ~IsLeft(n, h) => (Above(n)[h] + 1) % 2 = 0
    <2> SUFFICES ASSUME NEW h \in 0..Depth-1
                 PROVE  /\ h \in Levels
                        /\ Above(n)[h] \in Nat
                        /\ ~IsLeft(n, h) => Above(n)[h] - 1 \in Nat
                        /\ ~IsLeft(n, h) => (Above(n)[h] + 1) % 2 = 0
      OBVIOUS
    <2>1. h \in Levels
      BY <1>0 DEF Levels
    <2>2. /\ Above(n)[h] \in Nat /\ Above(n)[h + 1] \in Nat
          /\ ~IsLeft(n, h) => Above(n)[h] = 2 * Above(n)[h + 1] + 1
      BY <1>1, Parent
    <2>3. ~IsLeft(n, h) => (Above(n)[h] + 1) % 2 = 0
      BY <2>2, OddNext DEF IsLeft
    <2> QED  BY <2>1, <2>2, <2>3
  <1>10. \A h \in Levels : Above(n + 1)[h] = IF \A g \in 0..h-1 : ~IsLeft(n, g)
                                             THEN Above(n)[h] + 1 ELSE Above(n)[h]
    BY <1>1, AboveNext
  <1>11. CASE first = Depth
    <2>1. \A h \in 0..Depth-1 : ~IsLeft(n, h)
      BY <1>5, <1>11 DEF FirstLeft
    <2>2. left = {}
      BY <2>1
    <2>3. Depth - 1 \in 0..Depth-1 /\ Above(n)[Depth - 1] - 1 = 0
      BY <1>0, <1>6, <2>1
    <2>4. front[Depth - 1] = NodeAt(s, Depth - 1, 0)
      BY <2>1, <2>3 DEF Waits
    <2>5. result = ChangeAt(t, n)
      BY <1>5, <1>7, <1>8, <1>11, <2>2, <2>4
    <2>6. \A h \in 0..Depth-1 : IsLeft(n + 1, h)
      <3> SUFFICES ASSUME NEW h \in 0..Depth-1 PROVE IsLeft(n + 1, h)
        OBVIOUS
      <3>1. Above(n + 1)[h] = Above(n)[h] + 1
        <4>1. \A g \in 0..h-1 : ~IsLeft(n, g)
          BY <1>0, <2>1
        <4> QED  BY <1>9, <1>10, <4>1
      <3> QED  BY <1>9, <2>1, <3>1 DEF IsLeft
    <2>7. Waits(next, t)
      BY <1>1, <2>6 DEF Waits
    <2> QED  BY <2>5, <2>7
  <1>12. CASE first # Depth
    <2>1. /\ first \in 0..Depth-1 /\ first \in left
          /\ \A g \in left : first <= g
      BY <1>0, <1>5, <1>12 DEF FirstLeft, Levels
    <2>2. least = first
      <3>1. least \in left /\ \A g \in left : least <= g
        BY <2>1
      <3> HIDE DEF least
      <3> QED  BY <2>1, <3>1
    <2>3. result = <<first, node[first], node[Depth]>>
      BY <1>8, <2>1, <2>2
    <2>4. node[first] = NodeAt(t, first, Above(n)[first])
      BY <1>4
    <2>5. result = ChangeAt(t, n)
      BY <1>5, <1>7, <1>12, <2>3, <2>4
    <2>6. next = [front EXCEPT ![first] = node[first]]
      BY <2>3
    <2> HIDE DEF next, result, node, t
    <2>7. Waits(next, t)
      <3> SUFFICES ASSUME NEW h \in 0..Depth-1, ~IsLeft(n + 1, h)
                   PROVE  next[h] = NodeAt(t, h, Above(n + 1)[h] - 1)
        BY <1>1 DEF Waits
      <3>1. CASE \A g \in 0..h-1 : ~IsLeft(n, g)
        <4>1. Above(n + 1)[h] = Above(n)[h] + 1
          BY <1>9, <1>10, <3>1
        <4>2. IsLeft(n, h)
          BY <1>9, <4>1 DEF IsLeft
        <4>3. h = first
          BY <1>5, <1>9, <3>1, <4>2 DEF FirstLeft
        <4>4. next[h] = NodeAt(t, h, Above(n)[h])
          BY <2>4, <2>6, <4>3
        <4>5. Above(n + 1)[h] - 1 = Above(n)[h]
          BY <1>9, <4>1
        <4> QED  BY <4>4, <4>5
      <3>2. CASE ~ \A g \in 0..h-1 : ~IsLeft(n, g)
        <4>1. Above(n + 1)[h] = Above(n)[h]
          BY <1>9, <1>10, <3>2
        <4>2. ~IsLeft(n, h)
          BY <4>1 DEF IsLeft
        <4>3. h # first
          BY <1>5, <4>2 DEF FirstLeft
        <4>4. next[h] = front[h]
          BY <2>6, <4>3
        <4>5. front[h] = NodeAt(s, h, Above(n)[h] - 1)
          BY <4>2 DEF Waits
        <4>6. NodeAt(t, h, Above(n)[h] - 1) = NodeAt(s, h, Above(n)[h] - 1)
          BY <1>3, <1>9, <4>2
        <4> QED  BY <4>1, <4>4, <4>5, <4>6
      <3> QED  BY <3>1, <3>2
    <2> QED  BY <2>5, <2>7 DEF next, result, t
  <1>13. result = ChangeAt(t, n) /\ Waits(next, t)
    BY <1>11, <1>12
  <1> QED  BY <1>13

\* The changes before are those of the sequence without the new leaf.
LEMMA ChangeKept ==
  ASSUME NEW s \in Seq(Leaves), NEW leaf \in Leaves, NEW n \in 0..Len(s)-1
  PROVE  ChangeAt(Append(s, leaf), n) = ChangeAt(s, n)
  <1>1. n \in 0..Len(s) /\ n + 1 \in 0..Len(s)
    BY LenProperties
  <1>2. /\ SubSeq(Append(s, leaf), 1, n) = SubSeq(s, 1, n)
        /\ SubSeq(Append(s, leaf), 1, n + 1) = SubSeq(s, 1, n + 1)
    BY <1>1, PrefixKept
  <1> QED  BY <1>2 DEF ChangeAt

-----------------------------------------------------------------------------
\* The stored tree.

\* Replacing an element keeps the others.
LEMMA ExceptFacts ==
  ASSUME NEW s, s \in Seq(Elements(s)), NEW i \in 1..Len(s), NEW e
  PROVE  LET t == [s EXCEPT ![i] = e]
         IN /\ t \in Seq(Elements(t))
            /\ Len(t) = Len(s)
            /\ \A j \in 1..Len(s) : t[j] = IF j = i THEN e ELSE s[j]
  <1> DEFINE t == [s EXCEPT ![i] = e]
             S == Elements(s) \cup {e}
  <1>1. s \in Seq(S) /\ e \in S
    BY DEF Elements
  <1>2. /\ t \in Seq(S)
        /\ Len(t) = Len(s)
        /\ \A j \in 1..Len(s) : t[j] = IF j = i THEN e ELSE s[j]
    <2> HIDE DEF S
    <2> QED  BY <1>1, ExceptSeq
  <1>3. t \in Seq(Elements(t))
    <2> HIDE DEF S, t
    <2>1. Len(t) \in Nat /\ DOMAIN t = 1..Len(t)
      BY <1>2
    <2>2. \A j \in 1..Len(t) : t[j] \in Elements(t)
      BY <2>1 DEF Elements
    <2> QED  BY <1>2, <2>1, <2>2
  <1> QED  BY <1>2, <1>3

\* The numbers of leaves.
LEMMA Counts ==
  ASSUME IInv
  PROVE  /\ Stored \in Nat /\ Len(log) \in Nat
         /\ Stored <= Len(log) /\ Len(log) <= Size /\ Size \in Nat
         /\ Len(appends) = Len(log) /\ Len(returned) = Stored
         /\ Len(updates) \in Nat
         /\ Stored < Len(log) => Stored \in Indices
  <1>1. 0 \in Levels
    BY DepthAssumption DEF Levels
  <1>2. Stored \in Nat /\ Len(log) \in Nat /\ Len(updates) \in Nat
    BY <1>1 DEF IInv, ShapesOK, Stored
  <1>3. /\ Stored <= Len(log) /\ Len(log) <= Size
        /\ Len(appends) = Len(log) /\ Len(returned) = Stored
    BY DEF IInv, TypeOK
  <1>4. Size \in Nat
    BY SizeNat
  <1> QED  BY <1>2, <1>3, <1>4 DEF Indices

\* Looked up at any place, it is the reference tree, and so is its root.
LEMMA StoredFacts ==
  ASSUME IInv
  PROVE  /\ \A h \in Levels : /\ Len(levels[h]) = Occupied(Stored, h)
                              /\ Occupied(Stored, h) \in Nat
         /\ \A h \in Levels, i \in Nat : NodeOr(h, i) = NodeAt(Prefix(Stored), h, i)
         /\ Root = NodeAt(Prefix(Stored), Depth, 0)
  <1>1. /\ Stored \in Nat /\ Stored \in 0..Len(log) /\ log \in Seq(Leaves)
        /\ 0 \in Nat /\ Depth \in Levels
    BY Counts, DepthAssumption DEF IInv, ShapesOK, Levels
  <1>2. \A h \in Levels : /\ Len(levels[h]) = Occupied(Stored, h)
                          /\ Occupied(Stored, h) \in Nat
    BY <1>1, OccupiedNext DEF IInv, StoredNodesExact
  <1>3. Len(Prefix(Stored)) = Stored
    BY <1>1, PrefixFacts DEF Prefix
  <1>4. \A h \in Levels, i \in Nat :
          i >= Occupied(Stored, h) => NodeAt(Prefix(Stored), h, i) = EmptyRoots[h]
    BY <1>1, <1>3, NodeEmpty
  <1>5. \A h \in Levels, i \in Nat :
          i < Len(levels[h]) => levels[h][i + 1] = NodeAt(Prefix(Stored), h, i)
    <2> SUFFICES ASSUME NEW h \in Levels, NEW i \in Nat, i < Len(levels[h])
                 PROVE  levels[h][i + 1] = NodeAt(Prefix(Stored), h, i)
      OBVIOUS
    <2>1. i \in 0..Len(levels[h])-1
      BY <1>2
    <2> QED  BY <2>1 DEF IInv, StoredNodesExact
  <1>6. \A h \in Levels, i \in Nat : NodeOr(h, i) = NodeAt(Prefix(Stored), h, i)
    BY <1>2, <1>4, <1>5 DEF NodeOr
  <1>7. Root = NodeAt(Prefix(Stored), Depth, 0)
    <2>1. levels[Depth] \in Seq(Elements(levels[Depth]))
      BY <1>1 DEF IInv, ShapesOK
    <2>2. CASE levels[Depth] = <<>>
      <3>1. Occupied(Stored, Depth) = 0
        BY <1>1, <1>2, <2>2
      <3> QED  BY <1>1, <1>4, <2>2, <3>1 DEF Root
    <2>3. CASE levels[Depth] # <<>>
      <3>1. 0 < Len(levels[Depth])
        BY <2>1, <2>3, EmptySeq
      <3>2. levels[Depth][0 + 1] = NodeAt(Prefix(Stored), Depth, 0)
        BY <1>1, <1>5, <3>1
      <3> QED  BY <2>3, <3>2 DEF Root
    <2> QED  BY <2>2, <2>3
  <1> QED  BY <1>2, <1>6, <1>7

\* The reference tree over the next leaf too.
LEMMA NextNodes ==
  ASSUME IInv, Stored < Len(log)
  PROVE  /\ \A h \in Levels, i \in Nat :
               i # Above(Stored)[h] =>
                 NodeAt(Prefix(Stored + 1), h, i) = NodeAt(Prefix(Stored), h, i)
         /\ \A h \in Levels, i \in Nat :
               i > Above(Stored)[h] => NodeAt(Prefix(Stored + 1), h, i) = EmptyRoots[h]
         /\ NodeAt(Prefix(Stored + 1), 0, Stored) = log[Stored + 1]
  <1>1. log \in Seq(Leaves) /\ Stored \in 0..Len(log)-1
    BY Counts DEF IInv, ShapesOK
  <1> QED  BY <1>1, PrefixNodes DEF Prefix

\* The nodes hashed give the change the kernel has returned.
LEMMA ChangeReported ==
  ASSUME IInv, Stored < Len(log),
         \A h \in Levels : updates[h + 1] = NodeAt(Prefix(Stored + 1), h, Above(Stored)[h])
  PROVE  Change(Stored, updates) = ChangeAt(log, Stored)
  <1>1. Stored \in Indices /\ Stored \in Nat
    BY Counts
  <1>2. PICK first \in Levels :
          /\ FirstLeft(Stored, first)
          /\ \A h \in Levels : FirstLeft(Stored, h) => h = first
          /\ first = Depth =>
               ChangeAt(log, Stored) = <<Depth - 1, NodeAt(Prefix(Stored), Depth - 1, 0),
                                         NodeAt(Prefix(Stored + 1), Depth, 0)>>
          /\ first # Depth =>
               ChangeAt(log, Stored)
                 = <<first, NodeAt(Prefix(Stored + 1), first, Above(Stored)[first]),
                     NodeAt(Prefix(Stored + 1), Depth, 0)>>
    BY <1>1, ChangeIs DEF Prefix
  <1>3. first = CHOOSE h \in Levels : IsLeft(Stored, h) /\ \A g \in 0..h-1 : ~IsLeft(Stored, g)
    BY <1>2 DEF FirstLeft
  <1>4. Depth \in Levels /\ Depth - 1 \in Levels /\ Depth - 1 \in 0..Depth-1
    BY DepthAssumption DEF Levels
  <1>5. updates[Depth + 1] = NodeAt(Prefix(Stored + 1), Depth, 0)
    BY <1>1, <1>4, AboveTop
  <1>6. CASE first = Depth
    <2>1. Above(Stored)[Depth - 1] = 1
      BY <1>1, <1>2, <1>4, <1>6, AboveTop DEF FirstLeft
    <2>2. 0 \in 0..Len(levels[Depth - 1])-1
      <3>1. /\ Above(Stored)[Depth - 1] = Occupied(Stored, Depth - 1)
                 \/ Above(Stored)[Depth - 1] = Occupied(Stored, Depth - 1) - 1
            /\ Occupied(Stored, Depth - 1) \in Nat
        BY <1>1, <1>4, OccupiedNext
      <3>2. Len(levels[Depth - 1]) = Occupied(Stored, Depth - 1)
        BY <1>4, StoredFacts
      <3> QED  BY <2>1, <3>1, <3>2
    <2>3. levels[Depth - 1][0 + 1] = NodeAt(Prefix(Stored), Depth - 1, 0)
      BY <1>4, <2>2 DEF IInv, StoredNodesExact
    <2>4. Change(Stored, updates) = <<Depth - 1, levels[Depth - 1][1], updates[Depth + 1]>>
      BY <1>3, <1>6 DEF Change
    <2> QED  BY <1>2, <1>5, <1>6, <2>3, <2>4
  <1>7. CASE first # Depth
    <2>1. Change(Stored, updates) = <<first, updates[first + 1], updates[Depth + 1]>>
      BY <1>3, <1>7 DEF Change
    <2> QED  BY <1>2, <1>5, <1>7, <2>1
  <1> QED  BY <1>6, <1>7

-----------------------------------------------------------------------------
\* The invariant is inductive.

LEMMA InitInv == Init => IInv
  <1> SUFFICES ASSUME Init PROVE IInv
    OBVIOUS
  <1>1. Depth \in Nat /\ 0 \in Levels /\ Size \in Nat
    BY DepthAssumption, SizeNat DEF Levels
  <1>2. Stored = 0 /\ Len(log) = 0
    BY <1>1 DEF Init, Stored
  <1>3. ShapesOK
    BY DEF Init, ShapesOK
  <1>4. TypeOK
    BY <1>1, <1>2 DEF Init, TypeOK
  <1>5. StoredNodesExact
    BY <1>2 DEF Init, StoredNodesExact, Occupied
  <1>6. FrontierOK
    <2> SUFFICES ASSUME NEW h \in 0..Depth-1, ~IsLeft(0, h) PROVE FALSE
      BY <1>2 DEF FrontierOK, Waits
    <2>1. h \in Levels
      BY <1>1 DEF Levels
    <2>2. /\ Above(0)[h] = Occupied(0, h) \/ Above(0)[h] = Occupied(0, h) - 1
          /\ Above(0)[h] \in Nat
      BY <2>1, OccupiedNext
    <2>3. Above(0)[h] = 0
      BY <2>2 DEF Occupied
    <2> QED  BY <2>3 DEF IsLeft
  <1>7. AppendsOK /\ ReturnedOK /\ UpdatesOK /\ \A p \in paths : PathOK(p)
    BY DEF Init, AppendsOK, ReturnedOK, UpdatesOK
  <1> QED  BY <1>3, <1>4, <1>5, <1>6, <1>7 DEF IInv

\* A leaf appended to the contract leaves the wallet as it was, and the tree over
\* the leaves before.
LEMMA ContractAppendInv ==
  ASSUME IInv, NEW leaf \in Leaves, ContractAppend(leaf)
  PROVE  IInv'
  <1> DEFINE result == FrontierAppend(frontier, Len(log), leaf)
             n == Len(log)
  <1>1. /\ n < Size /\ log' = Append(log, leaf)
        /\ frontier' = [frontier EXCEPT ![result[1]] = result[2]]
        /\ appends' = Append(appends, result)
        /\ levels' = levels /\ updates' = updates
        /\ returned' = returned /\ paths' = paths
    BY DEF ContractAppend
  <1>2. /\ log \in Seq(Leaves) /\ n \in Nat /\ n \in Indices /\ Stored \in Nat
        /\ Stored <= n /\ Size \in Nat /\ Len(appends) = n /\ Len(returned) = Stored
    BY <1>1, Counts DEF IInv, ShapesOK, Indices
  <1>3. log' \in Seq(Leaves) /\ Len(log') = n + 1 /\ \A i \in 1..n : log'[i] = log[i]
    BY <1>1, <1>2
  <1>4. Stored' = Stored
    BY <1>1 DEF Stored
  <1>5. \A k \in 0..n : Prefix(k)' = Prefix(k)
    BY <1>1, <1>2, PrefixKept DEF Prefix
  <1>6. result = ChangeAt(log', n) /\ Waits(frontier', log')
    <2>1. Waits(frontier, log) /\ DOMAIN frontier = 0..Depth-1
      BY DEF IInv, FrontierOK, ShapesOK
    <2> QED  BY <1>1, <1>2, <2>1, KernelAppends
  <1> HIDE DEF result, n
  <1>7. /\ appends' \in Seq(Elements(appends')) /\ Len(appends') = n + 1
        /\ \A i \in 1..n : appends'[i] = appends[i]
        /\ appends'[n + 1] = result
    <2>1. appends \in Seq(Elements(appends))
      BY DEF IInv, ShapesOK
    <2> QED  BY <1>1, <1>2, <2>1, AppendFacts
  <1>8. \A k \in 0..n-1 : ChangeAt(log', k) = ChangeAt(log, k)
    BY <1>1, <1>2, ChangeKept DEF n
  <1>9. ShapesOK'
    BY <1>1, <1>3, <1>7 DEF IInv, ShapesOK
  <1>10. TypeOK'
    <2>1. /\ Len(updates) <= Depth + 1
          /\ \A p \in paths : p.leaf \in Leaves /\ p.index < p.size
      BY DEF IInv, TypeOK
    <2> QED  BY <1>1, <1>2, <1>3, <1>4, <1>7, <2>1 DEF TypeOK
  <1>11. StoredNodesExact'
    <2>1. Prefix(Stored)' = Prefix(Stored)
      BY <1>2, <1>4, <1>5
    <2> QED  BY <1>1, <1>4, <2>1 DEF IInv, StoredNodesExact
  <1>12. FrontierOK'
    BY <1>6 DEF FrontierOK
  <1>13. AppendsOK'
    <2> SUFFICES ASSUME NEW k \in 1..n+1 PROVE appends'[k] = ChangeAt(log', k - 1)
      BY <1>7 DEF AppendsOK
    <2>1. CASE k = n + 1
      BY <1>2, <1>6, <1>7, <2>1
    <2>2. CASE k # n + 1
      <3>1. k \in 1..n /\ k - 1 \in 0..n-1
        BY <1>2, <2>2
      <3>2. appends[k] = ChangeAt(log, k - 1)
        BY <1>2, <3>1 DEF IInv, AppendsOK
      <3> QED  BY <1>7, <1>8, <3>1, <3>2
    <2> QED  BY <2>1, <2>2
  <1>14. ReturnedOK'
    <2> SUFFICES ASSUME NEW k \in 1..Len(returned) PROVE returned[k] = ChangeAt(log', k - 1)
      BY <1>1 DEF ReturnedOK
    <2>1. k - 1 \in 0..n-1
      BY <1>2
    <2> QED  BY <1>8, <2>1 DEF IInv, ReturnedOK
  <1>15. UpdatesOK'
    <2> SUFFICES ASSUME updates # <<>>
                 PROVE  /\ Stored < n + 1
                        /\ Len(updates) \in 1..Depth+1
                        /\ \A h \in 0..Len(updates)-1 :
                             updates[h + 1] = NodeAt(Prefix(Stored + 1)', h, Above(Stored)[h])
      BY <1>1, <1>3, <1>4 DEF UpdatesOK
    <2>1. Stored < n
      BY DEF IInv, UpdatesOK, n
    <2>2. Prefix(Stored + 1)' = Prefix(Stored + 1)
      <3>1. Stored + 1 \in 0..n
        BY <1>2, <2>1
      <3> QED  BY <1>4, <1>5, <3>1
    <2> QED  BY <1>2, <2>1, <2>2 DEF IInv, UpdatesOK
  <1>16. \A p \in paths' : PathOK(p)'
    <2> SUFFICES ASSUME NEW p \in paths PROVE PathOK(p)'
      BY <1>1
    <2>1. PathOK(p)
      BY DEF IInv
    <2>2. p.size \in 0..n /\ p.index + 1 \in 1..n
      BY <1>2, <2>1 DEF PathOK
    <2> QED  BY <1>3, <1>4, <1>5, <2>1, <2>2 DEF PathOK
  <1> QED  BY <1>9, <1>10, <1>11, <1>12, <1>13, <1>14, <1>15, <1>16 DEF IInv

\* What an append that has not stored its nodes leaves alone.
LEMMA HashingInv ==
  ASSUME IInv, UNCHANGED <<log, frontier, appends, levels, returned, paths>>,
         updates' \in Seq(Elements(updates')), Len(updates') <= Depth + 1, UpdatesOK'
  PROVE  IInv'
  <1>1. Stored' = Stored /\ \A n : Prefix(n)' = Prefix(n)
    BY DEF Stored, Prefix
  <1>2. ShapesOK'
    BY DEF IInv, ShapesOK
  <1>3. TypeOK'
    BY <1>1 DEF IInv, TypeOK
  <1>4. StoredNodesExact'
    BY <1>1 DEF IInv, StoredNodesExact
  <1>5. FrontierOK' /\ AppendsOK' /\ ReturnedOK'
    BY DEF IInv, FrontierOK, AppendsOK, ReturnedOK
  <1>6. \A p \in paths' : PathOK(p)'
    BY <1>1 DEF IInv, PathOK
  <1> QED  BY <1>2, <1>3, <1>4, <1>5, <1>6 DEF IInv

\* The first node hashed is the leaf.
LEMMA BeginAppendInv ==
  ASSUME IInv, BeginAppend
  PROVE  IInv'
  <1>1. /\ Stored < Len(log) /\ updates' = <<log[Stored + 1]>>
        /\ UNCHANGED <<log, frontier, appends, levels, returned, paths>>
    BY DEF BeginAppend
  <1>2. Stored' = Stored /\ \A n : Prefix(n)' = Prefix(n)
    BY <1>1 DEF Stored, Prefix
  <1>3. Depth \in Nat /\ Depth >= 1
    BY DepthAssumption
  <1>4. /\ updates' \in Seq(Elements(updates')) /\ Len(updates') = 1
        /\ updates'[1] = log[Stored + 1]
    BY <1>1 DEF Elements
  <1>5. NodeAt(Prefix(Stored + 1), 0, Above(Stored)[0]) = log[Stored + 1]
    BY <1>1, NextNodes, AboveIs
  <1>6. UpdatesOK'
    <2>1. \A h \in 0..Len(updates')-1 :
            updates'[h + 1] = NodeAt(Prefix(Stored + 1), h, Above(Stored)[h])
      <3> SUFFICES ASSUME NEW h \in 0..0
                   PROVE  updates'[h + 1] = NodeAt(Prefix(Stored + 1), h, Above(Stored)[h])
        BY <1>4
      <3>1. h = 0
        OBVIOUS
      <3> QED  BY <1>4, <1>5, <3>1
    <2>2. Prefix(Stored + 1)' = Prefix(Stored + 1)
      BY <1>1, <1>2 DEF Prefix
    <2>3. Len(log') = Len(log) /\ Len(updates') \in 1..Depth+1
      BY <1>1, <1>3, <1>4
    <2> QED  BY <1>1, <1>2, <2>1, <2>2, <2>3 DEF UpdatesOK
  <1>7. Len(updates') <= Depth + 1
    BY <1>3, <1>4
  <1> QED  BY <1>1, <1>4, <1>6, <1>7, HashingInv

\* The next node hashed is the next ancestor.
LEMMA HashLevelInv ==
  ASSUME IInv, HashLevel
  PROVE  IInv'
  <1> DEFINE level == Len(updates) - 1
             position == Above(Stored)[level]
             current == updates[level + 1]
             hashed == IF position % 2 = 0 THEN NodeHash(current, EmptyRoots[level])
                                           ELSE NodeHash(levels[level][position], current)
             t == Prefix(Stored + 1)
  <1>1. /\ Len(updates) \in 1..Depth /\ updates' = Append(updates, hashed)
        /\ UNCHANGED <<log, frontier, appends, levels, returned, paths>>
    BY DEF HashLevel
  <1>2. Stored' = Stored /\ Prefix(Stored + 1)' = Prefix(Stored + 1)
    BY <1>1 DEF Stored, Prefix
  <1>3. updates \in Seq(Elements(updates)) /\ updates # <<>>
    BY <1>1 DEF IInv, ShapesOK
  <1>4. /\ Stored < Len(log)
        /\ \A h \in 0..Len(updates)-1 : updates[h + 1] = NodeAt(t, h, Above(Stored)[h])
    BY <1>3 DEF IInv, UpdatesOK
  <1>5. /\ level \in 0..Depth-1 /\ level \in Levels /\ level + 1 = Len(updates)
        /\ Stored \in Nat
    BY <1>1, Counts, DepthAssumption DEF Levels
  <1>6. /\ updates' \in Seq(Elements(updates')) /\ Len(updates') = Len(updates) + 1
        /\ \A i \in 1..Len(updates) : updates'[i] = updates[i]
        /\ updates'[Len(updates) + 1] = hashed
    BY <1>1, <1>3, AppendFacts
  <1>7. hashed = NodeAt(t, level + 1, Above(Stored)[level + 1])
    <2>1. current = NodeAt(t, level, position)
      BY <1>4, <1>5
    <2>2. NodeAt(t, level + 1, Above(Stored)[level + 1])
            = Step(IsLeft(Stored, level), NodeAt(t, level, position),
                   NodeAt(t, level, IF IsLeft(Stored, level) THEN position + 1
                                                             ELSE position - 1))
      BY <1>5, Upwards
    <2>3. /\ position \in Nat
          /\ ~IsLeft(Stored, level) => position - 1 \in Nat
      <3>1. /\ Above(Stored)[level] \in Nat /\ Above(Stored)[level + 1] \in Nat
            /\ ~IsLeft(Stored, level) => Above(Stored)[level] = 2 * Above(Stored)[level + 1] + 1
        BY <1>5, Parent
      <3> QED  BY <3>1
    <2>4. IsLeft(Stored, level) <=> position % 2 = 0
      BY DEF IsLeft
    <2>5. CASE IsLeft(Stored, level)
      <3>1. position + 1 \in Nat /\ position + 1 > position
        BY <2>3
      <3>2. NodeAt(t, level, position + 1) = EmptyRoots[level]
        BY <1>4, <1>5, <3>1, NextNodes
      <3>3. hashed = NodeHash(current, EmptyRoots[level])
        BY <2>4, <2>5
      <3> HIDE DEF level, position, current, hashed, t
      <3> QED  BY <2>1, <2>2, <2>5, <3>2, <3>3 DEF Step
    <2>6. CASE ~IsLeft(Stored, level)
      <3>1. position - 1 \in Nat /\ position - 1 # position
        BY <2>3, <2>6
      <3>2. NodeAt(t, level, position - 1) = NodeAt(Prefix(Stored), level, position - 1)
        BY <1>4, <1>5, <3>1, NextNodes
      <3>3. position - 1 \in 0..Len(levels[level])-1
        <4>1. /\ position = Occupied(Stored, level) \/ position = Occupied(Stored, level) - 1
              /\ Occupied(Stored, level) \in Nat
          BY <1>5, OccupiedNext
        <4>2. Len(levels[level]) = Occupied(Stored, level)
          BY <1>5, StoredFacts
        <4> QED  BY <3>1, <4>1, <4>2
      <3>4. levels[level][(position - 1) + 1] = NodeAt(Prefix(Stored), level, position - 1)
        BY <1>5, <3>3 DEF IInv, StoredNodesExact
      <3>5. (position - 1) + 1 = position
        BY <2>3
      <3>6. hashed = NodeHash(levels[level][position], current)
        BY <2>4, <2>6
      <3> HIDE DEF level, position, current, hashed, t
      <3> QED  BY <2>1, <2>2, <2>6, <3>2, <3>4, <3>5, <3>6 DEF Step
    <2> QED  BY <2>5, <2>6
  <1>8. UpdatesOK'
    <2>1. ASSUME NEW h \in 0..Len(updates)
          PROVE  updates'[h + 1] = NodeAt(t, h, Above(Stored)[h])
      <3>1. CASE h = Len(updates)
        BY <1>5, <1>6, <1>7, <3>1
      <3>2. CASE h # Len(updates)
        <4>1. h \in 0..Len(updates)-1 /\ h + 1 \in 1..Len(updates)
          BY <1>1, <3>2
        <4> QED  BY <1>4, <1>6, <4>1
      <3> QED  BY <3>1, <3>2
    <2>0. Len(updates) \in 1..Depth /\ Len(updates') = Len(updates) + 1
      BY <1>1, <1>6
    <2>2. Len(updates') - 1 = Len(updates) /\ Len(updates') \in 1..Depth+1
      BY <2>0, DepthAssumption
    <2>3. \A h \in 0..Len(updates')-1 : updates'[h + 1] = NodeAt(t, h, Above(Stored)[h])
      BY <2>1, <2>2
    <2>4. Stored < Len(log')
      BY <1>1, <1>4
    <2> QED  BY <1>2, <2>2, <2>3, <2>4 DEF UpdatesOK
  <1>9. Len(updates') <= Depth + 1
    BY <1>1, <1>6, DepthAssumption
  <1> QED  BY <1>1, <1>6, <1>8, <1>9, HashingInv

\* A hash that fails leaves nothing behind.
LEMMA HashFailsInv ==
  ASSUME IInv, HashFails
  PROVE  IInv'
  <1>1. updates' = <<>> /\ UNCHANGED <<log, frontier, appends, levels, returned, paths>>
    BY DEF HashFails
  <1>2. updates' \in Seq(Elements(updates')) /\ Len(updates') = 0
    BY <1>1
  <1>3. UpdatesOK' /\ Len(updates') <= Depth + 1
    BY <1>1, <1>2, DepthAssumption DEF UpdatesOK
  <1> QED  BY <1>1, <1>2, <1>3, HashingInv

\* The ancestors of the new leaf are stored, each at the end of its level or over
\* the last node there.
LEMMA StoreNodesInv ==
  ASSUME IInv, StoreNodes
  PROVE  IInv'
  <1> DEFINE n == Stored
             Row(h) == IF Above(n)[h] = Len(levels[h])
                       THEN Append(levels[h], updates[h + 1])
                       ELSE [levels[h] EXCEPT ![Above(n)[h] + 1] = updates[h + 1]]
  <1>1. /\ Len(updates) = Depth + 1
        /\ levels' = [h \in Levels |-> Row(h)]
        /\ returned' = Append(returned, Change(n, updates))
        /\ updates' = <<>>
        /\ UNCHANGED <<log, frontier, appends, paths>>
    BY DEF StoreNodes
  <1>2. Depth \in Nat /\ 0 \in Levels
    BY DepthAssumption DEF Levels
  <1>3. updates # <<>>
    BY <1>1, <1>2
  <1>4. /\ n < Len(log)
        /\ \A h \in Levels : updates[h + 1] = NodeAt(Prefix(n + 1), h, Above(n)[h])
    BY <1>1, <1>2, <1>3 DEF IInv, UpdatesOK, Levels
  <1>5. /\ n \in Nat /\ n \in Indices /\ Len(log) \in Nat /\ Len(log) <= Size
        /\ Size \in Nat /\ Len(appends) = Len(log) /\ Len(returned) = n
    BY <1>4, Counts
  <1>6. Change(n, updates) = ChangeAt(log, n)
    BY <1>4, ChangeReported
  <1> HIDE DEF n
  <1>7. ASSUME NEW h \in Levels
        PROVE  /\ Row(h) \in Seq(Elements(Row(h)))
               /\ Len(Row(h)) = Above(n)[h] + 1
               /\ \A i \in 0..Above(n)[h] : Row(h)[i + 1] = NodeAt(Prefix(n + 1), h, i)
    <2> DEFINE a == Above(n)[h]
               row == levels[h]
               new == updates[h + 1]
    <2>1. /\ row \in Seq(Elements(row)) /\ Len(row) \in Nat /\ a \in Nat
          /\ a = Len(row) \/ a = Len(row) - 1
      <3>1. row \in Seq(Elements(row))
        BY DEF IInv, ShapesOK
      <3>2. Len(row) = Occupied(n, h)
        BY StoredFacts DEF n
      <3>3. /\ a \in Nat /\ Occupied(n, h) \in Nat
            /\ a = Occupied(n, h) \/ a = Occupied(n, h) - 1
        BY <1>5, OccupiedNext
      <3> QED  BY <3>1, <3>2, <3>3
    <2>2. new = NodeAt(Prefix(n + 1), h, a)
      BY <1>4
    <2>3. \A i \in 0..a-1 : row[i + 1] = NodeAt(Prefix(n + 1), h, i)
      <3> SUFFICES ASSUME NEW i \in 0..a-1
                   PROVE  row[i + 1] = NodeAt(Prefix(n + 1), h, i)
        OBVIOUS
      <3>1. i \in Nat /\ i # a /\ i \in 0..Len(row)-1
        BY <2>1
      <3>2. row[i + 1] = NodeAt(Prefix(n), h, i)
        BY <3>1 DEF IInv, StoredNodesExact, n
      <3>3. NodeAt(Prefix(n + 1), h, i) = NodeAt(Prefix(n), h, i)
        BY <1>4, <3>1, NextNodes DEF n
      <3> QED  BY <3>2, <3>3
    <2>4. CASE a = Len(row)
      <3>1. Row(h) = Append(row, new)
        BY <2>4
      <3> HIDE DEF Row, a, row, new
      <3>2. /\ Row(h) \in Seq(Elements(Row(h))) /\ Len(Row(h)) = Len(row) + 1
            /\ \A i \in 1..Len(row) : Row(h)[i] = row[i]
            /\ Row(h)[Len(row) + 1] = new
        BY <2>1, <3>1, AppendFacts
      <3>3. ASSUME NEW i \in 0..a PROVE Row(h)[i + 1] = NodeAt(Prefix(n + 1), h, i)
        <4>1. CASE i = a
          BY <2>2, <2>4, <3>2, <4>1
        <4>2. CASE i # a
          <5>1. i \in 0..a-1 /\ i + 1 \in 1..Len(row)
            BY <2>1, <2>4, <4>2
          <5> QED  BY <2>3, <3>2, <5>1
        <4> QED  BY <4>1, <4>2
      <3> QED  BY <2>4, <3>2, <3>3 DEF a
    <2>5. CASE a # Len(row)
      <3>1. Row(h) = [row EXCEPT ![a + 1] = new]
        BY <2>5
      <3>2. a + 1 \in 1..Len(row) /\ Len(row) = a + 1
        BY <2>1, <2>5
      <3> HIDE DEF Row, a, row, new
      <3>3. /\ Row(h) \in Seq(Elements(Row(h))) /\ Len(Row(h)) = Len(row)
            /\ \A j \in 1..Len(row) : Row(h)[j] = IF j = a + 1 THEN new ELSE row[j]
        <4>1. row \in Seq(Elements(row)) /\ a + 1 \in 1..Len(row)
          BY <2>1, <3>2
        <4>2. /\ [row EXCEPT ![a + 1] = new] \in Seq(Elements([row EXCEPT ![a + 1] = new]))
              /\ Len([row EXCEPT ![a + 1] = new]) = Len(row)
              /\ \A j \in 1..Len(row) :
                   [row EXCEPT ![a + 1] = new][j] = IF j = a + 1 THEN new ELSE row[j]
          BY <4>1, ExceptFacts
        <4> QED  BY <3>1, <4>2
      <3>4. ASSUME NEW i \in 0..a PROVE Row(h)[i + 1] = NodeAt(Prefix(n + 1), h, i)
        <4>1. i + 1 \in 1..Len(row) /\ (i + 1 = a + 1 <=> i = a)
          BY <2>1, <3>2
        <4>2. CASE i = a
          BY <2>2, <3>3, <4>1, <4>2
        <4>3. CASE i # a
          <5>1. i \in 0..a-1
            BY <2>1, <4>3
          <5> QED  BY <2>3, <3>3, <4>1, <4>3, <5>1
        <4> QED  BY <4>2, <4>3
      <3> QED  BY <3>2, <3>3, <3>4 DEF a
    <2> QED  BY <2>4, <2>5
  <1> HIDE DEF Row
  <1>8. \A h \in Levels : levels'[h] = Row(h)
    BY <1>1
  <1>9. Stored' = n + 1
    <2>1. Stored' = Len(Row(0))
      BY <1>2, <1>8 DEF Stored
    <2> QED  BY <1>2, <1>7, <2>1, AboveIs
  <1>10. /\ returned' \in Seq(Elements(returned')) /\ Len(returned') = n + 1
         /\ \A i \in 1..n : returned'[i] = returned[i]
         /\ returned'[n + 1] = ChangeAt(log, n)
    <2>1. returned \in Seq(Elements(returned))
      BY DEF IInv, ShapesOK
    <2> QED  BY <1>1, <1>5, <1>6, <2>1, AppendFacts
  <1>11. \A k : Prefix(k)' = Prefix(k)
    BY <1>1 DEF Prefix
  <1>12. ShapesOK'
    <2>1. \A h \in Levels : levels'[h] \in Seq(Elements(levels'[h]))
      BY <1>7, <1>8
    <2>2. updates' \in Seq(Elements(updates'))
      BY <1>1
    <2> QED  BY <1>1, <1>10, <2>1, <2>2 DEF IInv, ShapesOK
  <1>13. TypeOK'
    <2>1. /\ log \in Seq(Leaves)
          /\ \A p \in paths : p.leaf \in Leaves /\ p.index < p.size
      BY DEF IInv, TypeOK
    <2>2. Len(updates') = 0
      BY <1>1
    <2> QED  BY <1>1, <1>2, <1>4, <1>5, <1>9, <1>10, <2>1, <2>2 DEF TypeOK
  <1>14. StoredNodesExact'
    <2> SUFFICES ASSUME NEW h \in Levels
                 PROVE  /\ Len(levels'[h]) = Occupied(n + 1, h)
                        /\ \A i \in 0..Len(levels'[h])-1 :
                             levels'[h][i + 1] = NodeAt(Prefix(Stored)', h, i)
      BY <1>9 DEF StoredNodesExact
    <2>1. Occupied(n + 1, h) = Above(n)[h] + 1 /\ Above(n)[h] \in Nat
      BY <1>5, OccupiedNext
    <2>2. Prefix(Stored)' = Prefix(n + 1)
      BY <1>1, <1>9 DEF Prefix
    <2> QED  BY <1>7, <1>8, <2>1, <2>2
  <1>15. FrontierOK' /\ AppendsOK'
    BY <1>1 DEF IInv, FrontierOK, AppendsOK
  <1>16. ReturnedOK'
    <2> SUFFICES ASSUME NEW k \in 1..n+1 PROVE returned'[k] = ChangeAt(log, k - 1)
      BY <1>1, <1>10 DEF ReturnedOK
    <2>1. CASE k = n + 1
      BY <1>5, <1>10, <2>1
    <2>2. CASE k # n + 1
      <3>1. k \in 1..n
        BY <1>5, <2>2
      <3> QED  BY <1>5, <1>10, <3>1 DEF IInv, ReturnedOK
    <2> QED  BY <2>1, <2>2
  <1>17. UpdatesOK'
    BY <1>1 DEF UpdatesOK
  <1>18. \A p \in paths' : PathOK(p)'
    <2> SUFFICES ASSUME NEW p \in paths PROVE PathOK(p)'
      BY <1>1
    <2>1. PathOK(p) /\ p.size \in 1..n+1
      BY <1>5 DEF IInv, PathOK, n
    <2> QED  BY <1>1, <1>9, <1>11, <2>1 DEF PathOK
  <1> QED  BY <1>12, <1>13, <1>14, <1>15, <1>16, <1>17, <1>18 DEF IInv

\* A path is one of the tree it was taken from, and the root was the contract's.
LEMMA CaptureInv ==
  ASSUME IInv, NEW index \in Indices, Capture(index)
  PROVE  IInv'
  <1> DEFINE path == [leaf     |-> levels[0][index + 1],
                      index    |-> index,
                      siblings |-> InclusionPath(index),
                      root     |-> Root,
                      size     |-> Stored]
  <1>1. /\ index < Stored
        /\ paths' = paths \cup {path}
        /\ UNCHANGED <<log, frontier, appends, levels, updates, returned>>
    BY DEF Capture
  <1>2. /\ Stored' = Stored /\ Stored \in Nat /\ index \in Nat /\ 0 \in Levels
        /\ log \in Seq(Leaves) /\ Stored <= Len(log) /\ Len(log) \in Nat
    <2>1. Stored' = Stored
      BY <1>1 DEF Stored
    <2>2. index \in Nat /\ 0 \in Levels /\ log \in Seq(Leaves)
      BY SizeNat, DepthAssumption DEF IInv, ShapesOK, Levels
    <2> QED  BY <2>1, <2>2, Counts
  <1>3. \A k : Prefix(k)' = Prefix(k)
    BY <1>1 DEF Prefix
  <1>4. levels[0][index + 1] = log[index + 1]
    <2>1. levels[0][index + 1] = NodeAt(Prefix(Stored), 0, index)
      <3>1. index \in 0..Len(levels[0])-1
        BY <1>1, <1>2 DEF Stored
      <3> QED  BY <1>2, <3>1 DEF IInv, StoredNodesExact
    <2>2. /\ Len(Prefix(Stored)) = Stored
          /\ \A i \in 1..Stored : Prefix(Stored)[i] = log[i]
      <3>1. Stored \in 0..Len(log)
        BY <1>2
      <3> QED  BY <1>2, <3>1, PrefixFacts DEF Prefix
    <2>3. NodeAt(Prefix(Stored), 0, index)
            = IF index < Len(Prefix(Stored)) THEN Prefix(Stored)[index + 1] ELSE EmptyLeaf
      BY <1>2, NodeIs
    <2>4. index + 1 \in 1..Stored
      BY <1>1, <1>2
    <2> QED  BY <1>1, <2>1, <2>2, <2>3, <2>4
  <1>5. SiblingsAt(Prefix(Stored), index, InclusionPath(index))
    <2> SUFFICES ASSUME NEW h \in 1..Depth
                 PROVE  InclusionPath(index)[h]
                          = NodeAt(Prefix(Stored), h - 1,
                                   IF IsLeft(index, h - 1) THEN Above(index)[h - 1] + 1
                                                           ELSE Above(index)[h - 1] - 1)
      BY DEF SiblingsAt
    <2> DEFINE position == Above(index)[h - 1]
               sibling == IF position % 2 = 0 THEN position + 1 ELSE position - 1
    <2>1. InclusionPath(index)[h] = NodeOr(h - 1, sibling)
      BY DEF InclusionPath
    <2>2. h - 1 \in 0..Depth-1 /\ h - 1 \in Levels
      BY DepthAssumption DEF Levels
    <2>3. IsLeft(index, h - 1) <=> position % 2 = 0
      BY DEF IsLeft
    <2>4. sibling \in Nat
      <3>1. /\ Above(index)[h - 1] \in Nat /\ Above(index)[(h - 1) + 1] \in Nat
            /\ ~IsLeft(index, h - 1) => Above(index)[h - 1] = 2 * Above(index)[(h - 1) + 1] + 1
        BY <1>2, <2>2, Parent
      <3>2. ~IsLeft(index, h - 1) => position - 1 \in Nat
        BY <3>1
      <3> QED  BY <2>3, <3>1, <3>2
    <2>5. NodeOr(h - 1, sibling) = NodeAt(Prefix(Stored), h - 1, sibling)
      <3> HIDE DEF sibling
      <3> QED  BY <2>2, <2>4, StoredFacts
    <2> QED  BY <2>1, <2>3, <2>5
  <1>6. Root = NodeAt(Prefix(Stored), Depth, 0)
    BY StoredFacts
  <1>7. log[index + 1] \in Leaves
    <2>1. index + 1 \in 1..Len(log)
      BY <1>1, <1>2
    <2> QED  BY <1>2, <2>1, ElementOfSeq
  <1>8. PathOK(path)
    BY <1>1, <1>2, <1>4, <1>5, <1>6 DEF PathOK
  <1>9. path.leaf \in Leaves /\ path.index < path.size
    BY <1>1, <1>4, <1>7
  <1> HIDE DEF path
  <1>10. ShapesOK'
    BY <1>1 DEF IInv, ShapesOK
  <1>11. TypeOK'
    BY <1>1, <1>2, <1>9 DEF IInv, TypeOK
  <1>12. StoredNodesExact'
    BY <1>1, <1>2, <1>3 DEF IInv, StoredNodesExact
  <1>13. FrontierOK' /\ AppendsOK' /\ ReturnedOK'
    BY <1>1 DEF IInv, FrontierOK, AppendsOK, ReturnedOK
  <1>14. UpdatesOK'
    BY <1>1, <1>2, <1>3 DEF IInv, UpdatesOK, Prefix
  <1>15. \A p \in paths' : PathOK(p)'
    <2> SUFFICES ASSUME NEW p \in paths' PROVE PathOK(p)'
      OBVIOUS
    <2>1. PathOK(p)
      BY <1>1, <1>8 DEF IInv
    <2> QED  BY <1>1, <1>2, <1>3, <2>1 DEF PathOK
  <1> QED  BY <1>10, <1>11, <1>12, <1>13, <1>14, <1>15 DEF IInv

LEMMA StepInv == IInv /\ [Next]_vars => IInv'
  <1> SUFFICES ASSUME IInv, [Next]_vars PROVE IInv'
    OBVIOUS
  <1>1. ASSUME NEW leaf \in Leaves, ContractAppend(leaf) PROVE IInv'
    BY <1>1, ContractAppendInv
  <1>2. CASE BeginAppend
    BY <1>2, BeginAppendInv
  <1>3. CASE HashLevel
    BY <1>3, HashLevelInv
  <1>4. CASE HashFails
    BY <1>4, HashFailsInv
  <1>5. CASE StoreNodes
    BY <1>5, StoreNodesInv
  <1>6. ASSUME NEW index \in Indices, Capture(index) PROVE IInv'
    BY <1>6, CaptureInv
  <1>7. CASE UNCHANGED vars
    <2>1. UNCHANGED <<log, frontier, appends, levels, updates, returned, paths>>
      BY <1>7 DEF vars
    <2>2. /\ updates' \in Seq(Elements(updates')) /\ Len(updates') <= Depth + 1
          /\ UpdatesOK'
      BY <2>1 DEF IInv, ShapesOK, TypeOK, UpdatesOK, Stored, Prefix
    <2> QED  BY <2>1, <2>2, HashingInv
  <1> QED  BY <1>1, <1>2, <1>3, <1>4, <1>5, <1>6, <1>7 DEF Next

\* The inductive invariant holds in every state of frontier_append and
\* Imt::append, at any depth.
THEOREM Inductive == Spec => []IInv
  BY InitInv, StepInv, PTL DEF Spec

-----------------------------------------------------------------------------
\* What follows from it.

\* The types; the wallet never holds more leaves than the contract, and has
\* reported one change (Imt::append's result) for each it holds.
THEOREM TypeCorrect == Spec => []TypeOK
  <1>1. IInv => TypeOK
    BY DEF IInv
  <1> QED  BY <1>1, Inductive, PTL

\* Wherever and however often Imt::append fails, the nodes stored are those of
\* the reference tree over the leaves stored, no more and no fewer.
THEOREM Exact == Spec => []StoredNodesExact
  <1>1. IInv => StoredNodesExact
    BY DEF IInv
  <1> QED  BY <1>1, Inductive, PTL

\* The third part of a change is the root.
LEMMA ChangeRoot ==
  ASSUME NEW s, NEW n
  PROVE  ChangeAt(s, n)[3] = NodeAt(SubSeq(s, 1, n + 1), Depth, 0)
  BY DEF ChangeAt, ChangeOver

\* The contract's entries and their roots.
LEMMA AppendsFacts ==
  ASSUME IInv
  PROVE  /\ DOMAIN appends = 1..Len(appends) /\ Len(appends) = Len(log)
         /\ \A n \in 1..Len(appends) : appends[n][3] = NodeAt(Prefix(n), Depth, 0)
  <1>1. DOMAIN appends = 1..Len(appends) /\ Len(appends) = Len(log)
    BY LenProperties DEF IInv, ShapesOK, TypeOK
  <1>2. ASSUME NEW n \in 1..Len(appends)
        PROVE  appends[n][3] = NodeAt(Prefix(n), Depth, 0)
    <2>1. appends[n] = ChangeAt(log, n - 1)
      BY DEF IInv, AppendsOK
    <2>2. (n - 1) + 1 = n
      BY Counts
    <2> QED  BY <2>1, <2>2, ChangeRoot DEF Prefix
  <1> QED  BY <1>1, <1>2

\* The root frontier_append returns, from one stored node per level, is the root
\* of the reference tree over all the leaves appended.
THEOREM RootExact == Spec => []FrontierRootExact
  <1>1. IInv => FrontierRootExact
    BY AppendsFacts DEF FrontierRootExact
  <1> QED  BY <1>1, Inductive, PTL

\* Imt::append and frontier_append report the same change for each leaf.
THEOREM Agreement == Spec => []AppendsAgree
  <1>1. ASSUME IInv PROVE AppendsAgree
    <2> DEFINE part == SubSeq(appends, 1, Stored)
               S == Elements(appends) \cup Elements(returned)
    <2>1. /\ Stored \in Nat /\ Stored <= Len(appends) /\ Len(appends) \in Nat
          /\ Len(returned) = Stored
      BY <1>1, Counts
    <2>2. /\ appends \in Seq(S) /\ returned \in Seq(S)
      BY <1>1 DEF IInv, ShapesOK
    <2> HIDE DEF S
    <2>3. part \in Seq(S) /\ Len(part) = Stored /\ \A i \in 1..Stored : part[i] = appends[i]
      <3>1. 1 \in Int /\ Stored \in Int /\ \A i \in 1..Stored : appends[i] \in S
        BY <2>1, <2>2
      <3>2. /\ part \in Seq(S)
            /\ Len(part) = IF 1 <= Stored THEN Stored - 1 + 1 ELSE 0
            /\ \A i \in 1..Stored-1+1 : part[i] = appends[1 + i - 1]
        BY <3>1, SubSeqProperties
      <3> QED  BY <2>1, <3>2
    <2>4. \A i \in 1..Stored : returned[i] = part[i]
      BY <1>1, <2>1, <2>3 DEF IInv, AppendsOK, ReturnedOK
    <2> HIDE DEF part
    <2>5. returned = part
      BY <2>1, <2>2, <2>3, <2>4, SeqEqual
    <2> QED  BY <2>5 DEF part, AppendsAgree
  <1> QED  BY <1>1, Inductive, PTL

\* An inclusion path taken at any time resolves in the circuit to the root the
\* contract had when it held as many leaves.
THEOREM Verifies == Spec => []PathsVerify
  <1>1. ASSUME IInv PROVE PathsVerify
    <2> SUFFICES ASSUME NEW p \in paths
                 PROVE  /\ MerkleRoot(p.leaf, p.index, p.siblings) = p.root
                        /\ p.root = appends[p.size][3]
      BY DEF PathsVerify
    <2>1. /\ p.size \in 1..Stored /\ p.index \in 0..p.size-1
          /\ p.leaf = log[p.index + 1]
          /\ SiblingsAt(Prefix(p.size), p.index, p.siblings)
          /\ p.root = NodeAt(Prefix(p.size), Depth, 0)
      BY <1>1 DEF IInv, PathOK
    <2>2. /\ Stored \in Nat /\ Len(log) \in Nat /\ Stored <= Len(log)
          /\ Len(log) <= Size /\ Size \in Nat /\ Len(appends) = Len(log)
          /\ log \in Seq(Leaves)
      BY <1>1, Counts DEF IInv, ShapesOK
    <2>3. /\ p.index \in Nat /\ p.index \in Indices /\ p.index + 1 \in 1..p.size
          /\ p.size \in 0..Len(log) /\ p.size \in 1..Len(appends)
      BY <2>1, <2>2 DEF Indices
    <2>4. p.leaf = NodeAt(Prefix(p.size), 0, p.index)
      <3>1. /\ Len(Prefix(p.size)) = p.size
            /\ \A i \in 1..p.size : Prefix(p.size)[i] = log[i]
        BY <2>2, <2>3, PrefixFacts DEF Prefix
      <3>2. NodeAt(Prefix(p.size), 0, p.index)
              = IF p.index < Len(Prefix(p.size)) THEN Prefix(p.size)[p.index + 1] ELSE EmptyLeaf
        BY <2>3, NodeIs
      <3> QED  BY <2>1, <2>3, <3>1, <3>2
    <2>5. \A h \in Levels : Climb(p.leaf, CircuitIndices(p.index), p.siblings)[h]
                              = NodeAt(Prefix(p.size), h, Above(p.index)[h])
      BY <2>1, <2>3, <2>4, ClimbMeets
    <2>6. Depth \in Levels /\ Above(p.index)[Depth] = 0
      BY <2>3, AboveTop, DepthAssumption DEF Levels
    <2>7. MerkleRoot(p.leaf, p.index, p.siblings) = p.root
      BY <2>1, <2>5, <2>6 DEF MerkleRoot
    <2>8. p.root = appends[p.size][3]
      BY <1>1, <2>1, <2>3, AppendsFacts
    <2> QED  BY <2>7, <2>8
  <1> QED  BY <1>1, Inductive, PTL

\* The root the contract and a wallet that has caught up share opens, at each
\* index and with whatever siblings, to the leaf there and to no other.
RootBinds ==
  Stored = Len(log) =>
    \A index \in Indices, leaf \in Leaves : \A siblings :
      MerkleRoot(leaf, index, siblings) = Root =>
        index < Len(log) /\ log[index + 1] = leaf

\* It holds for siblings that are no nodes of any tree: merkle_root binds the
\* leaf, not the path.
THEOREM Binds == Spec => []RootBinds
  <1>1. ASSUME IInv PROVE RootBinds
    <2> SUFFICES ASSUME Stored = Len(log), NEW index \in Indices, NEW leaf \in Leaves,
                        NEW siblings, MerkleRoot(leaf, index, siblings) = Root
                 PROVE  index < Len(log) /\ log[index + 1] = leaf
      BY DEF RootBinds
    <2>1. /\ log \in Seq(Leaves) /\ index \in Nat
      BY <1>1, SizeNat DEF IInv, ShapesOK
    <2>2. Prefix(Stored) = log
      BY <2>1, SubSeqFull DEF Prefix
    <2>3. Climb(leaf, CircuitIndices(index), siblings)[Depth] = NodeAt(log, Depth, 0)
      BY <1>1, <2>2, StoredFacts DEF MerkleRoot
    <2>4. leaf = NodeAt(log, 0, index)
      BY <2>3, ClimbBinds
    <2>5. NodeAt(log, 0, index) = IF index < Len(log) THEN log[index + 1] ELSE EmptyLeaf
      BY <2>1, NodeIs
    <2> QED  BY <2>4, <2>5, EmptyAssumption
  <1> QED  BY <1>1, Inductive, PTL

\* What Opens of the pools' proofs takes for granted, with the nodes of the tree
\* as siblings.
THEOREM Binding == Spec => []OpeningBinds
  <1>1. ASSUME IInv, RootBinds PROVE OpeningBinds
    <2>1. returned = appends => Stored = Len(log)
      BY <1>1, Counts
    <2> QED  BY <1>1, <2>1 DEF OpeningBinds, RootBinds
  <1> QED  BY <1>1, Inductive, Binds, PTL
=============================================================================
