-------------------------------- MODULE Imt --------------------------------
(***************************************************************************)
(* The incremental Merkle tree, held twice: by a contract that keeps only  *)
(* a frontier and calls the stateless kernel `frontier_append`, and by a   *)
(* wallet that replays the contract's leaves into an `Imt` and takes       *)
(* membership paths from it, while it lags behind and while hashing may    *)
(* fail.  The paths are resolved by the circuits' `merkle_root`.           *)
(***************************************************************************)
EXTENDS Integers, Sequences, FiniteSets

CONSTANTS
  Depth,       \* tree depth, 32 in the pools
  Leaves,      \* leaf values
  EmptyLeaf,   \* the value of an empty slot
  Unset,       \* a frontier slot that was never written
  MaxPaths     \* bound: paths captured

ASSUME DepthAssumption == Depth \in 1..63
ASSUME EmptyAssumption == EmptyLeaf \notin Leaves

VARIABLES
  log,         \* leaves of the contract's tree, in order
  frontier,    \* the contract's frontier: the waiting left subtree per level
  appends,     \* what frontier_append returned, one per leaf
  levels,      \* the wallet's Imt: occupied nodes by level
  updates,     \* nodes hashed so far by the Imt::append in progress; <<>> if none
  returned,    \* what Imt::append returned, one per leaf
  paths        \* paths the wallet captured, with the leaf and the root then

vars == <<log, frontier, appends, levels, updates, returned, paths>>

Levels == 0..Depth

\* 1 << h
Width ==
  LET width[h \in Levels] == IF h = 0 THEN 1 ELSE 2 * width[h - 1]
  IN width

Size    == Width[Depth]
Indices == 0..Size-1

\* index >> h: where the ancestor of the leaf at `index` is at each level.
Above(index) ==
  LET up[h \in Levels] == IF h = 0 THEN index ELSE up[h - 1] \div 2
  IN up

IsLeft(index, level) == Above(index)[level] % 2 = 0

\* Poseidon2([domain, left, right]) as a term: equal only for equal children.
NodeHash(left, right) == <<left, right>>

EmptyRoots ==
  LET root[h \in Levels] ==
        IF h = 0 THEN EmptyLeaf ELSE NodeHash(root[h - 1], root[h - 1])
  IN root

\* The nodes hashed on the way up from `leaf`, on the left where onLeft says so.
Climb(leaf, onLeft, siblings) ==
  LET node[h \in Levels] ==
        IF h = 0 THEN leaf
        ELSE IF onLeft[h] THEN NodeHash(node[h - 1], siblings[h])
                          ELSE NodeHash(siblings[h], node[h - 1])
  IN node

-----------------------------------------------------------------------------
\* The stateless kernel.

\* The node above the new leaf at each level: a left child is paired with the
\* empty subtree, a right child with the left sibling that waits.
Ascent(front, index, leaf) ==
  Climb(leaf,
        [h \in 1..Depth |-> IsLeft(index, h - 1)],
        [h \in 1..Depth |->
           IF IsLeft(index, h - 1) THEN EmptyRoots[h - 1] ELSE front[h - 1]])

\* Mutant: the last level with a left child is recorded, not the first.
LastChange(front, index, leaf) ==
  LET node == Ascent(front, index, leaf)
      left == {h \in 0..Depth-1 : IsLeft(index, h)}
      top  == CHOOSE h \in left : \A g \in left : g <= h
  IN IF left = {} THEN <<Depth - 1, front[Depth - 1], node[Depth]>>
     ELSE <<top, node[top], node[Depth]>>

\* <<changed_level, new_subtree, new_root>>.
FrontierAppend(front, index, leaf) ==
  LET node  == Ascent(front, index, leaf)
      left  == {h \in 0..Depth-1 : IsLeft(index, h)}
      first == CHOOSE h \in left : \A g \in left : h <= g
  IN IF left = {} THEN <<Depth - 1, front[Depth - 1], node[Depth]>>
     ELSE <<first, node[first], node[Depth]>>

\* The contract stores the one changed slot.
ContractAppend(leaf) ==
  /\ Len(log) < Size
  /\ LET result == FrontierAppend(frontier, Len(log), leaf)
     IN /\ frontier' = [frontier EXCEPT ![result[1]] = result[2]]
        /\ appends'  = Append(appends, result)
  /\ log' = Append(log, leaf)
  /\ UNCHANGED <<levels, updates, returned, paths>>

-----------------------------------------------------------------------------
\* The stored tree.

Stored == Len(levels[0])
Root   == IF levels[Depth] = <<>> THEN EmptyRoots[Depth] ELSE levels[Depth][1]

NodeOr(level, index) ==
  IF index < Len(levels[level]) THEN levels[level][index + 1] ELSE EmptyRoots[level]

\* Imt::append is called with the next leaf of the contract.
BeginAppend ==
  /\ updates = <<>>
  /\ Stored < Len(log)
  /\ updates' = <<log[Stored + 1]>>
  /\ UNCHANGED <<log, frontier, appends, levels, returned, paths>>

\* It hashes one level up...
HashLevel ==
  /\ Len(updates) \in 1..Depth
  /\ LET level    == Len(updates) - 1
         position == Above(Stored)[level]
         current  == updates[level + 1]
     IN updates' = Append(updates,
                     IF position % 2 = 0
                     THEN NodeHash(current, EmptyRoots[level])
                     ELSE NodeHash(levels[level][position], current))
  /\ UNCHANGED <<log, frontier, appends, levels, returned, paths>>

\* Mutant: the nodes hashed so far have been stored already.
HashFailsLate ==
  /\ Len(updates) \in 1..Depth
  /\ levels' = [h \in Levels |->
       IF h < Len(updates) /\ Above(Stored)[h] = Len(levels[h])
       THEN Append(levels[h], updates[h + 1]) ELSE levels[h]]
  /\ updates' = <<>>
  /\ UNCHANGED <<log, frontier, appends, returned, paths>>

\* ... or returns the error of the hash.
HashFails ==
  /\ Len(updates) \in 1..Depth
  /\ updates' = <<>>
  /\ UNCHANGED <<log, frontier, appends, levels, returned, paths>>

\* Mutant: the changed level of a tree-completing append is not special.
ChangeUncapped(index, nodes) ==
  LET ones == CHOOSE h \in Levels : /\ IsLeft(index, h)
                                    /\ \A g \in 0..h-1 : ~IsLeft(index, g)
  IN <<ones, nodes[ones + 1], nodes[Depth + 1]>>

\* The change a frontier would see: the level is index.trailing_ones().
Change(index, nodes) ==
  LET ones == CHOOSE h \in Levels : /\ IsLeft(index, h)
                                    /\ \A g \in 0..h-1 : ~IsLeft(index, g)
  IN IF ones = Depth
     THEN <<Depth - 1, levels[Depth - 1][1], nodes[Depth + 1]>>
     ELSE <<ones, nodes[ones + 1], nodes[Depth + 1]>>

\* Hashing is over: the nodes are stored, which cannot fail.
StoreNodes ==
  /\ Len(updates) = Depth + 1
  /\ levels' = [h \in Levels |->
       LET position == Above(Stored)[h]
       IN IF position = Len(levels[h])
          THEN Append(levels[h], updates[h + 1])
          ELSE [levels[h] EXCEPT ![position + 1] = updates[h + 1]]]
  /\ returned' = Append(returned, Change(Stored, updates))
  /\ updates'  = <<>>
  /\ UNCHANGED <<log, frontier, appends, paths>>

\* Mutant: the path holds the nodes themselves, not their siblings.
OwnNodes(index) == [h \in 1..Depth |-> NodeOr(h - 1, Above(index)[h - 1])]

\* The stored siblings, bottom-up: index ^ 1 at each level.
InclusionPath(index) ==
  [h \in 1..Depth |->
     LET position == Above(index)[h - 1]
     IN NodeOr(h - 1, IF position % 2 = 0 THEN position + 1 ELSE position - 1)]

\* A borrow of the tree: not during an append.
Capture(index) ==
  /\ updates = <<>>
  /\ index < Stored
  /\ Cardinality(paths) < MaxPaths
  /\ paths' = paths \cup {[leaf     |-> levels[0][index + 1],
                           index    |-> index,
                           siblings |-> InclusionPath(index),
                           root     |-> Root,
                           size     |-> Stored]}
  /\ UNCHANGED <<log, frontier, appends, levels, updates, returned>>

-----------------------------------------------------------------------------
\* Mutant: the top bit of the index is not constrained.
TopBitFree(index) == [h \in 1..Depth |-> h = Depth \/ IsLeft(index, h - 1)]

\* The circuit: `true` places the current node on the left.
CircuitIndices(index) == [h \in 1..Depth |-> IsLeft(index, h - 1)]

MerkleRoot(leaf, index, siblings) ==
  Climb(leaf, CircuitIndices(index), siblings)[Depth]

-----------------------------------------------------------------------------
Init ==
  /\ log      = <<>>
  /\ frontier = [h \in 0..Depth-1 |-> Unset]
  /\ appends  = <<>>
  /\ levels   = [h \in Levels |-> <<>>]
  /\ updates  = <<>>
  /\ returned = <<>>
  /\ paths    = {}

Next ==
  \/ \E leaf \in Leaves : ContractAppend(leaf)
  \/ BeginAppend
  \/ HashLevel
  \/ HashFails
  \/ StoreNodes
  \/ \E index \in Indices : Capture(index)

Spec == Init /\ [][Next]_vars

-----------------------------------------------------------------------------
(***************************************************************************)
(* Properties.                                                             *)
(***************************************************************************)

\* The reference: the full tree over `s`, row by row; all slots after `s` are
\* empty.
FullTree(s) ==
  LET row[h \in Levels] ==
        IF h = 0 THEN [i \in Nat |-> IF i < Len(s) THEN s[i + 1] ELSE EmptyLeaf]
        ELSE [i \in Nat |-> NodeHash(row[h - 1][2 * i], row[h - 1][2 * i + 1])]
  IN row

NodeAt(s, level, index) == FullTree(s)[level][index]

Prefix(n) == SubSeq(log, 1, n)

\* The types; the wallet never holds more than the contract, and has reported
\* one change per leaf it holds.
TypeOK ==
  /\ log \in Seq(Leaves)
  /\ Len(appends) = Len(log)
  /\ Stored <= Len(log) /\ Len(log) <= Size
  /\ Len(returned) = Stored
  /\ Len(updates) <= Depth + 1
  /\ \A p \in paths : p.leaf \in Leaves /\ p.index < p.size

\* How many nodes of a level have one of the first n leaves below them.
Occupied(n, level) == IF n = 0 THEN 0 ELSE Above(n - 1)[level] + 1

\* The stored nodes are those of the reference tree over the leaves stored so
\* far, and nothing else is stored, also after a hash has failed anywhere: a
\* stale ancestor would poison every path taken later.
StoredNodesExact ==
  \A h \in Levels :
    /\ Len(levels[h]) = Occupied(Stored, h)
    /\ \A i \in 0..Len(levels[h])-1 : levels[h][i + 1] = NodeAt(Prefix(Stored), h, i)

\* The contract, which forgets all but one node per level, computes after each
\* leaf the root of the reference tree.
FrontierRootExact ==
  \A n \in DOMAIN appends : appends[n][3] = NodeAt(Prefix(n), Depth, 0)

\* Append by append, the wallet's tree reports the very change the kernel did.
AppendsAgree == returned = SubSeq(appends, 1, Stored)

\* A path captured at any time resolves, in the circuit, a root the contract
\* had, whatever both appended since.
PathsVerify ==
  \A p \in paths : /\ MerkleRoot(p.leaf, p.index, p.siblings) = p.root
                   /\ p.root = appends[p.size][3]

\* The nodes a prover could name as siblings, level by level.
Siblings ==
  [1..Depth -> UNION {{NodeAt(log, h, Above(i)[h]) : i \in Indices} : h \in 0..Depth-1}]

\* Once the wallet has caught up, the root they share opens at an index to the
\* leaf appended there and to no other, with whatever siblings: what Paynote's
\* Opens takes for granted.
OpeningBinds ==
  log # <<>> /\ returned = appends /\ paths = {} =>
    \A index \in Indices, leaf \in Leaves, siblings \in Siblings :
      MerkleRoot(leaf, index, siblings) = Root =>
        index < Len(log) /\ log[index + 1] = leaf
=============================================================================
