---------------------------- MODULE PaynotePool ----------------------------
(***************************************************************************)
(* The life of the notes of one Paynote pool: deposits, proofs prepared by *)
(* wallets against a root they saw, and settlement of those proofs in any  *)
(* order, any number of times or never.                                    *)
(*                                                                         *)
(* The circuits (module Paynote) are in the repository.  The settlement    *)
(* contract is not: its guards are the "Runtime obligations" the circuits  *)
(* are designed against.                                                   *)
(*                                                                         *)
(* A depositor supplies the serial, and the prover of a merge the key of   *)
(* its output, so either can be the serial of any key its wallet computes: *)
(* that of an older note, or of a change note still to come.  A careful    *)
(* wallet does neither.  It draws its keys at random, merges to a key only *)
(* once, and shows no serial but that of a deposit, which anyone may then  *)
(* deposit under as well.  All other wallets are careless.  What the       *)
(* contract owes is kept with all of them; what is owed to a note is kept  *)
(* for every note of a careful wallet, and a careless one can harm only    *)
(* the notes that have its own leaf.                                       *)
(***************************************************************************)
EXTENDS Paynote, Sums, FiniteSets

CONSTANTS
  ChainId,       \* the chain this pool runs on
  ChainIds,      \* the chains a prover may name
  Assets,        \* the tokens the pool holds
  Contexts,      \* settlement contexts a prover may name, Zero among them
  DepositKeys,   \* drawn by careful wallets for deposits, their serials public
  MergeKeys,     \* drawn by careful wallets for merge outputs, each used once
  CarelessKeys,  \* the spend keys careless wallets deposit under and merge to
  Deposits,      \* bound: the deposits anyone makes, as [key, asset, amount]
  Capacity,      \* 2^DEPTH leaves
  MaxInFlight    \* bound: proofs that are known and not yet dropped

ASSUME PoolAssumption ==
  /\ ChainId \in ChainIds
  /\ Capacity \in Nat
  /\ MaxInFlight \in Nat
  /\ DepositKeys \cap MergeKeys = {}

\* The keys whose serials a depositor can supply: those drawn for deposits,
\* whoever drew them, and every key a careless wallet computes.
DepositSerials == {Secret(k) : k \in DepositKeys} \cup CarelessKeys

ASSUME DepositsAssumption ==
  Deposits \subseteq [key : DepositSerials, asset : Assets, amount : 1..Modulus-1]

\* Careless wallets guess no key of a careful one: none it drew, and none it
\* rotated, for that takes the key it was rotated from.  Zero is no spend key.
ASSUME CarelessAssumption ==
  /\ \A k \in DepositKeys \cup MergeKeys : Secret(k) \notin CarelessKeys
  /\ Zero \notin CarelessKeys
  /\ \A key \in CarelessKeys :
       key[1] = PaynoteTag("CHANGE_KEY") => key[2][1] \in CarelessKeys

VARIABLES
  leaves,      \* the contract's tree, as the sequence of its leaves
  spent,       \* the contract's nullifier set
  deposited,   \* value taken in, by asset
  paid,        \* value paid out, by asset
  proofs,      \* proofs in flight: public statement and what the prover knows
  drawn,       \* merge output keys drawn so far
  careless,    \* the leaves whose notes belong to careless wallets
  notes,       \* notes[i]: the note leaf i commits to, known to its holder
  used         \* used[i]: how many settled inputs opened leaf i

vars == <<leaves, spent, deposited, paid, proofs, drawn, careless, notes, used>>

Positions == 1..Capacity
Elements(s) == {s[i] : i \in DOMAIN s}

Init ==
  /\ leaves    = <<>>
  /\ spent     = {}
  /\ deposited = [a \in Assets |-> 0]
  /\ paid      = [a \in Assets |-> 0]
  /\ proofs    = {}
  /\ drawn     = {}
  /\ careless  = {}
  /\ notes     = <<>>
  /\ used      = [i \in Positions |-> 0]

-----------------------------------------------------------------------------
\* The contract.

\* Mutant: only the latest root is accepted.
LatestRoot == {leaves}

\* The roots the pool has produced: one for every prefix of its leaves.
AcceptedRoots == {SubSeq(leaves, 1, n) : n \in 0..Len(leaves)}

Insert(commitment, note, isCareless) ==
  /\ Len(leaves) < Capacity
  /\ leaves'   = Append(leaves, commitment)
  /\ notes'    = Append(notes, note)
  /\ careless' = IF isCareless THEN careless \cup {Len(leaves) + 1} ELSE careless

\* A deposit is keyed on the leaf: the same leaf is never inserted twice.
NewLeaf(commitment) == commitment \notin Elements(leaves)

Deposit(key, asset, amount) ==
  LET note       == [key |-> key, asset |-> asset, amount |-> amount]
      commitment == OutputCommitment(ChainId, note)
  IN /\ NewLeaf(commitment)
     /\ Insert(commitment, note, key \in CarelessKeys)
     /\ deposited' = [deposited EXCEPT ![asset] = @ + amount]
     /\ UNCHANGED <<spent, paid, proofs, drawn, used>>

\* What the contract checks before it settles a statement: a spend must name
\* the settlement this call performs.
Settleable(pub, context) ==
  /\ pub.chain = ChainId
  /\ pub.root \in AcceptedRoots
  /\ pub.kind = "spend" => pub.context = context
  /\ Elements(pub.nullifiers) \cap spent = {}

\* Insert a change or merge output; nothing is inserted for a full spend.
RecordOutput(p) ==
  IF p.pub.output = Zero THEN UNCHANGED <<leaves, notes, careless>>
  ELSE Insert(p.pub.output, p.note, p.careless)

Settle(p, context) ==
  /\ Settleable(p.pub, context)
  /\ RecordOutput(p)
  /\ spent' = spent \cup Elements(p.pub.nullifiers)
  /\ paid'  = [paid EXCEPT ![p.pub.asset] = @ + p.pub.pay]
  /\ used'  = [i \in Positions |->
                 used[i] + Cardinality({j \in DOMAIN p.from : p.from[j] = i})]
  /\ UNCHANGED <<deposited, proofs, drawn>>

-----------------------------------------------------------------------------
\* The provers.  Each holds some of the notes and picks a root it has seen,
\* the latest or an old one; the witness may be any that the circuit admits.

\* Notes a prover may claim to hold: those in the tree, and unfunded ones.
Claims == Elements(notes) \cup
  [key : DepositSerials, asset : Assets, amount : Encodings]

\* The claims that open under `root`, as circuit inputs.
OpenInputs(chain, root, asset) ==
  UNION {{[key |-> n.key, amount |-> n.amount, index |-> i] :
            n \in {n \in Claims : /\ n.asset = asset
                                  /\ Opens(root, i, OutputCommitment(chain, n))}} :
         i \in DOMAIN root}

ProveSpend ==
  /\ Cardinality(proofs) < MaxInFlight
  /\ \E chain \in ChainIds, root \in AcceptedRoots, asset \in Assets :
     \E wit \in OpenInputs(chain, root, asset) :
     \E pay \in Encodings, context \in Contexts :
       LET pub == SpendStatement(chain, root, asset, context, pay, wit)
       IN /\ SpendCircuit(pub, wit)
          /\ proofs' = proofs \cup
               {[pub      |-> pub,
                 from     |-> <<wit.index>>,
                 note     |-> SpendChange(chain, asset, pay, wit),
                 careless |-> wit.index \in careless]}
  /\ UNCHANGED <<leaves, spent, deposited, paid, drawn, careless, notes, used>>

\* The inputs of a merge, in tree order: the circuit treats all orders alike.
MergeInputs(open) ==
  UNION {{s \in [1..n -> open] : \A i \in 1..n-1 : s[i].index <= s[i+1].index} :
           n \in MinMergeInputs..MaxMergeInputs}

\* The keys a merge can rotate to: one drawn for it, or any a careless wallet
\* computes, the key of an older note among them.
OutputKeys == {Secret(m) : m \in MergeKeys \ drawn} \cup CarelessKeys

ProveMerge ==
  /\ Cardinality(proofs) < MaxInFlight
  /\ \E chain \in ChainIds, root \in AcceptedRoots, asset \in Assets :
     \E inputs \in MergeInputs(OpenInputs(chain, root, asset)),
        outputKey \in OutputKeys, zeroAs \in {0, Modulus} :
       LET wit == [inputs |-> inputs, zeroAs |-> zeroAs, outputKey |-> outputKey]
           pub == MergeStatement(chain, root, asset, wit)
       IN /\ MergeCircuit(pub, wit)
          /\ proofs' = proofs \cup
               {[pub      |-> pub,
                 from     |-> [i \in DOMAIN inputs |-> inputs[i].index],
                 note     |-> MergeNote(asset, wit),
                 careless |-> outputKey \in CarelessKeys]}
          /\ drawn' = drawn \cup {m \in MergeKeys : outputKey = Secret(m)}
  /\ UNCHANGED <<leaves, spent, deposited, paid, careless, notes, used>>

\* A proof is given up: lost, or its holder makes another.
Drop(p) ==
  /\ proofs' = proofs \ {p}
  /\ UNCHANGED <<leaves, spent, deposited, paid, drawn, careless, notes, used>>

Next ==
  \/ \E d \in Deposits : Deposit(d.key, d.asset, d.amount)
  \/ ProveSpend
  \/ ProveMerge
  \/ \E p \in proofs, context \in Contexts : Settle(p, context)
  \/ \E p \in proofs : Drop(p)

Spec == Init /\ [][Next]_vars

-----------------------------------------------------------------------------
(***************************************************************************)
(* Properties.                                                             *)
(***************************************************************************)
NullifierAt(i) == NoteNullifier(leaves[i], notes[i].key)

\* The shape of the tree.
TreeOK ==
  /\ leaves \in Seq(Elements(leaves))
  /\ notes \in Seq(Elements(notes))
  /\ Len(leaves) <= Capacity
  /\ Len(notes) = Len(leaves)
  /\ \A i \in DOMAIN notes :
       /\ notes[i].asset \in Assets
       /\ notes[i].amount \in 1..Modulus-1
       /\ leaves[i] = OutputCommitment(ChainId, notes[i])

\* The types, and the shape of the tree: one commitment per known note, within
\* the capacity, and every note a positive canonical amount of a token of the
\* pool (a change note of zero would be a leaf no spend can open).
TypeOK ==
  /\ TreeOK
  /\ deposited \in [Assets -> Nat]
  /\ paid \in [Assets -> Nat]
  /\ used \in [Positions -> Nat]
  /\ drawn \subseteq MergeKeys
  /\ careless \subseteq DOMAIN leaves

\* No leaf is consumed twice: not by a replayed proof, not by two proofs
\* prepared against different roots, not by a spend and a merge, and not by
\* one merge that names it twice.
NoDoubleSpend == \A i \in Positions : used[i] <= 1

\* Deduplicating deposits alone keeps the leaf of every careful wallet apart
\* from all others: no change, no merge output and no deposit repeats it, the
\* deposits and merges of careless wallets included.  Only careless leaves are
\* ever equal, and then to each other (they share one nullifier, and spending
\* one locks the rest).
UniqueLeaves ==
  \A i, j \in DOMAIN leaves :
    leaves[i] = leaves[j] => i = j \/ {i, j} \subseteq careless

\* The leaves that share the nullifier of leaf i: for a careful wallet its own.
Twins(i) ==
  IF i \in careless THEN {j \in careless : leaves[j] = leaves[i]} ELSE {i}

\* What each note adds to the value held in `asset`, given how often it was
\* consumed.
Values(ns, uses, asset) ==
  [i \in DOMAIN ns |-> IF uses[i] = 0 /\ ns[i].asset = asset THEN ns[i].amount ELSE 0]

\* The value of the notes of `asset` that are not consumed.
Unspent(asset) == SumOf(Values(notes, used, asset), Len(notes))

\* Token by token, what came in is what was paid out plus what the live notes
\* are worth: spends, change and merges neither create nor lose value.
Conservation ==
  \A a \in Assets : deposited[a] = paid[a] + Unspent(a)

\* Whoever holds the key of a note can redeem all of it until it, or a careless
\* twin, is consumed: the circuit accepts the full spend against the current
\* root, and the pool settles it, also when the tree is full.
EveryNoteSpendable ==
  \A i \in DOMAIN notes : (\A j \in Twins(i) : used[j] = 0) =>
    \A context \in Contexts \ {Zero} :
      LET note == notes[i]
          wit  == [key |-> note.key, amount |-> note.amount, index |-> i]
          pub  == SpendStatement(ChainId, leaves, note.asset, context,
                                 note.amount, wit)
      IN SpendCircuit(pub, wit) /\ Settleable(pub, context) /\ pub.output = Zero

CanSettle(p) ==
  /\ Settleable(p.pub, p.pub.context)
  /\ p.pub.output # Zero => Len(leaves) < Capacity

\* A proof made against an old root outlives everything others do: a proof
\* that can settle stays so until one of its own inputs, or a careless twin of
\* one, is consumed, or the tree has no slot left for its output.
PendingProofSurvives ==
  [][\A p \in proofs : CanSettle(p) =>
       \/ CanSettle(p)'
       \/ \E j \in DOMAIN p.from : \E i \in Twins(p.from[j]) : used'[i] > used[i]
       \/ p.pub.output # Zero /\ Len(leaves') = Capacity]_vars

-----------------------------------------------------------------------------
(***************************************************************************)
(* Why the properties hold: the parts of the inductive invariant.          *)
(***************************************************************************)

\* The nullifier set is exactly the nullifiers of the consumed leaves, and a
\* leaf is consumed at most once.
SpentIsUsed ==
  /\ \A i \in DOMAIN leaves : /\ used[i] \in {0, 1}
                              /\ used[i] = 1 => NullifierAt(i) \in spent
  /\ \A i \in Positions : i \notin DOMAIN leaves => used[i] = 0
  /\ \A n \in spent : \E i \in DOMAIN leaves : n = NullifierAt(i) /\ used[i] = 1

RotatedFrom(key, i) == key = ChangeKey(notes[i].key, NullifierAt(i))

\* The key of a careless note is one careless wallets deposit under or merge
\* to, or was rotated out of a careless note.  That of a careful note was drawn
\* for a deposit, drawn for a merge, or rotated out of a careful note already
\* consumed.
KeysOrigin ==
  \A i \in DOMAIN notes :
    IF i \in careless
    THEN \/ notes[i].key \in CarelessKeys
         \/ \E j \in careless : RotatedFrom(notes[i].key, j)
    ELSE \/ \E k \in DepositKeys : notes[i].key = Secret(k)
         \/ \E m \in drawn : notes[i].key = Secret(m)
         \/ \E j \in DOMAIN notes \ careless : /\ NullifierAt(j) \in spent
                                               /\ RotatedFrom(notes[i].key, j)

\* No careless wallet has the key of a careful note.
KeysApart ==
  \A i \in DOMAIN notes \ careless :
    /\ notes[i].key \notin CarelessKeys
    /\ \A j \in careless : notes[i].key # notes[j].key

\* The output of a proof: the rotated change of an input, or a merged note.
OutputOrigin(p) ==
  /\ p.note.asset \in Assets
  /\ p.note.amount \in 1..Modulus-1
  /\ \/ \E j \in DOMAIN p.from : /\ RotatedFrom(p.note.key, p.from[j])
                                 /\ p.careless <=> p.from[j] \in careless
     \/ /\ p.careless
        /\ p.note.key \in CarelessKeys
     \/ /\ ~p.careless
        /\ \E m \in drawn : p.note.key = Secret(m)

\* A proof names leaves of the tree, each once, by their nullifiers.
ProofSound(p) ==
  /\ p.pub.asset \in Assets
  /\ p.pub.pay \in Nat
  /\ p.careless \in BOOLEAN
  /\ DOMAIN p.from # {}
  /\ DOMAIN p.pub.nullifiers = DOMAIN p.from
  /\ \A j \in DOMAIN p.from : /\ p.from[j] \in DOMAIN leaves
                              /\ p.pub.nullifiers[j] = NullifierAt(p.from[j])
  /\ \A i, j \in DOMAIN p.from : p.from[i] = p.from[j] => i = j
  /\ p.pub.output = OutputCommitment(ChainId, p.note)
  /\ p.note # NoNote => OutputOrigin(p)

\* What a proof takes in, in one asset, is what it pays out plus its output.
ProofBalanced(p) ==
  /\ p.from \in Seq(DOMAIN leaves)
  /\ \A j \in DOMAIN p.from : notes[p.from[j]].asset = p.pub.asset
  /\ p.note # NoNote => p.note.asset = p.pub.asset
  /\ SumOf([j \in DOMAIN p.from |-> notes[p.from[j]].amount], Len(p.from))
       = p.pub.pay + p.note.amount

ProofsSound == \A p \in proofs : ProofSound(p) /\ ProofBalanced(p)

\* A merge key belongs to one proof, and is in the tree only once that proof
\* has settled.
MergeKeysFresh ==
  \A p \in proofs, m \in MergeKeys : p.note.key = Secret(m) =>
    /\ \A q \in proofs : q.note.key = Secret(m) => q = p
    /\ \A i \in DOMAIN notes :
         notes[i].key = Secret(m) => Elements(p.pub.nullifiers) \cap spent # {}

IInv ==
  /\ TypeOK
  /\ UniqueLeaves
  /\ SpentIsUsed
  /\ KeysOrigin
  /\ KeysApart
  /\ ProofsSound
  /\ MergeKeysFresh

-----------------------------------------------------------------------------
\* What an outside observer of the contract relies on: a vault.
V == INSTANCE Vault WITH
  balance <- [a \in Assets |-> Unspent(a)],
  taken   <- deposited

\* Every step of the pool is a deposit, a withdrawal covered by what the notes
\* are worth, or invisible; a merge is invisible.
ImplementsVault == V!Spec
=============================================================================
