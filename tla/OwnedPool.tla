----------------------------- MODULE OwnedPool ------------------------------
(***************************************************************************)
(* The life of owner-bound notes: an Emit pool, whose notes are minted by  *)
(* their owner in whole or in part, or a Pledge pool, whose notes are      *)
(* pledged into positions, come back as the position is released, and are  *)
(* unpledged.  Both Pledge circuits share one tree and one nullifier set.  *)
(*                                                                         *)
(* The runtime that settles is not in the repository: it keeps to the      *)
(* duties the circuits leave to it (chain, roots, nullifiers, outputs,     *)
(* and, for a position, the serial and receipt context of its releases).   *)
(***************************************************************************)
EXTENDS OwnedNotes, Sums, FiniteSets

CONSTANTS
  ChainId,       \* the chain of the pool
  ChainIds,      \* the chains a prover may name
  Owners,        \* the addresses that own notes
  Contexts,      \* settlement contexts a prover may name, Zero among them
  FundKeys,      \* spend keys drawn for new notes, each used once
  Capacity,      \* 2^DEPTH leaves
  MaxInFlight    \* bound: proofs that are known and not yet dropped

\* Nothing is funded to the zero address: a Pledge note of its would be stuck.
ASSUME OwnedPoolAssumption ==
  /\ ChainId \in ChainIds
  /\ ZeroAddress \notin Owners
  /\ Capacity \in Nat
  /\ MaxInFlight \in Nat

VARIABLES
  family,      \* which pool this is
  leaves,      \* the tree, as the sequence of its leaves
  spent,       \* the nullifier set
  positions,   \* open pledges: [serial, pledged, released], and who holds them
  funded,      \* value that entered, by owner
  paid,        \* value minted or unpledged, by owner
  proofs,      \* proofs in flight: statement, leaf, and the change note
  drawn,       \* fund keys drawn so far
  notes,       \* history: the note behind each leaf
  used         \* history: how many settled proofs consumed each leaf

ledger == <<leaves, notes, funded, drawn>>
vars == <<family, ledger, spent, positions, paid, proofs, used>>

Elements(s) == {s[i] : i \in DOMAIN s}
Places == 1..Capacity

Init ==
  /\ family \in Families
  /\ leaves = <<>> /\ notes = <<>> /\ drawn = {}
  /\ funded = [o \in Owners |-> 0]
  /\ paid   = [o \in Owners |-> 0]
  /\ spent  = {}
  /\ positions = <<>>
  /\ proofs = {}
  /\ used   = [i \in Places |-> 0]

AcceptedRoots == {SubSeq(leaves, 1, n) : n \in 0..Len(leaves)}

Insert(leaf, note) ==
  /\ Len(leaves) < Capacity
  /\ leaves' = Append(leaves, leaf)
  /\ notes'  = Append(notes, note)

\* A new note of a key drawn for it; its receipt context is zero.
Fund(owner, k, amount) ==
  LET note == Note(owner, Secret(k), amount, Zero)
  IN /\ k \notin drawn
     /\ Insert(Leaf(family, ChainId, note), note)
     /\ funded' = [funded EXCEPT ![owner] = @ + amount]
     /\ drawn'  = drawn \cup {k}
     /\ UNCHANGED <<family, spent, positions, paid, proofs, used>>

-----------------------------------------------------------------------------
\* The provers know every note of the tree and may claim it for any owner.

Claims ==
  {Note(o, n.key, v, n.receipt) :
     o \in Owners, v \in 1..Modulus, n \in Elements(notes)}

Prove ==
  /\ Cardinality(proofs) < MaxInFlight
  /\ \E kind \in Kinds(family), chain \in ChainIds, root \in AcceptedRoots :
     \E i \in DOMAIN root, note \in Claims :
       /\ Opens(root, i, Leaf(family, chain, note))
       /\ \E pay \in 0..Modulus,
             context \in IF family = EMIT THEN {Zero} ELSE Contexts :
            LET pub == Statement(family, kind, chain, root, context, pay, note)
            IN /\ Circuit(pub, note, i)
               /\ proofs' = proofs \cup
                    {[pub    |-> pub,
                      from   |-> i,
                      change |-> Change(family, chain, note, pay),
                      holder |-> note.owner,
                      key    |-> ReturnKey(note.key, pub.nullifier, context)]}
  /\ UNCHANGED <<family, ledger, spent, positions, paid, used>>

Drop(p) ==
  /\ proofs' = proofs \ {p}
  /\ UNCHANGED <<family, ledger, spent, positions, paid, used>>

-----------------------------------------------------------------------------
\* The runtime.

Settleable(pub) ==
  /\ pub.chain = ChainId
  /\ pub.root \in AcceptedRoots
  /\ pub.nullifier \notin spent

Consume(p) ==
  /\ Settleable(p.pub)
  /\ spent' = spent \cup {p.pub.nullifier}
  /\ used'  = [used EXCEPT ![p.from] = @ + 1]
  /\ IF p.pub.output = Zero THEN UNCHANGED <<leaves, notes>>
     ELSE Insert(p.pub.output, p.change)

\* A mint or an unpledge pays the public owner.
Redeem(p) ==
  /\ p.pub.kind # "issue"
  /\ Consume(p)
  /\ paid' = [paid EXCEPT ![p.pub.owner] = @ + p.pub.pay]
  /\ UNCHANGED <<family, positions, funded, drawn, proofs>>

\* An issue opens a position under the return serial.
Issue(p) ==
  /\ p.pub.kind = "issue"
  /\ Consume(p)
  /\ positions' = Append(positions,
       [serial |-> p.pub.returnSerial, pledged |-> p.pub.pay, released |-> 0,
        holder |-> p.holder, key |-> p.key])
  /\ UNCHANGED <<family, funded, drawn, paid, proofs>>

\* Part of a position comes back, as a note to its return serial.
Release(i, amount) ==
  LET position == positions[i]
      total    == position.released + amount
      receipt  == ReceiptContext(i, total)
  IN /\ total <= position.pledged
     /\ Insert(NoteCommitment(PLEDGE, ChainId, position.serial, amount, receipt),
               Note(position.holder, position.key, amount, receipt))
     /\ positions' = [positions EXCEPT ![i].released = total]
     /\ UNCHANGED <<family, spent, funded, drawn, paid, proofs, used>>

Next ==
  \/ \E o \in Owners, k \in FundKeys, v \in 1..Modulus-1 : Fund(o, k, v)
  \/ Prove
  \/ \E p \in proofs : Drop(p)
  \/ \E p \in proofs : Redeem(p)
  \/ \E p \in proofs : Issue(p)
  \/ \E i \in DOMAIN positions, v \in 1..Modulus-1 : Release(i, v)

Spec == Init /\ [][Next]_vars

-----------------------------------------------------------------------------
(***************************************************************************)
(* Properties.                                                             *)
(***************************************************************************)

\* The types, and the shape of the tree: every leaf commits to a note with a
\* positive canonical amount (change of nothing would be a leaf nobody can
\* spend), and no position has released more than was pledged into it.
TypeOK ==
  /\ family \in Families
  /\ Len(leaves) = Len(notes) /\ Len(leaves) <= Capacity
  /\ \A i \in DOMAIN notes :
       /\ notes[i].owner \in Owners
       /\ notes[i].amount \in 1..Modulus-1
       /\ leaves[i] = Leaf(family, ChainId, notes[i])
  /\ \A i \in DOMAIN positions :
       /\ positions[i].holder \in Owners
       /\ positions[i].released \in 0..positions[i].pledged
  /\ funded \in [Owners -> Nat] /\ paid \in [Owners -> Nat]
  /\ drawn \subseteq FundKeys

\* No leaf is consumed twice, not by a replayed proof, and not by an issue and
\* an unpledge of the same note prepared against different roots.
NoDoubleSpend == \A i \in Places : used[i] <= 1

\* All leaves stay apart without a check by the runtime: change of change,
\* equal releases of one position, and releases of two positions of one owner.
UniqueLeaves ==
  \A i, j \in DOMAIN leaves : leaves[i] = leaves[j] => i = j

\* The owner of a note nobody consumed can redeem all of it in one step, also
\* when it is one of many returns to the same serial, and when the tree is full.
EveryNoteSpendable ==
  \A i \in DOMAIN notes : used[i] = 0 =>
    \A context \in IF family = EMIT THEN {Zero} ELSE Contexts \ {Zero} :
      LET pub == Statement(family, IF family = EMIT THEN "mint" ELSE "unpledge",
                           ChainId, leaves, context, notes[i].amount, notes[i])
      IN Circuit(pub, notes[i], i) /\ Settleable(pub) /\ pub.output = Zero

\* What each note adds to the holdings of an owner, given how often it was
\* consumed, and what each position still owes them.
NoteValues(ns, uses, owner) ==
  [i \in DOMAIN ns |-> IF uses[i] = 0 /\ ns[i].owner = owner THEN ns[i].amount ELSE 0]

OwedValues(ps, owner) ==
  [i \in DOMAIN ps |->
     IF ps[i].holder = owner THEN ps[i].pledged - ps[i].released ELSE 0]

\* What an owner holds: the notes not consumed, and what positions still owe.
Holdings(owner) == SumOf(NoteValues(notes, used, owner), Len(notes))
                 + SumOf(OwedValues(positions, owner), Len(positions))

-----------------------------------------------------------------------------
\* The abstract specification: each owner has an account in a vault.
V == INSTANCE Vault WITH
  Assets  <- Owners,
  balance <- [o \in Owners |-> Holdings(o)],
  taken   <- funded

\* Owner by owner, what entered was paid out or is still held, and nobody is
\* paid more than they hold, though anyone may prove with anyone's keys:
\* spends, pledges and returns neither create value nor move it to another
\* owner.  A pledge and a release are invisible to an observer of the accounts.
ImplementsVault == V!Spec
=============================================================================
