----------------------------- MODULE OwnedNotes -----------------------------
(***************************************************************************)
(* The owner-bound notes, Emit and Pledge, and their three circuits: the   *)
(* Emit mint, and issue and unpledge of a Pledge note.  The two families   *)
(* share their formulas up to the domain; a Pledge note also commits to a  *)
(* receipt context, and an issue also publishes the serial under which     *)
(* the pledged value will come back.                                       *)
(***************************************************************************)
EXTENDS Terms

EMIT   == "OUTBE_EMIT"
PLEDGE == "OUTBE_PLEDGE"
Families == {EMIT, PLEDGE}

\* The circuits of each family.
Kinds(family) == IF family = EMIT THEN {"mint"} ELSE {"issue", "unpledge"}

-----------------------------------------------------------------------------
\* The formulas.

\* Mutant: the serial hides the key and forgets the owner.
BearerSn(family, owner, key) == HashMulti(Tag(family, "NOTE_SN"), <<key>>)

NoteSn(family, owner, key) == HashMulti(Tag(family, "NOTE_SN"), <<owner, key>>)

NoteCommitment(family, chain, serial, amount, receipt) ==
  HashMulti(Tag(family, "COMMITMENT"),
            IF family = EMIT THEN <<chain, serial, amount>>
            ELSE <<chain, serial, amount, receipt>>)

\* Mutant: the nullifier taken from the key alone.
KeyNullifier(family, commitment, key) ==
  HashMulti(Tag(family, "NULLIFIER"), <<key>>)

NoteNullifier(family, commitment, key) ==
  HashMulti(Tag(family, "NULLIFIER"), <<commitment, key>>)

ChangeKey(family, key, nullifier) ==
  HashMulti(Tag(family, "CHANGE_KEY"), <<key, nullifier>>)

\* The key of the notes that return what an issue pledged.
ReturnKey(key, nullifier, context) ==
  HashMulti(Tag(PLEDGE, "RETURN_KEY"), <<key, nullifier, context>>)

\* Mutant: releases of one position all carry the same receipt.
PositionReceipt(position, releasedTotal) ==
  HashMulti(Tag(PLEDGE, "RETURN_RECEIPT"), <<position>>)

\* What tells the releases of one position apart.
ReceiptContext(position, releasedTotal) ==
  HashMulti(Tag(PLEDGE, "RETURN_RECEIPT"), <<position, releasedTotal>>)

-----------------------------------------------------------------------------
\* A note, as its holder knows it, and the leaf that commits to it.
Note(owner, key, amount, receipt) ==
  [owner |-> owner, key |-> key, amount |-> amount, receipt |-> receipt]

NoNote == Note(ZeroAddress, Zero, 0, Zero)

Leaf(family, chain, note) ==
  NoteCommitment(family, chain, NoteSn(family, note.owner, note.key),
                 note.amount, note.receipt)

NullifierOf(family, chain, note) ==
  NoteNullifier(family, Leaf(family, chain, note), note.key)

Output(family, chain, note) ==
  IF note = NoNote THEN Zero ELSE Leaf(family, chain, note)

\* Mutant: a full spend leaves a note of nothing behind.
ChangeAlways(family, chain, note, pay) ==
  Note(note.owner,
       ChangeKey(family, note.key, NullifierOf(family, chain, note)),
       Remaining(note.amount, pay), Zero)

\* What a spend of `pay` out of `note` leaves behind: NoNote for all of it.
Change(family, chain, note, pay) ==
  IF Remaining(note.amount, pay) = 0 THEN NoNote
  ELSE Note(note.owner,
            ChangeKey(family, note.key, NullifierOf(family, chain, note)),
            Remaining(note.amount, pay), Zero)

\* Emit's validate_in_range admits 17 bits in the top limb, one more than an
\* amount has, and compares with the integer zero only.
InRange(x) == x \in 0..2 * Modulus - 1 /\ x # 0

AmountOK(family, x) == IF family = EMIT THEN InRange(x) ELSE Canonical(x)

(***************************************************************************)
(* The public inputs.  A mint and an unpledge publish the owner; an issue  *)
(* hides it and publishes the return serial; a mint has no context.        *)
(***************************************************************************)
Statement(family, kind, chain, root, context, pay, note) ==
  LET nullifier == NullifierOf(family, chain, note)
  IN [kind      |-> kind,
      chain     |-> chain,
      root      |-> root,
      context   |-> context,
      pay       |-> pay,
      owner     |-> IF kind = "issue" THEN ZeroAddress ELSE note.owner,
      nullifier |-> nullifier,
      output    |-> Output(family, chain, Change(family, chain, note, pay)),
      returnSerial |->
        IF kind = "issue"
        THEN NoteSn(PLEDGE, note.owner, ReturnKey(note.key, nullifier, context))
        ELSE Zero]

\* The asserts that all three circuits share; the witness is a note and the
\* index of its leaf.
SpendAsserts(family, pub, note, index) ==
  LET leaf   == Leaf(family, pub.chain, note)
      change == Change(family, pub.chain, note, pub.pay)
  IN /\ AmountOK(family, pub.pay)
     /\ AmountOK(family, note.amount)
     /\ pub.pay <= note.amount
     /\ Zero \notin {note.key, NoteSn(family, note.owner, note.key), leaf,
                     pub.nullifier}
     /\ Opens(pub.root, index, leaf)
     /\ pub.nullifier = NoteNullifier(family, leaf, note.key)
     /\ pub.output = Output(family, pub.chain, change)
     /\ change # NoNote =>
          Zero \notin {change.key, NoteSn(family, change.owner, change.key),
                       pub.output,
                       NoteNullifier(family, pub.output, change.key)}

MintCircuit(pub, note, index) ==
  /\ SpendAsserts(EMIT, pub, note, index)
  /\ pub.owner = note.owner

\* pledgenote_lib::spend, which both Pledge circuits call.
PledgeSpend(pub, note, index) ==
  /\ SpendAsserts(PLEDGE, pub, note, index)
  /\ note.owner # ZeroAddress
  /\ pub.context # Zero

UnpledgeCircuit(pub, note, index) ==
  /\ PledgeSpend(pub, note, index)
  /\ pub.owner = note.owner

IssueCircuit(pub, note, index) ==
  LET key == ReturnKey(note.key, pub.nullifier, pub.context)
  IN /\ PledgeSpend(pub, note, index)
     /\ key # Zero
     /\ pub.returnSerial # Zero
     /\ pub.returnSerial = NoteSn(PLEDGE, note.owner, key)

Circuit(pub, note, index) ==
  \/ pub.kind = "mint" /\ MintCircuit(pub, note, index)
  \/ pub.kind = "issue" /\ IssueCircuit(pub, note, index)
  \/ pub.kind = "unpledge" /\ UnpledgeCircuit(pub, note, index)
=============================================================================
