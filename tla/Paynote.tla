------------------------------ MODULE Paynote ------------------------------
(***************************************************************************)
(* The Paynote formulas and the two Paynote circuits, spend and merge, as  *)
(* the relations their asserts define between public inputs and witness.   *)
(*                                                                         *)
(* Fields, hashes and roots are those of module Terms.                     *)
(***************************************************************************)
EXTENDS Terms

CONSTANT MaxMergeInputs   \* 4 in the code

ASSUME MergeInputsAssumption == MaxMergeInputs \in Nat /\ MaxMergeInputs >= 2

MinMergeInputs == 2

-----------------------------------------------------------------------------
\* The formulas.

PAYNOTE_DOMAIN    == "OUTBE_PAYNOTE"
PaynoteTag(base)  == Tag(PAYNOTE_DOMAIN, base)

\* Serial: hides the spend key, binds neither chain, asset nor amount.
NoteSn(key) == HashMulti(PaynoteTag("NOTE_SN"), <<key>>)

\* Leaf: binds the asset and the amount the pool pulled to the serial.
NoteCommitment(chain, serial, asset, amount) ==
  HashMulti(PaynoteTag("COMMITMENT"), <<chain, serial, asset, amount>>)

\* Mutant: the nullifier taken from the key alone.
KeyNullifier(commitment, key) == HashMulti(PaynoteTag("NULLIFIER"), <<key>>)

\* Nullifier: a function of the leaf, so one leaf has one nullifier.
NoteNullifier(commitment, key) ==
  HashMulti(PaynoteTag("NULLIFIER"), <<commitment, key>>)

\* Mutant: change keeps the key of the note it comes from.
SameKey(key, nullifier) == key

\* The key of a change note: the spent key rotated through its nullifier.
ChangeKey(key, nullifier) ==
  HashMulti(PaynoteTag("CHANGE_KEY"), <<key, nullifier>>)

-----------------------------------------------------------------------------
\* bignum pins a sum modulo 2^256 only: the prover picks the encoding of zero.
Sum256(x, y, zeroAs) ==
  IF (x + y) % Modulus = 0 THEN zeroAs ELSE (x + y) % Modulus

-----------------------------------------------------------------------------
(***************************************************************************)
(* Spend.  Every `assert_eq` against a public input pins that input, so a  *)
(* statement is a function of the witness and of the inputs the prover     *)
(* chooses freely: chain, root, asset, context and the amount to pay.      *)
(***************************************************************************)
SpentLeaf(chain, asset, wit) ==
  NoteCommitment(chain, NoteSn(wit.key), asset, wit.amount)

\* What a spend leaves behind, as the note a wallet will hold: NoNote when
\* nothing remains.
NoNote == [key |-> Zero, asset |-> ZeroAddress, amount |-> 0]

ChangeNote(key, nullifier, asset, remaining) ==
  IF remaining = 0 THEN NoNote
  ELSE [key |-> ChangeKey(key, nullifier), asset |-> asset, amount |-> remaining]

OutputCommitment(chain, note) ==
  IF note = NoNote THEN Zero
  ELSE NoteCommitment(chain, NoteSn(note.key), note.asset, note.amount)

SpendChange(chain, asset, pay, wit) ==
  ChangeNote(wit.key,
             NoteNullifier(SpentLeaf(chain, asset, wit), wit.key),
             asset,
             Remaining(wit.amount, pay))

SpendStatement(chain, root, asset, context, pay, wit) ==
  [kind       |-> "spend",
   chain      |-> chain,
   root       |-> root,
   asset      |-> asset,
   context    |-> context,
   pay        |-> pay,
   nullifiers |-> <<NoteNullifier(SpentLeaf(chain, asset, wit), wit.key)>>,
   output     |-> OutputCommitment(chain, SpendChange(chain, asset, pay, wit))]

\* The asserts of the spend circuit.
SpendCircuit(pub, wit) ==
  LET serial     == NoteSn(wit.key)
      commitment == NoteCommitment(pub.chain, serial, pub.asset, wit.amount)
      nullifier  == NoteNullifier(commitment, wit.key)
      change     == ChangeNote(wit.key, nullifier, pub.asset,
                               Remaining(wit.amount, pub.pay))
  IN /\ Canonical(pub.pay)
     /\ Canonical(wit.amount)
     /\ pub.pay <= wit.amount
     /\ Zero \notin {wit.key, pub.context, serial, commitment, nullifier}
     /\ Opens(pub.root, wit.index, commitment)
     /\ pub.nullifiers = <<nullifier>>
     /\ pub.output = OutputCommitment(pub.chain, change)
     /\ change # NoNote => Zero \notin {change.key, NoteSn(change.key), pub.output,
                                        NoteNullifier(pub.output, change.key)}

-----------------------------------------------------------------------------
(***************************************************************************)
(* Merge.  The witness holds one [key, amount, index] per input, the       *)
(* output key, and the encoding its prover gives to a sum that is zero.    *)
(* The slots past input_count are pinned to zero and left out, as is the   *)
(* pool address, which is pinned to one constant.                          *)
(***************************************************************************)
MergeLeaf(chain, asset, input) == SpentLeaf(chain, asset, input)

\* The running total after each input.
Totals(wit) ==
  LET total[i \in 0..Len(wit.inputs)] ==
        IF i = 0 THEN 0
        ELSE Sum256(total[i - 1], wit.inputs[i].amount, wit.zeroAs)
  IN total

\* Mutants: the alternate encoding of zero is let through; a wrap is.
AddsUpToAlias(before, after) == after > before
AddsUpWrapped(before, after) == Canonical(after)

\* A step of the running total is in range, no encoding of zero, and larger
\* than the total before it, so no step has wrapped.
AddsUp(before, after) == Canonical(after) /\ after > before

MergeNote(asset, wit) ==
  [key    |-> wit.outputKey,
   asset  |-> asset,
   amount |-> Totals(wit)[Len(wit.inputs)]]

MergeStatement(chain, root, asset, wit) ==
  [kind       |-> "merge",
   chain      |-> chain,
   root       |-> root,
   asset      |-> asset,
   context    |-> Zero,
   pay        |-> 0,
   nullifiers |-> [i \in DOMAIN wit.inputs |->
                     NoteNullifier(MergeLeaf(chain, asset, wit.inputs[i]),
                                   wit.inputs[i].key)],
   output     |-> OutputCommitment(chain, MergeNote(asset, wit))]

\* Mutant: the inputs are not compared with each other.
AnyInputs(pub, wit) == TRUE

\* No two inputs of a merge are the same note.
DistinctInputs(pub, wit) ==
  \A i, j \in DOMAIN wit.inputs :
    j < i => /\ MergeLeaf(pub.chain, pub.asset, wit.inputs[i])
                  # MergeLeaf(pub.chain, pub.asset, wit.inputs[j])
             /\ pub.nullifiers[i] # pub.nullifiers[j]

\* The asserts on input slot i.
MergeInput(pub, wit, i) ==
  LET input      == wit.inputs[i]
      commitment == MergeLeaf(pub.chain, pub.asset, input)
  IN /\ Canonical(input.amount)
     /\ wit.outputKey # input.key
     /\ Zero \notin {input.key, NoteSn(input.key), commitment, pub.nullifiers[i]}
     /\ commitment # pub.output
     /\ Opens(pub.root, input.index, commitment)
     /\ pub.nullifiers[i] = NoteNullifier(commitment, input.key)
     /\ AddsUp(Totals(wit)[i - 1], Totals(wit)[i])

\* The asserts of the merge circuit.
MergeCircuit(pub, wit) ==
  /\ Len(wit.inputs) \in MinMergeInputs..MaxMergeInputs
  /\ pub.asset # ZeroAddress
  /\ Zero \notin {wit.outputKey, pub.output, NoteSn(wit.outputKey),
                  NoteNullifier(pub.output, wit.outputKey)}
  /\ \A i \in DOMAIN wit.inputs : MergeInput(pub, wit, i)
  /\ DistinctInputs(pub, wit)
  /\ pub.output = OutputCommitment(pub.chain, MergeNote(pub.asset, wit))
=============================================================================
