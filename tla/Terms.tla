------------------------------- MODULE Terms -------------------------------
(***************************************************************************)
(* What all note circuits are written in.                                  *)
(*                                                                         *)
(* A field element is a term: a constant, a secret drawn at random, or a   *)
(* Poseidon2 hash of other terms.  Terms are equal only when they are      *)
(* built alike, which is collision resistance.  A Merkle root is the       *)
(* sequence of the leaves below it; module Imt checks that the hash tree   *)
(* opens exactly as Opens says.                                            *)
(***************************************************************************)
EXTENDS Integers, Sequences

CONSTANTS
  Modulus,          \* 2^256 in the code: the number of canonical U256 values
  ZeroAddress       \* the 20-byte zero address

ASSUME ModulusAssumption == Modulus \in Nat \ {0, 1}

Zero      == <<<<"FIELD", "CONST">>, <<0>>>>
Secret(k) == <<<<"FIELD", "SECRET">>, <<k>>>>

Tag(domain, base)      == <<domain, base>>
HashMulti(tag, inputs) == <<tag, inputs>>

\* Amounts.  The ABI carries raw limbs; the encodings that validate_in_field
\* admits are 0..Modulus, and both ends of that range stand for zero.

Encodings    == 0..Modulus
Canonical(x) == x \in Encodings /\ x % Modulus # 0

Remaining(amount, pay) == (amount - pay) % Modulus

\* Mutant: the recomputed root is not compared.
OpensAnything(root, i, leaf) == i \in DOMAIN root

\* `root` opens to `leaf` at position i (the code's leaf_index + 1).
Opens(root, i, leaf) == i \in DOMAIN root /\ root[i] = leaf
=============================================================================
