------------------------------- MODULE Codec -------------------------------
(***************************************************************************)
(* How values become field elements and back (codec.rs).                   *)
(*                                                                         *)
(* Bytes are digits to the base Base, big-endian, and every width of the   *)
(* code shrinks with them: a word of WordBytes stands for 32 bytes, half a *)
(* word for a u128, Modulus for the order of the BN254 field, which lies   *)
(* well below the largest word.  A fallible operation returns Ok or Err.   *)
(***************************************************************************)
EXTENDS Integers, SequencesExt

CONSTANTS
  Base,         \* 256 in the code
  WordBytes,    \* 32
  AddrBytes,    \* 20
  Modulus,      \* the field order
  Spill         \* 2^8: a limb has 120 bits, 8 fewer than half a word

\* Base ^ n, in a form that can be reasoned about.
Power(n) ==
  LET power[i \in 0..n] == IF i = 0 THEN 1 ELSE Base * power[i - 1]
  IN power[n]

Half  == WordBytes \div 2
Radix == Power(Half) \div Spill

ASSUME CodecAssumption ==
  /\ {Base, WordBytes, AddrBytes, Modulus, Spill} \subseteq Nat \ {0, 1}
  /\ WordBytes % 2 = 0
  /\ Power(Half) < Modulus /\ Power(AddrBytes) < Modulus
  /\ Modulus < Power(WordBytes)
  /\ Power(Half) % Spill = 0 /\ Radix % Spill = 0

Bytes     == 0..Base-1
Word      == [1..WordBytes -> Bytes]
Fields    == 0..Modulus-1
Zeros(n)  == [i \in 1..n |-> 0]

-----------------------------------------------------------------------------
Ok(v) == [ok |-> TRUE, value |-> v]
Err   == [ok |-> FALSE]

\* The members of a finite set, in increasing order of their keys.
InOrder(S, key) ==
  CHOOSE s \in [1..Cardinality(S) -> S] :
    \A i, j \in DOMAIN s : i < j => key[s[i]] < key[s[j]]

\* The `?` operator, and collect::<Result<Vec<_>, _>>.
Then(r, Op(_)) == IF r.ok THEN Op(r.value) ELSE Err
Collect(results) ==
  IF \A i \in DOMAIN results : results[i].ok
  THEN Ok([i \in DOMAIN results |-> results[i].value])
  ELSE Err

Number(bytes) ==
  LET number[i \in 0..Len(bytes)] == IF i = 0 THEN 0 ELSE number[i - 1] * Base + bytes[i]
  IN number[Len(bytes)]

BytesOf(n, w) == [i \in 1..w |-> (n \div Power(w - i)) % Base]

-----------------------------------------------------------------------------
FieldFromBytes(bytes) == Number(bytes) % Modulus

FieldFromBytesCanonical(bytes) ==
  IF Number(bytes) < Modulus THEN Ok(Number(bytes)) ELSE Err

FieldToArray(f, width) == IF f < Power(width) THEN Ok(BytesOf(f, width)) ELSE Err

\* Every field element fits a word.
FieldToBytes(f) == BytesOf(f, WordBytes)

UintFromField(f, width) == Then(FieldToArray(f, width), LAMBDA b : Ok(Number(b)))

-----------------------------------------------------------------------------
\* Mutant: what spills from the low half into the middle limb is lost.
DroppedSpill(word) ==
  LET hi == Number(SubSeq(word, 1, Half))
      lo == Number(SubSeq(word, Half + 1, WordBytes))
      top == Radix \div Spill
  IN <<lo % Radix, (hi % top) * Spill, hi \div top>>

\* Three little-endian limbs of 120, 120 and 16 bits.
Limbs(word) ==
  LET hi  == Number(SubSeq(word, 1, Half))
      lo  == Number(SubSeq(word, Half + 1, WordBytes))
      top == Radix \div Spill
  IN <<lo % Radix, lo \div Radix + (hi % top) * Spill, hi \div top>>

FromLimbs(limbs) ==
  IF limbs[1] >= Radix \/ limbs[2] >= Radix \/ limbs[3] >= Spill * Spill
  THEN Err
  ELSE LET lo == limbs[1] + (limbs[2] % Spill) * Radix
           hi == limbs[3] * (Radix \div Spill) + limbs[2] \div Spill
       IN Ok(BytesOf(hi, Half) \o BytesOf(lo, Half))

FieldsToU256(fields) ==
  IF Len(fields) # 3 THEN Err
  ELSE Then(Collect([i \in 1..3 |-> UintFromField(fields[i], Half)]), FromLimbs)

-----------------------------------------------------------------------------
\* Sets.  The encoder checks the order, sort_set is the one place that makes it.

WordsToFields(items) == Collect([i \in DOMAIN items |-> FieldFromBytesCanonical(items[i])])

\* Mutant: no length prefix, as the plain encoding of a Vec.
Unprefixed(items) ==
  Then(WordsToFields(items), LAMBDA f :
    IF \A i \in 1..Len(f)-1 : f[i] < f[i + 1] THEN Ok(f) ELSE Err)

EncodeSortedSet(items) ==
  Then(WordsToFields(items), LAMBDA f :
    IF \A i \in 1..Len(f)-1 : f[i] < f[i + 1] THEN Ok(<<Len(items)>> \o f) ELSE Err)

SortSet(items) ==
  Then(WordsToFields(items), LAMBDA f :
    Ok(InOrder(ToSet(items), [w \in ToSet(items) |-> Number(w)])))
=============================================================================
