-------------------------------- MODULE Wire --------------------------------
(***************************************************************************)
(* A proof's inputs on their way to the chain: the types build.rs derives  *)
(* from a circuit's ABI, the combined proof (a count, the public words,    *)
(* the proof words), its call `abi.encode(bytes32 hash, bytes proof)`, and *)
(* the two readers of a combined proof: the typed decoder and bb's         *)
(* verify_combined.                                                        *)
(*                                                                         *)
(* The types of an ABI are listed so that parts come before what is made   *)
(* of them.  A type is [kind |-> "field"], [kind |-> "integer", bytes],    *)
(* [kind |-> "boolean"], an array [kind, of, length] or a struct [kind,    *)
(* path, fields], where `of` and `fields` name entries of the list; an ABI *)
(* is a sequence of parameters [type, public].  A value is a number, a     *)
(* boolean or a sequence; inputs are the sequence of the values of the     *)
(* parameters of one visibility.                                           *)
(***************************************************************************)
EXTENDS Codec, Sums, FiniteSets

CONSTANTS
  LenBytes,      \* bytes of an ABI offset or length, and of a usize: 8
  CountBytes,    \* bytes of the public-input count: 4
  ProofWords,    \* proof words of the circuit (82 + 12 * log_n)
  AbiTypes,      \* the types of a circuit's ABI
  Abi            \* its parameters

EthAddress == "EthAddress"
U256       == "U256"

TypesBefore(t) ==
  LET T == 1..t-1
  IN [kind : {"field", "boolean"}] \cup [kind : {"integer"}, bytes : 1..Half]
       \cup [kind : {"array"}, of : T, length : Nat]
       \cup [kind : {"struct"}, path : STRING, fields : Seq(T)]

ASSUME AbiAssumption ==
  /\ AbiTypes \in Seq(Range(AbiTypes))
  /\ \A t \in DOMAIN AbiTypes : AbiTypes[t] \in TypesBefore(t)
  /\ Abi \in Seq([type : DOMAIN AbiTypes, public : BOOLEAN])

\* A struct of one field stands for that field.
IsNewtype(ty) == ty.kind = "struct" /\ Len(ty.fields) = 1

-----------------------------------------------------------------------------
\* The layout of the inputs.

AbiFieldCount[t \in DOMAIN AbiTypes] ==
  LET ty == AbiTypes[t]
  IN CASE ty.kind = "array"  -> ty.length * AbiFieldCount[ty.of]
       [] ty.kind = "struct" -> SumOf([i \in DOMAIN ty.fields |-> AbiFieldCount[ty.fields[i]]],
                                      Len(ty.fields))
       [] OTHER              -> 1

\* What the generated code pushes for a value of a type, in ABI order: the way
\* to each leaf, and whether it is a boolean there.
AbiLeaf[t \in DOMAIN AbiTypes] ==
  LET ty == AbiTypes[t]
      At(i, part) == [n \in DOMAIN AbiLeaf[part] |->
                        [path    |-> <<i>> \o AbiLeaf[part][n].path,
                         boolean |-> AbiLeaf[part][n].boolean]]
  IN CASE ty.kind = "array"  -> FlattenSeq([i \in 1..ty.length |-> At(i, ty.of)])
       [] IsNewtype(ty)      -> AbiLeaf[ty.fields[1]]
       [] ty.kind = "struct" /\ ~IsNewtype(ty) ->
            FlattenSeq([i \in DOMAIN ty.fields |-> At(i, ty.fields[i])])
       [] OTHER              -> <<[path |-> <<>>, boolean |-> ty.kind = "boolean"]>>

Follow(v, path) ==
  LET part[n \in 0..Len(path)] == IF n = 0 THEN v ELSE part[n - 1][path[n]]
  IN part[Len(path)]

AbiLeaves(t, v) ==
  [n \in DOMAIN AbiLeaf[t] |->
     LET leaf == Follow(v, AbiLeaf[t][n].path)
     IN IF AbiLeaf[t][n].boolean THEN IF leaf THEN 1 ELSE 0 ELSE leaf]

\* The fields of the first n parameters out of those with the types ts.
Offset(ts, n) == SumOf([i \in DOMAIN ts |-> AbiFieldCount[ts[i]]], n)

Public ==
  LET kept[n \in 0..Len(Abi)] ==
        IF n = 0 THEN <<>>
        ELSE IF Abi[n].public THEN Append(kept[n - 1], Abi[n].type) ELSE kept[n - 1]
  IN kept[Len(Abi)]

PublicInputCount == Offset(Public, Len(Public))

PublicFields(inputs) ==
  FlattenSeq([i \in DOMAIN inputs |-> AbiLeaves(Public[i], inputs[i])])

\* What bb's verifier is given: 32 bytes for each of them.
VerifierInputs(inputs) ==
  LET fields == PublicFields(inputs)
  IN [i \in DOMAIN fields |-> FieldToBytes(fields[i])]

\* A parameter's place among those of its visibility.
Rank(i) == Cardinality({j \in 1..i : Abi[j].public = Abi[i].public})

\* Witness(i) of the solver is the i-th field of this sequence.
WitnessFields(witness, inputs) ==
  FlattenSeq([i \in DOMAIN Abi |->
    AbiLeaves(Abi[i].type, IF Abi[i].public THEN inputs[Rank(i)] ELSE witness[Rank(i)])])

-----------------------------------------------------------------------------
\* The Alloy types of public parameters: a word per field, an address, a 256-bit
\* integer.  The decoder accepts fields, arrays of fields, unsigned integers and
\* these two structs; with another public parameter the crate does not build.

IsPublicType(t) ==
  LET ty == AbiTypes[t]
  IN \/ ty.kind \in {"field", "integer"}
     \/ ty.kind = "array" /\ AbiTypes[ty.of].kind = "field"
     \/ /\ ty.kind = "struct" /\ ty.path = EthAddress
        /\ IsNewtype(ty) /\ AbiTypes[ty.fields[1]].kind = "field"
     \/ /\ ty.kind = "struct" /\ ty.path = U256
        /\ IsNewtype(ty) /\ AbiTypes[ty.fields[1]].kind = "array"
        /\ AbiTypes[ty.fields[1]].length = 3
        /\ AbiTypes[AbiTypes[ty.fields[1]].of] = [kind |-> "integer", bytes |-> Half]

AlloyToCircuit(ty, v) ==
  CASE ty.kind = "field" -> FieldFromBytesCanonical(v)
    [] ty.kind = "array" -> Collect([i \in DOMAIN v |-> FieldFromBytesCanonical(v[i])])
    [] ty.kind = "struct" /\ ty.path = EthAddress -> Ok(FieldFromBytes(v))
    [] ty.kind = "struct" /\ ty.path = U256       -> Ok(Limbs(v))
    [] OTHER -> Ok(v)

CircuitToAlloy(ty, v) ==
  CASE ty.kind = "field" -> FieldToArray(v, WordBytes)
    [] ty.kind = "array" -> Collect([i \in DOMAIN v |-> FieldToArray(v[i], WordBytes)])
    [] ty.kind = "struct" /\ ty.path = EthAddress -> FieldToArray(v, AddrBytes)
    [] ty.kind = "struct" /\ ty.path = U256       -> FromLimbs(v)
    [] OTHER -> Ok(v)

ToCircuitInputs(inputs) ==
  Collect([i \in DOMAIN inputs |-> AlloyToCircuit(AbiTypes[Public[i]], inputs[i])])
ToAlloyInputs(inputs) ==
  Collect([i \in DOMAIN inputs |-> CircuitToAlloy(AbiTypes[Public[i]], inputs[i])])

-----------------------------------------------------------------------------
\* The combined proof.

WordsOf(bytes) ==
  [i \in 1..Len(bytes) \div WordBytes |->
     SubSeq(bytes, (i - 1) * WordBytes + 1, i * WordBytes)]

CombinedLen(n) == CountBytes + (n + ProofWords) * WordBytes

IsCanonicalFieldWord(word) == FieldToBytes(FieldFromBytes(word)) = word

\* Mutant: the count in the header is not compared.
WordsUncounted(combined, n) ==
  IF Len(combined) # CombinedLen(n) THEN Err
  ELSE LET words == WordsOf(SubSeq(combined, CountBytes + 1, CountBytes + n * WordBytes))
       IN IF \A i \in 1..n : IsCanonicalFieldWord(words[i])
          THEN Ok(words) ELSE Err

\* The n public words of a combined proof.
DecodePublicWords(combined, n) ==
  IF \/ Len(combined) < CountBytes
     \/ Number(SubSeq(combined, 1, CountBytes)) # n
     \/ Len(combined) # CombinedLen(n)
  THEN Err
  ELSE LET words == WordsOf(SubSeq(combined, CountBytes + 1, CountBytes + n * WordBytes))
       IN IF \A i \in 1..n : IsCanonicalFieldWord(words[i])
          THEN Ok(words) ELSE Err

\* One public input out of its words.
DecodeInput(ty, words) ==
  LET fields == [i \in DOMAIN words |-> FieldFromBytes(words[i])]
  IN CASE ty.kind = "field"   -> Ok(fields[1])
       [] ty.kind = "array"   -> Ok(fields)
       [] ty.kind = "integer" -> UintFromField(fields[1], ty.bytes)
       [] ty.kind = "struct" /\ ty.path = EthAddress ->
            IF SubSeq(words[1], 1, WordBytes - AddrBytes) = Zeros(WordBytes - AddrBytes)
            THEN Ok(fields[1]) ELSE Err
       [] ty.kind = "struct" /\ ty.path = U256 ->
            Then(FieldsToU256(fields), LAMBDA word : Ok(fields))

DecodePublicInputs(combined) ==
  Then(DecodePublicWords(combined, PublicInputCount), LAMBDA words :
    Collect([i \in DOMAIN Public |->
      DecodeInput(AbiTypes[Public[i]], SubSeq(words, Offset(Public, i - 1) + 1, Offset(Public, i)))]))

\* The encoder refuses what the decoder would.
EncodeCombined(inputs, proof) ==
  LET fields   == PublicFields(inputs)
      combined == BytesOf(PublicInputCount, CountBytes)
                    \o FlattenSeq([i \in DOMAIN fields |-> FieldToBytes(fields[i])])
                    \o FlattenSeq(proof)
  IN IF Len(proof) # ProofWords \/ \E i \in DOMAIN proof : Len(proof[i]) # WordBytes
     THEN Err
     ELSE Then(DecodePublicInputs(combined), LAMBDA decoded : Ok(combined))

\* verify_combined: public words and proof words, by the header alone.
SplitCombined(combined) ==
  LET count == Number(SubSeq(combined, 1, CountBytes))
      end   == CountBytes + count * WordBytes
  IN IF \/ Len(combined) < CountBytes
        \/ Len(combined) < end
        \/ (Len(combined) - end) % WordBytes # 0
     THEN Err
     ELSE Ok([public |-> WordsOf(SubSeq(combined, CountBytes + 1, end)),
              proof  |-> WordsOf(SubSeq(combined, end + 1, Len(combined)))])

-----------------------------------------------------------------------------
\* The call.

CheckedAdd(a, b) == IF a + b < Power(LenBytes) THEN Ok(a + b) ELSE Err

ReadPadded(slot) ==
  IF SubSeq(slot, 1, WordBytes - LenBytes) = Zeros(WordBytes - LenBytes)
  THEN Ok(Number(slot)) ELSE Err

Padding(length) == (WordBytes - (length % WordBytes)) % WordBytes

\* abi.encode(bytes32, bytes), by the caller's library.
AbiEncode(hash, data) ==
  hash \o BytesOf(2 * WordBytes, WordBytes) \o BytesOf(Len(data), WordBytes)
       \o data \o Zeros(Padding(Len(data)))

DecodeVerifyCall(input) ==
  IF Len(input) < 2 * WordBytes THEN Err
  ELSE Then(ReadPadded(SubSeq(input, WordBytes + 1, 2 * WordBytes)), LAMBDA offset :
    IF offset # 2 * WordBytes THEN Err
    ELSE Then(CheckedAdd(offset, WordBytes), LAMBDA header :
      IF Len(input) < header THEN Err
      ELSE Then(ReadPadded(SubSeq(input, offset + 1, header)), LAMBDA length :
        Then(CheckedAdd(header, length), LAMBDA end :
          IF Len(input) < end THEN Err
          ELSE Then(CheckedAdd(end, Padding(length)), LAMBDA total :
            IF Len(input) # total \/ SubSeq(input, end + 1, total) # Zeros(total - end)
            THEN Err
            ELSE Ok([hash     |-> SubSeq(input, 1, WordBytes),
                     combined |-> SubSeq(input, header + 1, end)]))))))
=============================================================================
