------------------------------- MODULE Client -------------------------------
(***************************************************************************)
(* The stateless half of the library at work.  Beside what Producer does,  *)
(* a client submits public inputs with a proof; the call may be altered on *)
(* its way; the chain decodes it and splits it for bb.                     *)
(***************************************************************************)
EXTENDS Producer, Wire

CONSTANTS
  CircuitHash,    \* a word
  AlloyInputs,    \* public inputs as a consumer of the library holds them
  CircuitInputs,  \* public inputs as a prover may build them
  Witnesses,      \* private inputs
  Proofs          \* sequences of proof words

-----------------------------------------------------------------------------
\* The values that the generated Rust types hold: what a public input may be.

AlloyValues(ty) ==
  CASE ty.kind = "field"   -> Word
    [] ty.kind = "array"   -> [1..ty.length -> Word]
    [] ty.kind = "integer" -> 0..Power(ty.bytes)-1
    [] ty.kind = "struct" /\ ty.path = EthAddress -> [1..AddrBytes -> Bytes]
    [] ty.kind = "struct" /\ ty.path = U256       -> Word

CircuitValues(ty) ==
  CASE ty.kind = "field"   -> Fields
    [] ty.kind = "array"   -> [1..ty.length -> Fields]
    [] ty.kind = "integer" -> 0..Power(ty.bytes)-1
    [] ty.kind = "struct" /\ ty.path = EthAddress -> Fields
    [] ty.kind = "struct" /\ ty.path = U256       -> [1..3 -> 0..Power(Half)-1]

IsInputs(inputs, Of(_)) ==
  /\ inputs = [i \in DOMAIN Public |-> inputs[i]]
  /\ \A i \in DOMAIN Public : inputs[i] \in Of(AbiTypes[Public[i]])

CallBytes == 3 * WordBytes + CombinedLen(PublicInputCount) + WordBytes

\* The count fits a u32, and a call a usize.
ASSUME WireAssumption ==
  /\ LenBytes \in 1..WordBytes /\ CountBytes \in Nat \ {0} /\ AddrBytes <= WordBytes
  /\ ProofWords \in Nat
  /\ \A i \in DOMAIN Abi : Abi[i].public => IsPublicType(Abi[i].type)
  /\ PublicInputCount < Power(CountBytes) /\ CallBytes < Power(LenBytes)

ASSUME InputsAssumption ==
  /\ CircuitHash \in Word
  /\ \A inputs \in AlloyInputs : IsInputs(inputs, AlloyValues)
  /\ \A inputs \in CircuitInputs : IsInputs(inputs, CircuitValues)
  /\ Proofs \subseteq Seq(Seq(Bytes))

-----------------------------------------------------------------------------
\* Prove and encode.  `given` and `circuit` are the inputs in both forms.
Encode(given, circuit, witness, proof) ==
  /\ stage = "idle"
  /\ stage' = "sent"
  /\ item' = [given   |-> given,
              circuit |-> circuit,
              proof   |-> proof,
              solver  |-> Then(circuit, LAMBDA c : Ok(WitnessFields(witness, c))),
              call    |-> Then(circuit, LAMBDA c :
                            Then(EncodeCombined(c, proof), LAMBDA combined :
                              Ok(AbiEncode(CircuitHash, combined))))]

SubmitAlloy(inputs, witness, proof) ==
  Encode(Ok(inputs), ToCircuitInputs(inputs), witness, proof)

SubmitCircuit(inputs, witness, proof) ==
  Encode(ToAlloyInputs(inputs), Ok(inputs), witness, proof)

\* One byte changed, some cut off, a few added.
Alterations(bytes) ==
  {[bytes EXCEPT ![i] = (@ + d) % Base] : i \in DOMAIN bytes, d \in {1, Base - 1}}
    \cup {SubSeq(bytes, 1, n) : n \in {0, WordBytes, 2 * WordBytes, Len(bytes) - WordBytes,
                                       Len(bytes) - 1}}
    \cup {bytes \o Zeros(n) : n \in {1, WordBytes}}

Alter ==
  /\ stage = "sent" /\ item.call.ok
  /\ stage' = "altered"
  /\ \E bytes \in Alterations(item.call.value) \ {item.call.value} :
       item' = [call |-> Ok(bytes)]

\* The chain: the call, the public inputs in both forms, what bb is given.
Receive ==
  /\ stage \in {"sent", "altered"} /\ item.call.ok
  /\ stage' = IF stage = "sent" THEN "received" ELSE "read"
  /\ LET call    == DecodeVerifyCall(item.call.value)
         circuit == Then(call, LAMBDA c : DecodePublicInputs(c.combined))
     IN item' = [sent  |-> item,
                 hash  |-> Then(call, LAMBDA c : Ok(c.hash)),
                 circuit |-> circuit,
                 alloy |-> Then(circuit, LAMBDA p : ToAlloyInputs(p)),
                 split |-> Then(call, LAMBDA c : SplitCombined(c.combined))]

Next ==
  \/ Produce
  \/ \E inputs \in AlloyInputs, w \in Witnesses, proof \in Proofs : SubmitAlloy(inputs, w, proof)
  \/ \E inputs \in CircuitInputs, w \in Witnesses, proof \in Proofs : SubmitCircuit(inputs, w, proof)
  \/ Alter
  \/ Receive

Spec == Init /\ [][Next]_vars

-----------------------------------------------------------------------------
(***************************************************************************)
(* Properties.                                                             *)
(***************************************************************************)

\* The solver finds every parameter at its ABI slot, and an encoded call that
\* nobody altered arrives: the chain has the same inputs in either form, and bb
\* the same public words and proof.  What has no canonical form is not sent.
IntactArrives ==
  /\ stage = "sent" =>
       /\ item.call.ok <=>
            item.given.ok /\ item.circuit.ok /\ item.proof \in [1..ProofWords -> Word]
       /\ item.solver.ok =>
            \A i \in DOMAIN Abi : Abi[i].public =>
              LET leaves == AbiLeaves(Abi[i].type, item.circuit.value[Rank(i)])
                  first  == Offset([j \in DOMAIN Abi |-> Abi[j].type], i - 1)
              IN SubSeq(item.solver.value, first + 1, first + Len(leaves)) = leaves
  /\ stage = "received" =>
       /\ item.hash = Ok(CircuitHash)
       /\ item.circuit = item.sent.circuit /\ item.alloy = item.sent.given
       /\ item.split.ok /\ item.split.value.proof = item.sent.proof

\* Whatever arrives, one call stands for one meaning: what the decoders accept
\* is, byte for byte, the encoding of what they read, and bb is handed the very
\* public inputs the chain acts on, though it finds them by the header alone.
ReadIsCanonical ==
  stage \in {"received", "read"} /\ item.circuit.ok =>
    /\ item.alloy.ok /\ item.split.ok
    /\ item.split.value.public = VerifierInputs(item.circuit.value)
    /\ Then(EncodeCombined(item.circuit.value, item.split.value.proof),
            LAMBDA combined : Ok(AbiEncode(item.hash.value, combined))) = item.sent.call
=============================================================================
