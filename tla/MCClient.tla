------------------------------- MODULE MCClient -------------------------------
\* An entity with every kind of field, an ABI with every kind of parameter.
EXTENDS Client

W(n) == BytesOf(n, WordBytes)
A(n) == BytesOf(n, AddrBytes)

Field(type, roles, pos, limbed) ==
  [type |-> type, roles |-> roles, pos |-> pos, limbed |-> limbed, marked |-> TRUE]

SpendingUnit ==
  <<Field("bytes32", {"id_seed"}, NoPos, FALSE),
    Field("address", {"id_body", "owner"}, NoPos, FALSE),
    Field("set", {"body"}, 2, FALSE),
    Field("uint256", {"body"}, 1, TRUE),
    Field("set", {"body"}, 3, FALSE),
    Field("address", {"skip"}, NoPos, FALSE)>>

\* Vectors of members below, at and above the lengths they may be taken for;
\* one of them is no field element, another one aliases it.
Vectors == UNION {[1..n -> {W(1), W(2), W(Modulus + 1)}] : n \in 0..2}

AllEntities ==
  {<<W(seed[1]), A(9), one, W(amount), two, A(seed[2])>> :
     seed \in {<<2, 1>>, <<2, 2>>, <<Modulus + 2, 1>>}, one \in Vectors, amount \in {8, 88}, two \in Vectors}

OneEntity == <<W(2), A(9), <<W(1)>>, W(88), <<W(1), W(2)>>, A(1)>>

Tweaks ==
  {SpendingUnit,
   [SpendingUnit EXCEPT ![1].roles = {"owner"}],
   [SpendingUnit EXCEPT ![2].roles = {"id_seed", "owner"}],
   [SpendingUnit EXCEPT ![3].limbed = TRUE],
   [SpendingUnit EXCEPT ![4].limbed = FALSE],
   [SpendingUnit EXCEPT ![4].roles = {"skip", "body"}],
   [SpendingUnit EXCEPT ![6].roles = {}, ![6].marked = FALSE]}

Structs ==
  {[s EXCEPT ![3].pos = a, ![4].pos = b, ![5].pos = c] :
     s \in Tweaks, a \in NoPos..3, b \in NoPos..3, c \in NoPos..3}

Orders == {<<1, 2, 3, 4, 5, 6>>, <<6, 5, 4, 3, 2, 1>>, <<2, 1, 4, 3, 5, 6>>, <<3, 5, 1, 2, 6, 4>>}

-----------------------------------------------------------------------------
Uint(w)     == [kind |-> "integer", bytes |-> w]
Array(t, n) == [kind |-> "array", of |-> t, length |-> n]
Struct(path, parts) == [kind |-> "struct", path |-> path, fields |-> parts]

CircuitTypes ==
  <<[kind |-> "field"], [kind |-> "boolean"], Uint(1), Uint(Half),
    Array(1, 2), Array(2, 2), Array(4, 3),
    Struct("EmbeddedCurvePoint", <<1, 1>>), Struct(EthAddress, <<1>>), Struct(U256, <<7>>)>>

CircuitAbi ==
  <<[type |-> 8, public |-> FALSE], [type |-> 3, public |-> TRUE],
    [type |-> 1, public |-> TRUE], [type |-> 6, public |-> FALSE],
    [type |-> 9, public |-> TRUE], [type |-> 10, public |-> TRUE],
    [type |-> 5, public |-> TRUE]>>

Top == Base ^ WordBytes - 1

Alloys ==
  {<<chain, W(f), A(a), W(amount), <<W(0), W(g)>>>> :
     chain \in {0, Base - 1}, f \in {0, Modulus}, a \in {0, Base ^ AddrBytes - 1},
     amount \in {0, Top}, g \in {Modulus - 1, Modulus}}
    \cup {<<1, W(1), A(1), W(amount), <<W(1), W(2)>>>> : amount \in {3 * n : n \in 0..Top \div 3}}

Circuits ==
  {<<1, 5, a, <<l, m, h>>, <<1, 2>>>> :
     a \in {Base ^ AddrBytes - 1, Base ^ AddrBytes},
     l \in {0, Radix - 1, Radix}, m \in {0, Radix - 1, Radix}, h \in {0, Spill ^ 2 - 1, Spill ^ 2}}

TwoWitnesses == {<<<<5, 6>>, <<TRUE, FALSE>>>>}
SomeProofs   == {<<W(77)>>, <<>>, <<A(1)>>}
TheHash      == W(200)
SomeDigests  == 0..6
=============================================================================
