------------------------------- MODULE Entity -------------------------------
(***************************************************************************)
(* The hash of an NFT entity: `#[derive(Entity)]` reads the preimage off a *)
(* struct, entity.rs folds it.                                             *)
(*                                                                         *)
(* A struct is the sequence of its fields as declared: the type, what the  *)
(* `#[outbe(...)]` attribute says, and NoPos without `pos = N`.  An entity *)
(* gives each field a value.  A hash is the sequence of field elements     *)
(* that were folded, two to one, from the seed: equal only for equal       *)
(* sequences.                                                              *)
(***************************************************************************)
EXTENDS Codec

NoPos == 0

Types == {"bytes32", "address", "uint256", "set"}
Roles == {"id_seed", "id_body", "owner", "body", "skip"}

FieldDecls ==
  [type : Types, roles : SUBSET Roles, pos : Nat, limbed : BOOLEAN, marked : BOOLEAN]

\* The values of a type; those of a vector are words.
Values(type) ==
  CASE type = "address" -> [1..AddrBytes -> Bytes]
    [] type = "set"     -> Seq(Word)
    [] OTHER            -> Word

\* The types with a FieldElement impl; a uint256 has only FieldEncode.
Elements == {"bytes32", "address"}

Declared(members)       == InOrder(members, [i \in members |-> i])
Sorted(fields, members) == InOrder(members, [i \in members |-> fields[i].pos])

\* Mutant: fields of equal position are folded as declared.
OrderLoosely(fields, members) ==
  IF \A i \in members : fields[i].pos = NoPos THEN Ok(Declared(members))
  ELSE IF \E i \in members : fields[i].pos = NoPos THEN Err
  ELSE Ok(InOrder(members, [i \in members |-> fields[i].pos * (Len(fields) + 1) + i]))

\* Positions for all members of a group or for none, and unique.
OrderGroup(fields, members) ==
  LET pos(i) == fields[i].pos
  IN IF \A i \in members : pos(i) = NoPos THEN Ok(Declared(members))
     ELSE IF \E i \in members : pos(i) = NoPos THEN Err
     ELSE IF \E i, j \in members : i # j /\ pos(i) = pos(j) THEN Err
     ELSE Ok(Sorted(fields, members))

\* A field must carry the attribute.
ParseFieldCfg(field) == IF field.marked THEN Ok(field) ELSE Err

\* The fields of a role; a skipped field has none.
Having(fields, role) ==
  {i \in DOMAIN fields : role \in fields[i].roles /\ "skip" \notin fields[i].roles}

\* What the macro refuses to compile.
Refused(fields) ==
  LET single(i) == fields[i].type \in Elements
      folded    == Having(fields, "id_body") \cup Having(fields, "body")
  IN \/ \E i \in DOMAIN fields : ~ParseFieldCfg(fields[i]).ok
     \/ \E i \in DOMAIN fields :
          "skip" \notin fields[i].roles /\ fields[i].limbed /\ fields[i].type = "set"
     \/ Cardinality(Having(fields, "id_seed")) # 1
     \/ Cardinality(Having(fields, "owner")) > 1
     \/ \E i \in Having(fields, "id_seed") \cup Having(fields, "owner") : ~single(i)
     \/ \E i \in folded : ~(fields[i].type = "set" \/ fields[i].limbed \/ single(i))

\* What the derive macro generates, or a compile error.
Expand(fields) ==
  IF Refused(fields) THEN Err
  ELSE Then(OrderGroup(fields, Having(fields, "id_body")), LAMBDA idBody :
         Then(OrderGroup(fields, Having(fields, "body")), LAMBDA body :
           Ok([seed   |-> CHOOSE i \in Having(fields, "id_seed") : TRUE,
               idBody |-> idBody,
               body   |-> body])))

-----------------------------------------------------------------------------
ToField(type, v) == IF type = "bytes32" THEN FieldFromBytesCanonical(v)
                                        ELSE Ok(FieldFromBytes(v))

\* A set, a value in limbs, or a single element.
EncodeField(field, v) ==
  CASE field.type = "set"     -> EncodeSortedSet(v)
    [] field.type = "uint256" -> Ok(Limbs(v))
    [] OTHER                  -> Then(ToField(field.type, v), LAMBDA f : Ok(<<f>>))

EncodeGroup(fields, group, entity) ==
  Then(Collect([n \in DOMAIN group |-> EncodeField(fields[group[n]], entity[group[n]])]),
       LAMBDA parts : Ok(FlattenSeq(parts)))

Iterate(seed, body) == seed \o body

Id(fields, impl, entity) ==
  Then(EncodeGroup(fields, impl.idBody, entity), LAMBDA body :
    Then(ToField(fields[impl.seed].type, entity[impl.seed]), LAMBDA seed :
      Ok(Iterate(<<seed>>, body))))

EntityHash(fields, entity) ==
  Then(Expand(fields), LAMBDA impl :
    Then(EncodeGroup(fields, impl.body, entity), LAMBDA body :
      Then(Id(fields, impl, entity), LAMBDA id : Ok(Iterate(id, body)))))

\* What the hash commits to.
Hashed(fields) == UNION {Having(fields, role) : role \in {"id_seed", "id_body", "body"}}

\* A producer runs every vector that is hashed through sort_set first.
Normalise(fields, entity) ==
  Collect([i \in DOMAIN fields |->
             IF i \in Hashed(fields) /\ fields[i].type = "set"
             THEN SortSet(entity[i]) ELSE Ok(entity[i])])
=============================================================================
