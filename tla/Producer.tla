------------------------------ MODULE Producer ------------------------------
(***************************************************************************)
(* The half of a client that makes things: it hashes entities and signs.   *)
(* `stage` says what was done last, `item` holds what went in and what     *)
(* came out: an operation is a pure function of its input and they share   *)
(* nothing else.  What a client sends and what arrives is in Client.       *)
(***************************************************************************)
EXTENDS Entity, Schnorr

CONSTANTS
  EntityFields,   \* the fields of an entity struct
  Entities,       \* values of those fields, vectors in any order
  Variants,       \* structs, good and bad, that Sample is a value of
  Sample,
  Reorders        \* orders to declare their fields in

ASSUME EntityAssumption ==
  /\ EntityFields \in Seq(FieldDecls) /\ Expand(EntityFields).ok
  /\ \A e \in Entities :
       /\ DOMAIN e = DOMAIN EntityFields
       /\ \A i \in DOMAIN EntityFields : e[i] \in Values(EntityFields[i].type)

ASSUME ReorderAssumption ==
  /\ Variants \subseteq Seq(FieldDecls)
  /\ \A fields \in Variants :
       /\ DOMAIN Sample = DOMAIN fields
       /\ \A order \in Reorders :
            /\ order \in [DOMAIN fields -> DOMAIN fields]
            /\ IsInjective(order) /\ Range(order) = DOMAIN fields

VARIABLES stage, item

vars == <<stage, item>>

Init == stage = "idle" /\ item = <<>>

\* A producer hashes an entity, having normalised its vectors or not.
HashEntity(entity, sorts) ==
  /\ stage = "idle"
  /\ stage' = "hashed"
  /\ item' = [entity |-> entity,
              sorts  |-> sorts,
              hash   |-> Then(IF sorts THEN Normalise(EntityFields, entity) ELSE Ok(entity),
                              LAMBDA e : EntityHash(EntityFields, e))]

\* The same struct, declared in another order.
HashReordered(fields, order) ==
  /\ stage = "idle"
  /\ stage' = "reordered"
  /\ item' = [fields |-> fields,
              hash   |-> EntityHash(fields, Sample),
              other  |-> EntityHash([i \in DOMAIN fields |-> fields[order[i]]],
                                    [i \in DOMAIN fields |-> Sample[order[i]]])]

Sign(sk, digests, challenge) ==
  /\ stage = "idle"
  /\ stage' = "signed"
  /\ item' = [pk        |-> PublicKey(sk),
              challenge |-> challenge,
              usable    |-> \E c \in 0..Tries-1 : Attempt(sk, digests, challenge, c).ok,
              signature |-> SignBytes(sk, digests, challenge)]

Produce ==
  \/ \E e \in Entities, sorts \in BOOLEAN : HashEntity(e, sorts)
  \/ \E fields \in Variants, order \in Reorders : HashReordered(fields, order)
  \/ \E sk \in Scalars, digests \in [0..Tries-1 -> Digests],
        challenge \in [XCoords -> Digests] : Sign(sk, digests, challenge)

-----------------------------------------------------------------------------
(***************************************************************************)
(* Properties.                                                             *)
(***************************************************************************)

Committed == Hashed(EntityFields)

\* What the hash commits to, vectors up to the order and the repetition of their
\* members.
Meaning(entity) ==
  [i \in Committed |->
     IF EntityFields[i].type = "set" THEN ToSet(entity[i]) ELSE entity[i]]

HashOf ==
  [e \in Entities |-> Then(Normalise(EntityFields, e), LAMBDA n : EntityHash(EntityFields, n))]

IsCanonical(entity) ==
  \A i \in Committed :
    CASE EntityFields[i].type = "set"     -> \A w \in ToSet(entity[i]) : Number(w) < Modulus
      [] EntityFields[i].type = "bytes32" -> Number(entity[i]) < Modulus
      [] OTHER                            -> TRUE

\* Two entities hash alike exactly if they mean the same: no value aliases another
\* modulo the field, no member crosses from one vector to the next, no limb is
\* lost.  One that was normalised hashes whenever its words are canonical, so
\* producers cannot disagree (codec.rs SortedSet, sort_set; derive lib.rs).
HashBinds ==
  stage = "hashed" =>
    /\ item.sorts => (item.hash.ok <=> IsCanonical(item.entity))
    /\ item.hash.ok =>
         \A e \in Entities :
           HashOf[e] = item.hash <=> Meaning(e) = Meaning(item.entity)

\* Where the fold order depends on the declaration: a group of several fields
\* without a position.
Positioned(fields) ==
  \A role \in {"id_body", "body"} :
    \A i, j \in Having(fields, role) :
      i # j => fields[i].pos # NoPos \/ fields[j].pos # NoPos

\* With positions, a struct is accepted and hashes alike in whatever order its
\* fields are declared, as one that mirrors a `sol!` layout must (derive lib.rs
\* on `pos = N`).
DeclarationOrderIrrelevant ==
  stage = "reordered" /\ Positioned(item.fields) => item.hash = item.other

\* Every signature that sign_bytes returns verifies, for every behaviour of the
\* hash functions, and it returns one if a nonce among those tried can give one.
SignedVerifies ==
  stage = "signed" =>
    IF item.usable
    THEN item.signature.ok /\ VerifyBytes(item.pk, item.signature.value, item.challenge)
    ELSE ~item.signature.ok
=============================================================================
