-------------------------- MODULE Ownership_proofs --------------------------
(***************************************************************************)
(* Proofs about Ownership, for any wallets, contexts, NFTs and proofs.     *)
(* The argument: the owner of an NFT is derived from a key that only the   *)
(* recipient's secret and the attester's opaque secret give (NftOK); a     *)
(* proof's owner is derived from a key its prover could come by (ProofOK); *)
(* no two wallets can come by one key; and a binding determines its        *)
(* context.                                                                *)
(***************************************************************************)
EXTENDS Ownership, SequenceTheorems, TLAPS

\* The secrets behind the key of an NFT.
Secrets(nft, i) == IF nft.local THEN {nft.to} ELSE {nft.to, i}

\* What was issued as number i.
NftOK(nft, i) ==
  /\ nft.to \in Wallets /\ nft.local \in BOOLEAN /\ nft.opaque = i
  /\ nft.seed = [pk |-> [shared |-> Secrets(nft, i), nonce |-> i], nonce |-> i]
  /\ nft.receipt = [id |-> i, owner |-> nft.seed, nft |-> [id |-> i, owner |-> nft.seed]]

\* A proof shows a key its prover could come by, for the context it was meant for.
ProofOK(p) ==
  /\ p.by \in Wallets /\ p.meant \in Contexts
  /\ p.public.owner.pk \in Keys(p.by)
  /\ p.public.binding = Binding(p.meant)

IInv ==
  /\ TypeOK
  /\ \A i \in DOMAIN nfts : NftOK(nfts[i], i)
  /\ \A k \in DOMAIN proofs : ProofOK(proofs[k])
  /\ AcceptedIsMeant

-----------------------------------------------------------------------------
\* Facts about the formulas.

\* A context is what its binding hashes (hash.rs binding_hash).
LEMMA BindingInjective ==
  ASSUME NEW c \in Contexts, NEW d \in Contexts, Binding(c) = Binding(d)
  PROVE  c = d
  <1>1. /\ c.sender = d.sender /\ c.commitment = d.commitment
        /\ c.host = d.host /\ c.l2 = d.l2
    BY DEF Binding
  <1> QED  BY <1>1 DEF Contexts

\* The keys of a wallet, by the secrets they are derived from.
LEMMA KeysOf ==
  ASSUME NEW w \in Wallets, NEW key
  PROVE  key \in Keys(w) <=>
           \/ \E o \in Ids, n \in Ids : key = [shared |-> {w, o}, nonce |-> n]
           \/ \E n \in Ids : key = [shared |-> {w}, nonce |-> n]
  BY DEF Keys, FromExchange, Local, Shared, DeriveNftSecret

\* The key of an NFT is its recipient's and nobody else's.
LEMMA KeyIsRecipients ==
  ASSUME NEW i \in Ids, NEW nft, NftOK(nft, i), NEW w \in Wallets,
         nft.receipt.owner.pk \in Keys(w)
  PROVE  w = nft.to
  <1>1. nft.receipt.owner.pk.shared = Secrets(nft, i) /\ nft.to \in Wallets
    BY DEF NftOK
  <1>2. \/ \E o \in Ids : Secrets(nft, i) = {w, o}
        \/ Secrets(nft, i) = {w}
    BY <1>1, KeysOf
  <1>3. \A o \in Ids : o \notin Wallets
    BY WalletsAssumption DEF Ids
  <1>4. w \in Secrets(nft, i)
    BY <1>2
  <1> QED  BY <1>1, <1>3, <1>4 DEF Secrets

\* A wallet derives the key of an NFT from its transcript iff it was issued to it.
LEMMA SignerMatches ==
  ASSUME NEW i \in Ids, NEW j \in Ids, NftOK(nfts[i], i), NftOK(nfts[j], j), NEW w \in Wallets
  PROVE  /\ SignerFor(w, j).pk \in Keys(w)
         /\ LET seed == SignerFor(w, j)
            IN DeriveOwner(seed.pk, seed.nonce) = nfts[i].receipt.owner
                 <=> w = nfts[i].to /\ j = i
  <1> DEFINE seed == SignerFor(w, j)
             secrets == IF nfts[j].local THEN {w} ELSE {w, j}
  <1>1. seed = [pk |-> [shared |-> secrets, nonce |-> j], nonce |-> j]
    <2>1. nfts[j].seed.nonce = j /\ nfts[j].opaque = j
      BY DEF NftOK
    <2> QED  BY <2>1 DEF SignerFor, Local, FromExchange, Shared, DeriveNftSecret
  <1>2. seed.pk \in Keys(w)
    BY <1>1, KeysOf
  <1>3. nfts[i].receipt.owner = [pk |-> [shared |-> Secrets(nfts[i], i), nonce |-> i], nonce |-> i]
    BY DEF NftOK
  <1>4. DeriveOwner(seed.pk, seed.nonce) = nfts[i].receipt.owner
          <=> secrets = Secrets(nfts[i], i) /\ j = i
    BY <1>1, <1>3 DEF DeriveOwner
  <1>5. i \notin Wallets /\ nfts[i].to \in Wallets
    BY WalletsAssumption DEF Ids, NftOK
  <1>6. j = i => (secrets = Secrets(nfts[i], i) <=> w = nfts[i].to)
    BY <1>5 DEF Secrets
  <1> QED  BY <1>2, <1>4, <1>6

-----------------------------------------------------------------------------
\* Facts about the tree and its paths.

\* What was issued, as types.
LEMMA NftTypes ==
  ASSUME NEW i \in Ids, NEW nft, NftOK(nft, i)
  PROVE  /\ nft.seed \in Owners /\ nft.receipt.owner \in Owners
         /\ nft.receipt.nft \in EntityHash
         /\ nft.receipt.id = i
  <1>1. Secrets(nft, i) \in SUBSET (Ids \cup Wallets)
    BY DEF NftOK, Secrets
  <1>2. nft.seed \in Owners
    BY <1>1 DEF NftOK, Owners, PublicKeys
  <1> QED  BY <1>2 DEF NftOK, EntityHash

\* The NFTs are numbered from 1.
LEMMA NftsFacts ==
  ASSUME TypeOK
  PROVE  /\ Len(nfts) \in Nat /\ DOMAIN nfts = 1..Len(nfts) /\ DOMAIN nfts \subseteq Ids
         /\ Len(leaves) \in Nat /\ DOMAIN leaves = 1..Len(leaves)
         /\ \A n \in DOMAIN leaves : leaves[n] \in DOMAIN nfts
         /\ DOMAIN proofs = 1..Len(proofs)
  BY LenProperties, BoundsAssumption DEF TypeOK, Ids

LEMMA FunctionIsSeq ==
  ASSUME NEW S, NEW n \in Nat, NEW f \in [1..n -> S]
  PROVE  f \in Seq(S)
  OBVIOUS

\* The hashes the tree held after n registrations.
LEMMA HashesFacts ==
  ASSUME IInv, NEW n \in 1..Len(leaves)
  PROVE  /\ Root(n).leaves \in [1..n -> EntityHash]
         /\ \A m \in 1..n : Root(n).leaves[m] = nfts[leaves[m]].receipt.nft
  <1> DEFINE prefix == SubSeq(leaves, 1, n)
  <1>1. TypeOK /\ n \in Nat /\ \A m \in 1..n : leaves[m] \in DOMAIN nfts
    BY NftsFacts DEF IInv
  <1>2. /\ prefix \in Seq(DOMAIN nfts) /\ Len(prefix) = n
        /\ \A m \in 1..n : prefix[m] = leaves[m]
    BY <1>1, SubSeqProperties
  <1>3. DOMAIN prefix = 1..n
    BY <1>2, LenProperties
  <1>4. \A i \in DOMAIN nfts : nfts[i].receipt.nft \in EntityHash
    BY <1>1, NftsFacts, NftTypes DEF IInv
  <1> HIDE DEF prefix
  <1>5. Hashes(prefix) \in [1..n -> EntityHash]
    BY <1>1, <1>2, <1>3, <1>4 DEF Hashes
  <1>6. \A m \in 1..n : Hashes(prefix)[m] = nfts[leaves[m]].receipt.nft
    BY <1>2, <1>3 DEF Hashes
  <1> QED  BY <1>5, <1>6 DEF Root, prefix

\* A path was taken from the tree as it was after n registrations, or from
\* another tree with those leaves.
LEMMA PathFacts ==
  ASSUME NEW path \in Paths, Len(leaves) \in Nat
  PROVE  \E n \in 1..Len(leaves) :
           /\ path.leaves = Root(n).leaves
           /\ path.index \in 1..n
           /\ path.domain \in {TributeDomain, OtherDomain}
           /\ path \in [domain : {TributeDomain, OtherDomain}, leaves : {Root(n).leaves},
                         index : 1..n]
  <1>1. PICK n \in 1..Len(leaves) :
          path \in [domain : {TributeDomain, OtherDomain}, leaves : {Root(n).leaves},
                    index : 1..n]
    BY DEF Paths
  <1> QED  BY <1>1

\* A path gives the root of the tree it was taken from iff the leaf is its own.
LEMMA PathRootFacts ==
  ASSUME IInv, NEW path \in Paths, path.domain = TributeDomain, NEW nft \in EntityHash
  PROVE  /\ PathRoot(path, nft) \in Roots
         /\ path.leaves[path.index] = nft =>
              \E n \in 1..Len(leaves) : PathRoot(path, nft) = Root(n)
  <1>1. TypeOK /\ Len(leaves) \in Nat
    BY NftsFacts DEF IInv
  <1>2. PICK n \in 1..Len(leaves) : path.leaves = Root(n).leaves /\ path.index \in 1..n
    BY <1>1, PathFacts
  <1>3. path.leaves \in [1..n -> EntityHash] /\ n \in Nat
    BY <1>1, <1>2, HashesFacts
  <1>4. [path.leaves EXCEPT ![path.index] = nft] \in Seq(EntityHash)
    <2>1. [path.leaves EXCEPT ![path.index] = nft] \in [1..n -> EntityHash]
      BY <1>3
    <2> QED  BY <1>3, <2>1, FunctionIsSeq
  <1>5. PathRoot(path, nft) \in Roots
    BY <1>4 DEF PathRoot, Roots
  <1>6. ASSUME path.leaves[path.index] = nft
        PROVE  PathRoot(path, nft) = Root(n)
    <2>1. [path.leaves EXCEPT ![path.index] = nft] = path.leaves
      BY <1>2, <1>3, <1>6
    <2>2. Root(n) = [domain |-> TributeDomain, leaves |-> Root(n).leaves]
      BY DEF Root
    <2> QED  BY <1>2, <2>1, <2>2 DEF PathRoot
  <1> QED  BY <1>5, <1>6

\* The circuit hashes with the tribute domain, whatever the path says.
LEMMA DomainChecked ==
  ASSUME NEW path \in Paths, Len(leaves) \in Nat, path.domain = TributeDomain
  PROVE  [path EXCEPT !.domain = TributeDomain] = path
  BY PathFacts

-----------------------------------------------------------------------------
\* The invariant.

\* A proof of a key its prover has, for the context it is meant for.
LEMMA AddProofKeeps ==
  ASSUME IInv, NEW w \in Wallets, NEW c \in Contexts,
         NEW statement \in {"ownership", "tribute"}, NEW public \in Publics,
         public.owner.pk \in Keys(w), public.binding = Binding(c),
         AddProof(w, c, statement, public)
  PROVE  IInv'
  <1> DEFINE p == [by |-> w, meant |-> c, statement |-> statement, public |-> public]
  <1>1. p \in Proofs /\ ProofOK(p)
    BY DEF Proofs, ProofOK
  <1>2. proofs \in Seq(Proofs) /\ proofs' = Append(proofs, p) /\ Len(proofs) < MaxProofs
    BY DEF IInv, TypeOK, AddProof
  <1> HIDE DEF p
  <1>3. /\ proofs' \in Seq(Proofs) /\ Len(proofs') = Len(proofs) + 1
        /\ Len(proofs) \in Nat /\ DOMAIN proofs = 1..Len(proofs)
        /\ DOMAIN proofs' = 1..(Len(proofs) + 1)
        /\ \A k \in DOMAIN proofs : proofs'[k] = proofs[k]
        /\ proofs'[Len(proofs) + 1] = p
    BY <1>1, <1>2
  <1>4. UNCHANGED <<nfts, leaves, accepted>>
    BY DEF AddProof
  <1>5. TypeOK'
    BY <1>2, <1>3, <1>4, BoundsAssumption DEF IInv, TypeOK
  <1>6. \A k \in DOMAIN proofs' : ProofOK(proofs'[k])
    BY <1>1, <1>3 DEF IInv
  <1>7. \A i \in DOMAIN nfts' : NftOK(nfts'[i], i)
    BY <1>4 DEF IInv
  <1>8. AcceptedIsMeant'
    BY <1>3, <1>4 DEF IInv, AcceptedIsMeant
  <1> QED  BY <1>5, <1>6, <1>7, <1>8 DEF IInv, ProofOK

\* The builder makes proofs of that kind.
LEMMA BuiltFacts ==
  ASSUME IInv, NEW w \in Wallets, NEW j \in DOMAIN nfts, NEW i \in DOMAIN nfts,
         NEW c \in Contexts,
         DeriveOwnershipWitness(w, j, i, Binding(c)).ok
  PROVE  LET public == DeriveOwnershipWitness(w, j, i, Binding(c)).public
         IN /\ public \in Publics
            /\ public.owner.pk \in Keys(w) /\ public.binding = Binding(c)
            /\ public.nft = nfts[i].receipt.nft /\ public.nft \in EntityHash
  <1> DEFINE seed   == SignerFor(w, j)
             public == DeriveOwnershipWitness(w, j, i, Binding(c)).public
  <1>1. i \in Ids /\ j \in Ids /\ NftOK(nfts[i], i) /\ NftOK(nfts[j], j)
    BY NftsFacts DEF IInv
  <1>2. /\ seed.pk \in Keys(w)
        /\ DeriveOwner(seed.pk, seed.nonce) = nfts[i].receipt.owner
    BY <1>1, SignerMatches DEF DeriveOwnershipWitness
  <1>3. public = [owner |-> nfts[i].receipt.owner, nft |-> nfts[i].receipt.nft,
                  binding |-> Binding(c), root |-> NoRoot]
    BY DEF DeriveOwnershipWitness
  <1>4. nfts[i].receipt.owner \in Owners /\ nfts[i].receipt.nft \in EntityHash
    BY <1>1, NftTypes
  <1>5. public \in Publics
    BY <1>3, <1>4 DEF Publics
  <1>6. public.owner.pk = seed.pk
    BY <1>2, <1>3 DEF DeriveOwner
  <1> QED  BY <1>2, <1>3, <1>4, <1>5, <1>6

LEMMA ProveKeeps ==
  ASSUME IInv, NEW w \in Wallets, NEW j \in DOMAIN nfts, NEW i \in DOMAIN nfts,
         NEW c \in Contexts, ProveOwnership(w, j, i, c)
  PROVE  IInv'
  BY BuiltFacts, AddProofKeeps DEF ProveOwnership

LEMMA ProveTributeKeeps ==
  ASSUME IInv, NEW w \in Wallets, NEW j \in DOMAIN nfts, NEW i \in DOMAIN nfts,
         NEW c \in Contexts, NEW path \in Paths, ProveTribute(w, j, i, c, path)
  PROVE  IInv'
  <1> DEFINE built  == DeriveOwnershipWitness(w, j, i, Binding(c))
             root   == PathRoot(path, nfts[i].receipt.nft)
             public == [built.public EXCEPT !.root = root]
  <1>1. /\ built.ok /\ path.domain = TributeDomain
        /\ AddProof(w, c, "tribute", public)
    BY DEF ProveTribute, DeriveTributeWitness, DeriveOwnershipWitness
  <1>2. /\ built.public \in Publics /\ built.public.owner.pk \in Keys(w)
        /\ built.public.binding = Binding(c) /\ nfts[i].receipt.nft \in EntityHash
    BY <1>1, BuiltFacts
  <1>3. root \in Roots
    BY <1>1, <1>2, PathRootFacts
  <1> HIDE DEF built, root
  <1>4. public \in Publics /\ public.owner.pk \in Keys(w) /\ public.binding = Binding(c)
    BY <1>2, <1>3 DEF Publics
  <1> QED  BY <1>1, <1>4, AddProofKeeps

LEMMA ProveFreelyKeeps ==
  ASSUME IInv, NEW w \in Wallets, NEW j \in DOMAIN nfts, NEW i \in DOMAIN nfts,
         NEW n \in Ids, NEW c \in Contexts, NEW key \in Keys(w),
         ProveFreely(w, key, n, j, i, c)
  PROVE  IInv'
  <1> DEFINE public == [owner |-> nfts[j].receipt.owner, nft |-> nfts[i].receipt.nft,
                        binding |-> Binding(c), root |-> NoRoot]
  <1>1. DeriveOwner(key, n) = nfts[j].receipt.owner /\ AddProof(w, c, "ownership", public)
    BY DEF ProveFreely, OwnershipCircuit, VerifyOwnershipPerSu
  <1>2. nfts[j].receipt.owner \in Owners /\ nfts[i].receipt.nft \in EntityHash
    BY NftsFacts, NftTypes DEF IInv
  <1>3. public \in Publics /\ public.owner.pk \in Keys(w) /\ public.binding = Binding(c)
    BY <1>1, <1>2 DEF Publics, DeriveOwner
  <1> QED  BY <1>1, <1>3, AddProofKeeps

LEMMA IssueKeeps ==
  ASSUME IInv, NEW w \in Wallets, NEW l \in BOOLEAN, Issue(w, l)
  PROVE  IInv'
  <1> DEFINE id  == Len(nfts) + 1
             nft == NewNft(w, l)
  <1>1. /\ nfts \in Seq(Nfts) /\ nfts' = Append(nfts, nft) /\ Len(nfts) < MaxNfts
        /\ Len(nfts) \in Nat /\ id \in Ids
    BY NftsFacts, BoundsAssumption DEF IInv, TypeOK, Issue, Ids
  <1>2. NftOK(nft, id)
    BY DEF NewNft, Local, IssueForRemote, DeriveNftSecret, DeriveOwner, NftHash, Shared,
           NftOK, Secrets
  <1>3. nft \in Nfts
    <2>1. nft = [to |-> w, local |-> l, opaque |-> id, seed |-> nft.seed,
                 receipt |-> [id |-> id, owner |-> nft.receipt.owner, nft |-> nft.receipt.nft]]
      BY DEF NewNft
    <2>2. nft.seed \in Owners /\ nft.receipt.owner \in Owners /\ nft.receipt.nft \in EntityHash
      BY <1>1, <1>2, NftTypes
    <2> HIDE DEF nft
    <2> QED  BY <1>1, <2>1, <2>2 DEF Nfts
  <1> HIDE DEF nft
  <1>4. /\ nfts' \in Seq(Nfts) /\ Len(nfts') = Len(nfts) + 1
        /\ DOMAIN nfts = 1..Len(nfts) /\ DOMAIN nfts' = 1..(Len(nfts) + 1)
        /\ \A i \in DOMAIN nfts : nfts'[i] = nfts[i]
        /\ nfts'[id] = nft
    BY <1>1, <1>3
  <1>5. UNCHANGED <<leaves, proofs, accepted>>
    BY DEF Issue
  <1>6. DOMAIN nfts \subseteq DOMAIN nfts'
    BY <1>1, <1>4
  <1>7. leaves' \in Seq(DOMAIN nfts')
    BY <1>5, <1>6, SeqMonotonic DEF IInv, TypeOK
  <1>8. TypeOK'
    BY <1>1, <1>4, <1>5, <1>6, <1>7, BoundsAssumption DEF IInv, TypeOK
  <1>9. \A i \in DOMAIN nfts' : NftOK(nfts'[i], i)
    BY <1>1, <1>2, <1>4 DEF IInv
  <1>10. AcceptedIsMeant'
    <2>1. \A a \in accepted : a.nft \in DOMAIN nfts
      BY DEF IInv, TypeOK
    <2> QED  BY <1>4, <1>5, <2>1 DEF IInv, AcceptedIsMeant
  <1>11. \A k \in DOMAIN proofs' : ProofOK(proofs'[k])
    BY <1>5 DEF IInv
  <1> QED  BY <1>8, <1>9, <1>10, <1>11 DEF IInv, ProofOK

LEMMA RegisterKeeps ==
  ASSUME IInv, NEW i \in DOMAIN nfts, Register(i)
  PROVE  IInv'
  <1>1. leaves' \in Seq(DOMAIN nfts) /\ UNCHANGED <<nfts, proofs, accepted>>
    BY DEF Register, IInv, TypeOK
  <1>2. TypeOK' /\ AcceptedIsMeant'
    BY <1>1 DEF IInv, TypeOK, AcceptedIsMeant
  <1> QED  BY <1>1, <1>2 DEF IInv, ProofOK

LEMMA SubmitKeeps ==
  ASSUME IInv, NEW k \in DOMAIN proofs, NEW i \in DOMAIN nfts, NEW c \in Contexts,
         Submit(k, i, c)
  PROVE  IInv'
  <1> DEFINE p == proofs[k]
             a == [nft |-> i, context |-> c]
  <1>1. /\ Accepts(p, i, c) /\ accepted' = accepted \cup {a}
        /\ UNCHANGED <<nfts, leaves, proofs>>
    BY DEF Submit
  <1>2. ProofOK(p) /\ i \in Ids /\ NftOK(nfts[i], i)
    BY NftsFacts DEF IInv
  <1>3. p.by = nfts[i].to
    BY <1>1, <1>2, KeyIsRecipients DEF Accepts, ProofOK
  <1>4. p.meant = c
    BY <1>1, <1>2, BindingInjective DEF Accepts, ProofOK
  <1>5. p.public.nft = nfts[i].receipt.nft
    BY <1>1 DEF Accepts
  <1>6. AcceptedIsMeant'
    <2> SUFFICES ASSUME NEW b \in accepted \cup {a}
                 PROVE  \E m \in DOMAIN proofs :
                          /\ proofs[m].by = nfts[b.nft].to
                          /\ proofs[m].public.nft = nfts[b.nft].receipt.nft
                          /\ proofs[m].meant = b.context
      BY <1>1 DEF AcceptedIsMeant
    <2>1. CASE b \in accepted
      BY <2>1 DEF IInv, AcceptedIsMeant
    <2>2. CASE b = a
      BY <1>3, <1>4, <1>5, <2>2
    <2> QED  BY <2>1, <2>2
  <1>7. TypeOK'
    BY <1>1 DEF IInv, TypeOK
  <1> QED  BY <1>1, <1>6, <1>7 DEF IInv, ProofOK

LEMMA InitIInv == Init => IInv
  <1> SUFFICES ASSUME Init PROVE IInv
    OBVIOUS
  <1>1. nfts = <<>> /\ leaves = <<>> /\ proofs = <<>> /\ accepted = {}
    BY DEF Init
  <1>2. TypeOK
    BY <1>1, EmptySeq, BoundsAssumption DEF TypeOK
  <1> QED  BY <1>1, <1>2 DEF IInv, AcceptedIsMeant

LEMMA NextIInv == IInv /\ [Next]_vars => IInv'
  <1> SUFFICES ASSUME IInv, [Next]_vars PROVE IInv'
    OBVIOUS
  <1>1. ASSUME NEW w \in Wallets, NEW l \in BOOLEAN, Issue(w, l) PROVE IInv'
    BY <1>1, IssueKeeps
  <1>2. ASSUME NEW i \in DOMAIN nfts, Register(i) PROVE IInv'
    BY <1>2, RegisterKeeps
  <1>3. ASSUME NEW w \in Wallets, NEW j \in DOMAIN nfts, NEW i \in DOMAIN nfts,
               NEW c \in Contexts, ProveOwnership(w, j, i, c)
        PROVE  IInv'
    BY <1>3, ProveKeeps
  <1>4. ASSUME NEW w \in Wallets, NEW j \in DOMAIN nfts, NEW i \in DOMAIN nfts,
               NEW c \in Contexts, NEW path \in Paths, ProveTribute(w, j, i, c, path)
        PROVE  IInv'
    BY <1>4, ProveTributeKeeps
  <1>5. ASSUME NEW w \in Wallets, NEW j \in DOMAIN nfts, NEW i \in DOMAIN nfts,
               NEW n \in Ids, NEW c \in Contexts, NEW key \in Keys(w),
               ProveFreely(w, key, n, j, i, c)
        PROVE  IInv'
    BY <1>5, ProveFreelyKeeps
  <1>6. ASSUME NEW k \in DOMAIN proofs, NEW i \in DOMAIN nfts, NEW c \in Contexts,
               Submit(k, i, c)
        PROVE  IInv'
    BY <1>6, SubmitKeeps
  <1>7. CASE UNCHANGED vars
    BY <1>7 DEF vars, IInv, TypeOK, AcceptedIsMeant, ProofOK
  <1> QED  BY <1>1, <1>2, <1>3, <1>4, <1>5, <1>6, <1>7, Zenon DEF Next

\* The inductive invariant holds in every reachable state.
THEOREM Inductive == Spec => []IInv
  BY InitIInv, NextIInv, PTL DEF Spec

\* NFTs, leaves, proofs and accepted claims keep their types; the root of every
\* tribute proof is one of the tribute tree's domain.
THEOREM TypeCorrect == Spec => []TypeOK
  BY Inductive, PTL DEF IInv

\* Nobody has a claim accepted that the NFT's recipient did not prove for that
\* sender, commitment and pair of chains (verify_ownership_per_su, binding_hash).
THEOREM AcceptedIsMeantHolds == Spec => []AcceptedIsMeant
  BY Inductive, PTL DEF IInv

\* Transcript and receipt of one NFT make a witness for its recipient, in every
\* context and with every path taken since it was registered, and for nobody
\* else (derive_ownership_witness, derive_witness).
THEOREM ReceiptsUsableHolds == Spec => []ReceiptsUsable
  <1>1. IInv => ReceiptsUsable
    <2> SUFFICES ASSUME IInv, NEW w \in Wallets, NEW j \in DOMAIN nfts, NEW i \in DOMAIN nfts,
                        NEW c \in Contexts
                 PROVE  /\ DeriveOwnershipWitness(w, j, i, Binding(c)).ok
                             <=> w = nfts[i].to /\ j = i
                        /\ \A path \in Paths :
                             LET built == DeriveTributeWitness(w, j, i, Binding(c), path)
                                 known == path.leaves[path.index] = nfts[i].receipt.nft
                             IN w = nfts[i].to /\ j = i /\ path.domain = TributeDomain /\ known =>
                                  /\ built.ok
                                  /\ Accepts([statement |-> "tribute", public |-> built.public],
                                             i, c)
      BY DEF ReceiptsUsable
    <2>1. i \in Ids /\ j \in Ids /\ NftOK(nfts[i], i) /\ NftOK(nfts[j], j)
      BY NftsFacts DEF IInv
    <2>2. DeriveOwnershipWitness(w, j, i, Binding(c)).ok <=> w = nfts[i].to /\ j = i
      BY <2>1, SignerMatches DEF DeriveOwnershipWitness
    <2>3. ASSUME NEW path \in Paths, w = nfts[i].to, j = i, path.domain = TributeDomain,
                 path.leaves[path.index] = nfts[i].receipt.nft
          PROVE  LET built == DeriveTributeWitness(w, j, i, Binding(c), path)
                 IN /\ built.ok
                    /\ Accepts([statement |-> "tribute", public |-> built.public], i, c)
      <3> DEFINE built == DeriveTributeWitness(w, j, i, Binding(c), path)
      <3>1. \E n \in 1..Len(leaves) : PathRoot(path, nfts[i].receipt.nft) = Root(n)
        BY <2>1, <2>3, NftTypes, PathRootFacts
      <3>2. built.ok
        BY <2>2, <2>3 DEF DeriveTributeWitness, DeriveOwnershipWitness
      <3>3. built.public = [owner |-> nfts[i].receipt.owner, nft |-> nfts[i].receipt.nft,
                            binding |-> Binding(c),
                            root |-> PathRoot(path, nfts[i].receipt.nft)]
        BY DEF DeriveTributeWitness, DeriveOwnershipWitness
      <3> QED  BY <3>1, <3>2, <3>3 DEF Accepts
    <2> QED  BY <2>2, <2>3
  <1> QED  BY <1>1, Inductive, PTL

\* A witness that was built satisfies its circuit.
THEOREM WitnessesSatisfyHolds == Spec => []WitnessesSatisfy
  <1>1. IInv => WitnessesSatisfy
    <2> SUFFICES ASSUME IInv, NEW w \in Wallets, NEW j \in DOMAIN nfts, NEW i \in DOMAIN nfts,
                        NEW c \in Contexts
                 PROVE  /\ LET built == DeriveOwnershipWitness(w, j, i, Binding(c))
                           IN built.ok => OwnershipCircuit(built.witness, built.public)
                        /\ \A path \in Paths :
                             LET built == DeriveTributeWitness(w, j, i, Binding(c), path)
                             IN built.ok => TributeCircuit(built.witness, path, built.public)
      BY DEF WitnessesSatisfy
    <2> DEFINE built == DeriveOwnershipWitness(w, j, i, Binding(c))
    <2>1. built.ok => VerifyOwnershipPerSu(built.witness, built.public)
      BY DEF DeriveOwnershipWitness, VerifyOwnershipPerSu, VerifySignature
    <2>2. ASSUME NEW path \in Paths, DeriveTributeWitness(w, j, i, Binding(c), path).ok
          PROVE  LET tribute == DeriveTributeWitness(w, j, i, Binding(c), path)
                 IN TributeCircuit(tribute.witness, path, tribute.public)
      <3> DEFINE tribute == DeriveTributeWitness(w, j, i, Binding(c), path)
      <3>1. /\ built.ok /\ path.domain = TributeDomain
            /\ tribute.witness = built.witness
            /\ tribute.public.owner = built.public.owner
            /\ tribute.public.nft = built.public.nft
            /\ tribute.public.binding = built.public.binding
            /\ built.public.nft = nfts[i].receipt.nft
            /\ tribute.public.root = PathRoot(path, nfts[i].receipt.nft)
        BY <2>2 DEF DeriveTributeWitness, DeriveOwnershipWitness
      <3>2. [path EXCEPT !.domain = TributeDomain] = path
        BY <3>1, NftsFacts, DomainChecked DEF IInv
      <3>3. VerifyOwnershipPerSu(tribute.witness, tribute.public)
        <4> HIDE DEF built, tribute
        <4> QED  BY <2>1, <3>1 DEF VerifyOwnershipPerSu
      <3>4. PathRoot([path EXCEPT !.domain = TributeDomain], tribute.public.nft)
              = tribute.public.root
        <4> HIDE DEF built, tribute
        <4> QED  BY <3>1, <3>2
      <3> QED  BY <3>3, <3>4 DEF TributeCircuit
    <2> QED  BY <2>1, <2>2 DEF OwnershipCircuit
  <1> QED  BY <1>1, Inductive, PTL
=============================================================================
