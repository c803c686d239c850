----------------------------- MODULE Ownership -----------------------------
(***************************************************************************)
(* Private NFTs: attesters issue them to wallets through the consent box,  *)
(* wallets prove that they own them, and a verifier accepts a claim for    *)
(* one submission context (key.rs, exchange.rs, ownership.rs and           *)
(* demo_tribute.rs, the ownership and tribute circuits).                   *)
(*                                                                         *)
(* Keys, hashes and signatures are terms, equal only when built alike.     *)
(* Messages are never removed: a wallet may use any transcript and any     *)
(* receipt at any time, twice, or never.  A proof may be submitted by      *)
(* anyone, in any context, any number of times.  The NFT's consumer on     *)
(* the chain is not in the repository: it does what the circuits leave to  *)
(* it, and knows each registered entity's owner and hash.                  *)
(***************************************************************************)
EXTENDS Integers, Sequences

CONSTANTS
  Wallets,
  Senders,       \* who may submit
  Commitments,   \* commitment ids
  HostChains,
  L2Chains,
  TributeDomain, \* the domain of the tribute commitment tree
  OtherDomain,   \* that of another tree
  NoRoot,        \* for the ownership statement
  MaxNfts,       \* bound: NFTs issued
  MaxProofs      \* bound: proofs made

ASSUME WalletsAssumption == Wallets \cap Nat = {}
ASSUME BoundsAssumption  == MaxNfts \in Nat /\ MaxProofs \in Nat

VARIABLES
  nfts,       \* what was issued: recipient, owner seed, opaque key, receipt
  leaves,     \* the tribute tree: indices of the registered NFTs
  proofs,     \* proofs made, by whom and for which context
  accepted    \* claims the verifier accepted

vars == <<nfts, leaves, proofs, accepted>>

Ids      == 1..MaxNfts
Contexts == [sender : Senders, commitment : Commitments, host : HostChains, l2 : L2Chains]

-----------------------------------------------------------------------------
\* Formulas.  A secret scalar and its public key are one term.

\* Mutant: the other side's key is left out.
OwnPoint(sk, other) == {sk}

\* Diffie-Hellman: sk * other, the same on both sides.
Shared(sk, other) == {sk, other}

DeriveNftSecret(shared, nonce) == [shared |-> shared, nonce |-> nonce]

DeriveOwner(pk, nonce) == [pk |-> pk, nonce |-> nonce]
NftHash(id, owner)     == [id |-> id, owner |-> owner]

\* Mutant: two L2s share a submission context.
ChainFree(context) == <<context.sender, context.commitment, context.host>>

Binding(context) == <<context.sender, context.commitment, context.host, context.l2>>

SigningPayload(nft, nonce, binding) == [nft |-> nft, nonce |-> nonce, binding |-> binding]

Signature(sk, payload)         == [key |-> sk, payload |-> payload]
VerifySignature(pk, msg, sig)  == sig = Signature(pk, msg)

\* Mutant: the nodes of every tree are hashed alike.
DomainFree(path, leaf) == [leaves |-> [path.leaves EXCEPT ![path.index] = leaf]]

\* An InclusionPath: the tree it was taken from, then, and a position in it.
PathRoot(path, leaf) ==
  [domain |-> path.domain, leaves |-> [path.leaves EXCEPT ![path.index] = leaf]]

-----------------------------------------------------------------------------
\* The circuits.

VerifyOwnershipPerSu(w, p) ==
  /\ DeriveOwner(w.pk, w.nonce) = p.owner
  /\ VerifySignature(w.pk, SigningPayload(p.nft, w.nonce, p.binding), w.signature)

OwnershipCircuit(w, p) == VerifyOwnershipPerSu(w, p)

TributeCircuit(w, path, p) ==
  /\ VerifyOwnershipPerSu(w, p)
  /\ PathRoot([path EXCEPT !.domain = TributeDomain], p.nft) = p.root

-----------------------------------------------------------------------------
\* Signers.

\* Server side; only the public parts leave it.
IssueForRemote(opaque, nonce, recipient) ==
  LET key == DeriveNftSecret(Shared(opaque, recipient), nonce)
  IN [pk |-> key, nonce |-> nonce]

\* Client side.
FromExchange(wallet, opaque, nonce) ==
  LET key == DeriveNftSecret(Shared(wallet, opaque), nonce)
  IN [pk |-> key, nonce |-> nonce]

\* A key of the wallet's own.
Local(wallet, nonce) == [pk |-> DeriveNftSecret({wallet}, nonce), nonce |-> nonce]

\* The signer a wallet makes of the transcript of NFT j.
SignerFor(wallet, j) ==
  IF nfts[j].local THEN Local(wallet, nfts[j].seed.nonce)
                   ELSE FromExchange(wallet, nfts[j].opaque, nfts[j].seed.nonce)

\* All keys a wallet can come by.
Keys(wallet) ==
  {FromExchange(wallet, o, n).pk : o \in Ids, n \in Ids}
    \cup {Local(wallet, n).pk : n \in Ids}

-----------------------------------------------------------------------------
\* Witness builders: the signer made of the transcript of NFT j and the receipt
\* of NFT i, which may belong together or not.

\* `ok` is FALSE on OwnerMismatch.
DeriveOwnershipWitness(wallet, j, i, binding) ==
  LET seed    == SignerFor(wallet, j)
      receipt == nfts[i].receipt
      payload == SigningPayload(receipt.nft, seed.nonce, binding)
  IN [ok      |-> DeriveOwner(seed.pk, seed.nonce) = receipt.owner,
      witness |-> [pk        |-> seed.pk,
                   signature |-> Signature(seed.pk, payload),
                   nonce     |-> seed.nonce],
      public  |-> [owner   |-> receipt.owner,
                   nft     |-> receipt.nft,
                   binding |-> binding,
                   root    |-> NoRoot]]

\* Mutant: a path of another tree is taken.
AnyDomain(wallet, j, i, binding, path) ==
  LET built == DeriveOwnershipWitness(wallet, j, i, binding)
  IN [built EXCEPT !.public.root = PathRoot(path, nfts[i].receipt.nft)]

\* The same with a path, and the root that it gives the receipt's hash.
DeriveTributeWitness(wallet, j, i, binding, path) ==
  LET built == DeriveOwnershipWitness(wallet, j, i, binding)
  IN [built EXCEPT !.ok = @ /\ path.domain = TributeDomain,
                   !.public.root = PathRoot(path, nfts[i].receipt.nft)]

-----------------------------------------------------------------------------
\* The tribute tree over time.

Hashes(s) == [n \in DOMAIN s |-> nfts[s[n]].receipt.nft]
Root(n)   == [domain |-> TributeDomain, leaves |-> Hashes(SubSeq(leaves, 1, n))]

\* Paths a wallet may hold: taken at any time, of this tree or of another one.
Paths ==
  UNION {[domain : {TributeDomain, OtherDomain}, leaves : {Root(n).leaves}, index : 1..n] :
           n \in 1..Len(leaves)}

-----------------------------------------------------------------------------
\* Actions.

NewNft(wallet, isLocal) ==
  LET id    == Len(nfts) + 1
      seed  == IF isLocal THEN Local(wallet, id) ELSE IssueForRemote(id, id, wallet)
      owner == DeriveOwner(seed.pk, seed.nonce)
  IN [to |-> wallet, local |-> isLocal, opaque |-> id, seed |-> seed,
      receipt |-> [id |-> id, owner |-> owner, nft |-> NftHash(id, owner)]]

\* An attester issues to a wallet, or a wallet to itself, with a fresh opaque
\* key and a fresh nonce.
Issue(wallet, isLocal) ==
  /\ Len(nfts) < MaxNfts
  /\ nfts' = Append(nfts, NewNft(wallet, isLocal))
  /\ UNCHANGED <<leaves, proofs, accepted>>

\* The chain appends the entity hash to its tree.
Register(i) ==
  /\ \A n \in DOMAIN leaves : leaves[n] # i
  /\ leaves' = Append(leaves, i)
  /\ UNCHANGED <<nfts, proofs, accepted>>

AddProof(wallet, context, statement, public) ==
  /\ Len(proofs) < MaxProofs
  /\ proofs' = Append(proofs, [by |-> wallet, meant |-> context,
                               statement |-> statement, public |-> public])
  /\ UNCHANGED <<nfts, leaves, accepted>>

ProveOwnership(wallet, j, i, context) ==
  LET built == DeriveOwnershipWitness(wallet, j, i, Binding(context))
  IN /\ built.ok /\ OwnershipCircuit(built.witness, built.public)
     /\ AddProof(wallet, context, "ownership", built.public)

ProveTribute(wallet, j, i, context, path) ==
  LET built == DeriveTributeWitness(wallet, j, i, Binding(context), path)
  IN /\ built.ok /\ TributeCircuit(built.witness, path, built.public)
     /\ AddProof(wallet, context, "tribute", built.public)

\* A prover of its own making: any key it can come by, any nonce, the owner of
\* NFT j and the hash of NFT i.
ProveFreely(wallet, key, nonce, j, i, context) ==
  LET nft    == nfts[i].receipt.nft
      public == [owner |-> nfts[j].receipt.owner, nft |-> nft,
                 binding |-> Binding(context), root |-> NoRoot]
  IN /\ OwnershipCircuit(
          [pk |-> key, nonce |-> nonce,
           signature |-> Signature(key, SigningPayload(nft, nonce, Binding(context)))], public)
     /\ AddProof(wallet, context, "ownership", public)

\* The verifier supplies owner and hash from its entity state, recomputes the
\* binding from the context, and knows the roots its tree has had.
Accepts(p, i, context) ==
  /\ p.public.owner = nfts[i].receipt.owner
  /\ p.public.nft = nfts[i].receipt.nft
  /\ p.public.binding = Binding(context)
  /\ p.statement = "tribute" => \E n \in 1..Len(leaves) : p.public.root = Root(n)

Submit(k, i, context) ==
  /\ \E n \in DOMAIN leaves : leaves[n] = i
  /\ Accepts(proofs[k], i, context)
  /\ accepted' = accepted \cup {[nft |-> i, context |-> context]}
  /\ UNCHANGED <<nfts, leaves, proofs>>

Init ==
  /\ nfts     = <<>>
  /\ leaves   = <<>>
  /\ proofs   = <<>>
  /\ accepted = {}

Next ==
  \/ \E w \in Wallets, l \in BOOLEAN : Issue(w, l)
  \/ \E i \in DOMAIN nfts : Register(i)
  \/ \E w \in Wallets, j, i \in DOMAIN nfts, c \in Contexts : ProveOwnership(w, j, i, c)
  \/ \E w \in Wallets, j, i \in DOMAIN nfts, c \in Contexts, path \in Paths :
       ProveTribute(w, j, i, c, path)
  \/ \E w \in Wallets, j, i \in DOMAIN nfts, n \in Ids, c \in Contexts :
       \E key \in Keys(w) : ProveFreely(w, key, n, j, i, c)
  \/ \E k \in DOMAIN proofs, i \in DOMAIN nfts, c \in Contexts : Submit(k, i, c)

Spec == Init /\ [][Next]_vars

-----------------------------------------------------------------------------
(***************************************************************************)
(* Properties.                                                             *)
(***************************************************************************)
PublicKeys == [shared : SUBSET (Ids \cup Wallets), nonce : Ids]
Owners     == [pk : PublicKeys, nonce : Ids]
EntityHash == [id : Ids, owner : Owners]
Roots      == [domain : {TributeDomain}, leaves : Seq(EntityHash)]

Nfts       == [to : Wallets, local : BOOLEAN, opaque : Ids, seed : Owners,
               receipt : [id : Ids, owner : Owners, nft : EntityHash]]
Publics    == [owner : Owners, nft : EntityHash, root : Roots \cup {NoRoot},
               binding : {Binding(c) : c \in Contexts}]
Proofs     == [by : Wallets, meant : Contexts, statement : {"ownership", "tribute"},
               public : Publics]

TypeOK ==
  /\ nfts \in Seq(Nfts) /\ Len(nfts) <= MaxNfts
  /\ leaves \in Seq(DOMAIN nfts)
  /\ proofs \in Seq(Proofs) /\ Len(proofs) <= MaxProofs
  /\ accepted \subseteq [nft : DOMAIN nfts, context : Contexts]

\* A claim is accepted only if the wallet the NFT was issued to proved that very
\* NFT for that very sender, commitment and pair of chains, whoever submits the
\* proof, however often, and whatever the other wallets hold.
AcceptedIsMeant ==
  \A a \in accepted :
    \E k \in DOMAIN proofs :
      /\ proofs[k].by = nfts[a.nft].to
      /\ proofs[k].public.nft = nfts[a.nft].receipt.nft
      /\ proofs[k].meant = a.context

\* Recipient and attester derive one key from different secrets: a wallet that
\* pairs transcript and receipt of an NFT of its own can prove it in every
\* context, with a path taken at any time since, and no other wallet or pairing
\* gets past the builders.
ReceiptsUsable ==
  \A w \in Wallets, j, i \in DOMAIN nfts, c \in Contexts :
    /\ DeriveOwnershipWitness(w, j, i, Binding(c)).ok <=> w = nfts[i].to /\ j = i
    /\ \A path \in Paths :
         LET built == DeriveTributeWitness(w, j, i, Binding(c), path)
             known == path.leaves[path.index] = nfts[i].receipt.nft
         IN w = nfts[i].to /\ j = i /\ path.domain = TributeDomain /\ known =>
              /\ built.ok
              /\ Accepts([statement |-> "tribute", public |-> built.public], i, c)

\* What a builder returns satisfies its circuit, whatever it was given: a solver
\* never fails on a witness that was built.
WitnessesSatisfy ==
  \A w \in Wallets, j, i \in DOMAIN nfts, c \in Contexts :
    /\ LET built == DeriveOwnershipWitness(w, j, i, Binding(c))
       IN built.ok => OwnershipCircuit(built.witness, built.public)
    /\ \A path \in Paths :
         LET built == DeriveTributeWitness(w, j, i, Binding(c), path)
         IN built.ok => TributeCircuit(built.witness, path, built.public)
=============================================================================
