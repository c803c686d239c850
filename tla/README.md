# TLA+ models of outbe-circuits

Machine-checked models of the parts of this repository whose correctness
depends on long sequences of steps, on the order of several actors' steps, on
failures between steps, or on two parties reading the same bytes alike: the
shielded Paynote pool its circuits are made for, the Emit and Pledge pools,
ownership of private NFTs, the incremental Merkle tree, the codecs, signatures
and proof wire, the process-global state behind the proving backend, and the
tool that freezes circuits into the registry. TLC explores every behaviour of
small instances; for every value of the constants TLAPS proves the invariants of
the pools and that they implement an account (`Vault`), those of NFT ownership, of the
Merkle tree, of the backend and of the frozen registry, what entity hashes and signatures
promise, and that a verifier call arrives and has one meaning.

All paths below are relative to the root of the repository. `core/`, `spend/`,
`merge/` and `paynote-lib/` abbreviate the crates of
`src/crates/outbe-zk-canonical/noir/` with those names.

## 1. Inventory

| Component | Code | State it keeps | Operations | What makes it correct | Modules |
|---|---|---|---|---|---|
| Paynote formulas and circuits | `paynote-lib/`, `spend/src/main.nr`, `merge/src/main.nr`, `outbe-zk-canonical/src/paynote/`, `outbe-protocol/src/protocol/shielded_pool.rs` | none: relations between public inputs and witness | spend, merge | a leaf has one nullifier; no arithmetic wraps; change and merge outputs are new leaves | `Terms`, `Paynote` |
| Paynote pool | the contract is elsewhere; its duties are "Runtime obligations" in `outbe-zk-canonical/README.md` | leaves, roots, nullifiers, token balances; wallets hold notes and proofs in flight | deposit, prove, settle, give up | no double spend, conservation; notes of careful wallets stay redeemable and their proofs survive other people's transactions | `PaynotePool`, `Vault`, `PaynotePool_proofs`, `Sums`, `Sums_proofs` |
| Incremental Merkle tree | `outbe-protocol/src/protocol/imt.rs`, `core/src/merkle_tree.nr` | a frontier (contract), a sparse node map (wallet), captured paths | append, root, path, recompute the root in the circuit | frontier, stored tree and circuit compute the same root; a failed hash changes nothing; paths bind leaf and index | `Imt`, `Imt_proofs` |
| Barretenberg backend | `outbe-zk-backend/src/barretenberg/{mod,srs}.rs` | bb's one-shot CRS and what Rust remembers of it, `BB_LOCK`, the `OnceLock` of `init_crs`, an environment variable, G1 files | generate, verify, verify_combined, preinit_srs, init_crs, set_srs_path | memory mode and CRS are the ones each call relies on; only the real CRS of a pinned size is loaded; every call returns | `Barretenberg`, `Barretenberg_proofs` |
| Circuit freeze and registry | `xtask/src/main.rs`, `outbe-zk-canonical/{build.rs,src/lib.rs,circuits/}` | `manifest.toml`, one directory of artifacts per version, L2 bindings | freeze (compile, mint, supersede, reconcile), hand edits, build | published versions never change; keys of what may be in flight survive; the crate builds; heads are what the source compiles to | `Freeze`, `Freeze_proofs` |
| Emit mint | `outbe-emit-mint-circuit`, `outbe-zk-canonical/src/emit_mint/` | none: a relation; its pool keeps leaves and nullifiers | fund, prove, mint | as for Paynote, and value stays with its owner | `OwnedNotes`, `OwnedPool`, `OwnedPool_proofs` |
| Pledgenotes | `outbe-pledgenote-*`, `outbe-zk-canonical/src/pledgenote.rs` | none: relations; the pool also keeps open positions | fund, issue, release, unpledge | as for Emit; releases of one position never collide | `OwnedNotes`, `OwnedPool`, `OwnedPool_proofs` |
| Ownership and Demo Tribute | `core/src/ownership.nr`, `outbe-ownership-circuit`, `demo-tribute`, `outbe-zk-canonical/src/{ownership,demo_tribute}.rs`, `outbe-protocol/src/{protocol/key,primitive/exchange,primitive/hash}.rs` | wallets keep keys, transcripts, receipts and paths; the chain its entities and the tribute tree | issue, register, build a witness, prove, submit | both sides of the consent box derive one key; a claim counts only for the context and the NFT it was made for | `Ownership`, `Ownership_proofs` |
| Niflheim tribute | `niflheim-tribute` | none: a relation | prove | as for Demo Tribute | `Ownership` (partly) |
| Codecs | `outbe-protocol/src/codec.rs` | none | words, fields, limbs, sets | one encoding per value, refusal of all others | `Codec`, `Client_proofs` |
| Entities | `outbe-protocol-derive`, `outbe-protocol/src/protocol/entity.rs` | none | derive the fold, hash | hashes bind the entity, whatever the order of declaration and of members | `Entity`, `Producer`, `Client_proofs` |
| Schnorr signatures | `outbe-protocol/src/primitive/{signature,curve}.rs` | none | sign, verify | what is signed verifies | `Schnorr`, `Producer`, `Client_proofs` |
| Proof wire | `outbe-protocol/src/protocol/zkproof.rs`, `outbe-zk-canonical/build.rs` (generated types), `verify_combined` | none | convert, encode, decode, split | all readers of a call see the same inputs; a call has one meaning and a meaning one call | `Wire`, `Client`, `Client_proofs` |
| Witness solver | `outbe-zk-backend/src/witness.rs` | none | lay out the witness, one call into ACVM | every parameter at its slot | `Wire` (layout); ACVM is external |

### How the components interact

- A **wallet** keeps an `Imt` in step with the contract's leaves, takes an
  inclusion path from it, builds a witness with the Paynote formulas and asks
  the **backend** for a proof. Between the path and the settlement other
  transactions change the tree: the root in the proof is then an old one.
- The **settlement contract** (not in this repository) recomputes the tree with
  the frontier kernel, verifies the proof with the key of the registry, checks
  root, chain and nullifiers, and inserts the output leaf.
- The **circuits** and the Rust formulas compute the same hashes; the circuit
  recomputes the root from a leaf, an index and the siblings.
- The **backend** serves all threads of a process through one C++ library whose
  CRS can be set once.
- An **attester** issues an NFT: it derives the key from the consent box, folds
  the entity and sends transcript and receipt. The wallet derives the same
  key, signs for a submission context, and proves.
- A **proof travels** as a combined proof inside a verifier call; the chain
  decodes the public inputs by the circuit's ABI, bb by the header.
- The **freeze** turns the noir sources into versioned artifacts; `build.rs`
  compiles them into the crate, together with the versions each L2 chain is
  bound to.

### What is hard

Order and repetition of settlements, stale roots, change of change, wrap-around
and two encodings of zero in amounts, a full tree; powers of two in the
frontier and hashing that fails half-way; threads around a one-shot global,
panics before and after it took effect, restarts, damaged files and downloads;
a freeze that fails or dies between two writes, and hand edits between two
freezes; proofs replayed in another context, receipts paired with the wrong
transcript or path; words, vectors and calls with a second reading. `PROJECT.json` lists each hazard at its line with the properties that
cover it.

## 2. Paynote and PaynotePool

### Correspondence

`Terms` holds what all note circuits share: fields as terms, amounts, and the
opening of a root. `Paynote` holds the formulas under the names of the code (`NoteSn`,
`NoteCommitment`, `NoteNullifier`, `ChangeKey`) and the two circuits as
predicates over `pub` (public inputs) and `wit` (witness): one conjunct per
`assert`. A public input that the circuit pins with `assert_eq` to a computed
value is computed by `SpendStatement`/`MergeStatement`, and the predicate still
states the assert.

`PaynotePool` has the contract's state (`leaves`, `spent`, `deposited`, `paid`),
the proofs in flight (`proofs`), the merge keys already drawn (`drawn`), the leaves
of careless wallets (`careless`, explained below), and two history variables:
`notes[i]`, the note behind leaf i, and `used[i]`, how often leaf i was consumed.
Properties speak of the history: `spent` alone could not say whether a leaf was
consumed under two nullifiers.

| Action | Stands for |
|---|---|
| `Deposit(key, asset, amount)` | the pool pulls a positive amount and inserts a leaf it has not seen, under the serial the depositor supplies: that of any key it computes |
| `ProveSpend`, `ProveMerge` | a prover with any witness the circuit accepts, for any chain, context, amount and accepted root, makes a proof |
| `Settle(p, context)` | the contract, in a call that performs settlement `context`, checks context, chain, root and nullifiers, pays, marks nullifiers, inserts the output |
| `Drop(p)` | the environment: a proof is lost or given up |

A settled proof stays in `proofs`, so it may be replayed at any time.

### Abstractions and assumptions

- Hashes are injective terms with disjoint tags (collision resistance of
  Poseidon2 with its domain separation). `HashMulti` keeps tag and inputs apart.
- A Merkle root is the sequence of leaves under it, and `Opens` is
  the ideal opening. `Imt` checks on real trees that an opening binds leaf and
  index (`OpeningBinds`) and that paths captured earlier verify
  (`PathsVerify`).
- Amounts live modulo `Modulus` (2^256 in the code). `U256` subtraction yields
  the canonical result; addition pins the result modulo `Modulus` only, so the
  prover picks the encoding of zero (`Sum256`, `zeroAs`).
- Proofs are sound: a statement exists only with a witness. Provers
  may claim any note in the tree (also one that is not theirs) or an unfunded
  one.
- Wallets are **careful or careless**. The contract compares a deposit with the
  leaves that are there, and nothing compares a change or merge output with them
  ("Runtime obligations", `outbe-zk-canonical/README.md:145-152`). The depositor
  supplies the serial, the merge circuit compares the output key with the keys of
  its own inputs only, and whoever has a spend key can compute all change keys to
  come (`README.md:167-170`). So a wallet can deposit under the serial of its own
  future change key, or merge to such a key or to that of an older note, and then
  settle the output that repeats the leaf. The model has these wallets: they
  deposit under and merge to any key of `CarelessKeys`, and every note of theirs,
  and every change of one, is in `careless`. Assumed of a **careful** wallet: it
  draws keys at random, merges to a key only once, shows no serial but a
  deposit's, and deposits under no change key. Anyone may deposit under the serials
  it showed, any number of times and after the note was spent; careful keys repeat
  in the tree that way, their leaves do not (`NewLeaf`). Assumed of careless ones
  (`CarelessAssumption`): they have no key a careful wallet drew, nor one rotated
  out of it (it takes that key), and Zero is no key of theirs. A serial that is the
  hash of no key at all is that of a key nobody uses.
- Roots stay acceptable for ever; the contract may keep fewer, which restricts
  liveness only.
- Left out: the padding of unused merge slots (pinned to zero) and
  the pool address (pinned to one constant per pool).

### Properties

What the contract owes to everyone does not depend on how wallets behave:
`TypeOK` (with the shape of the tree: every leaf commits to its note, in a token
of the pool and with a positive canonical amount), `NoDoubleSpend`,
`Conservation`, and the refinement `ImplementsVault`: `Vault` is the
abstract specification, what an observer of token transfers may rely on; the
refinement maps `balance` to the value of the unconsumed notes. Under it a merge
is a stuttering step, and a withdrawal is at most what the notes are worth.

Three properties say that a careful wallet is safe from all others, and how far
a careless one harms itself. `UniqueLeaves`: only careless leaves are ever equal,
and then to each other. `Twins(i)` is the set of leaves that share the nullifier of
leaf i, which for a careful leaf is the leaf alone. `EveryNoteSpendable`: a note can
be redeemed in full until one of its twins (a careful note: until it) is consumed.
`PendingProofSurvives`, an action property: a proof that can settle stays so until a
twin of one of its inputs (a careful input: that input) is consumed, or the tree
has no slot left for its output.

### Runs

`settlement`: two tokens, two chains, two proofs in flight, a tree of 3 leaves,
amounts modulo 4 (the least where a merge of two wraps, and where it can also end
in either zero or stay in range), one careful deposit key and one merge key. A
careless wallet draws one key, computes the change key of its note in advance, and
deposits under and merges to either. Two proofs in flight are enough for two claims
to the same leaf; three leaves fit two notes and their merge, a deposit, its change
and the change of that, or a careless note, a deposit under its change key and
the change that repeats it. `Deposits` bounds which deposits are made: two
amounts of one token under the careful key, whose merge meets a wrap, one of the
other token, the careless note, and one under its change key with the very amount
a partial spend leaves. 85,338 states. Deadlock is checked. Twins made by a merge
take four leaves (two inputs, the older note and the output) and are left to the
theorems.
Larger trees, more keys and longer merges are the theorems' part: they hold for
all of them.

### Proofs (`PaynotePool_proofs`)

The theorems hold for every modulus above 1, every capacity, every
set of tokens, chains, contexts and keys, and any number of proofs in flight.
They use the named assumptions on constants and nothing else: `Deposits` may be
every record `DepositsAssumption` admits, and `CarelessKeys` any set of keys
that satisfies `CarelessAssumption`.

`NoDoubleSpend` is not inductive: nothing in it says that a leaf counted once
has its nullifier in `spent`. The inductive invariant `IInv` adds five parts:

1. `SpentIsUsed`: `spent` is exactly the nullifiers of the leaves with `used = 1`,
   and no leaf has more. A settled input then consumes a leaf whose count was 0.
   Twins share a nullifier, so at most one of them is ever consumed; that no others
   do needs
2. `UniqueLeaves`. Deposits keep it through `NewLeaf`. The output of a careless
   proof may repeat careless leaves; all other outputs are new (`OutputIsNew`)
   because of where their keys come from:
3. `KeysOrigin`: a careful key in the tree was drawn for a deposit, drawn for a
   merge, or rotated out of a careful leaf **already consumed**. The change of a
   settlement is rotated out of a leaf consumed now, so its key is in no careful
   leaf. A careless key is in `CarelessKeys` or rotated out of a careless leaf, and
   so
4. `KeysApart`: no careless wallet has the key of a careful note (`OutputApart`
   shows it of an output, by `CarelessRotates`). And
5. `ProofsSound`, `MergeKeysFresh`: a proof in flight names leaves of the tree,
   each once, by their nullifiers, and its merge key belongs to it alone and is in
   the tree only once it has settled. The first needs the circuit
   (`OpeningSound`), `DistinctInputs` in particular. A part of `ProofsSound`,
   `ProofBalanced`, says that the notes a proof consumes add up to what it pays
   and what it leaves: in Nat, not modulo `Modulus`, which is what the circuits'
   checks against wrap-around are for.

`NextIInv` has one lemma per action. The theorems: `Inductive` (`Spec => []IInv`),
`TypeCorrect`, `NoDoubleSpendHolds`, `UniqueLeavesHolds`, `NotesSpendable`
(`EveryNoteSpendable`: from `TypeOK` and `SpentIsUsed`, through `FullSpend`, and
`SharedNullifier`, by which leaves with one nullifier are twins) and
`PendingProofsSurvive` (roots only accumulate, `RootsKept`, and the nullifiers that
join `spent` are those of the settled inputs).

`ValueConserved` (`Conservation`) and `Refinement` (`ImplementsVault`) are about the sum
of the unconsumed notes. `Sums` writes sums as a recursive function, and
`Sums_proofs` has the lemmas: a sum over one more index (`SumMore`), a sum
with one addend changed (`SumChange`) or several cleared (`SumClear`). The
library's induction principles take a predicate and cannot be instantiated here;
`Sums_proofs` derives from the least element of a set of numbers its own,
about sets (`Induct`, `InductTo`), and every induction of the project goes through
them. A settlement clears the addends of its inputs and adds one for its output;
by `ProofBalanced` the difference is what is paid. It maps to one withdrawal of `Vault`,
or, for a merge, to a stutter.

## 3. OwnedNotes and OwnedPool

Emit and Pledge notes have an owner in their serial. `OwnedNotes` states the
formulas of both families (they differ in the domain, and a Pledge leaf commits
to a receipt context too) and three circuits: `MintCircuit`, `IssueCircuit`,
`UnpledgeCircuit`; the last two call `PledgeSpend`, as they do in the code.
`OwnedPool` is either pool; `family` is chosen in `Init` and never changes.

| Action | Stands for |
|---|---|
| `Fund` | a new note, of a key drawn for it |
| `Prove`, `Drop` | anyone who knows the keys makes a proof, claiming any owner; it is lost or given up |
| `Redeem` | a mint or an unpledge settles and pays its public owner |
| `Issue` | an issue settles: a position opens under the return serial |
| `Release` | part of a position comes back as a note to that serial, with the receipt context of the position and its running total |

The runtime is not in this repository. Taken from its documented duties: it binds
chain, roots and nullifiers, and records change. Assumed, because the code only
provides the formulas: a payout goes to the public owner; a position's serial is
the published one, and each release has `receipt_context(position,
released_total)` with the total including the release, as the test
`ownership_receipts_and_contexts` of `outbe-pledgenote-lib` has it; keys of new
notes are fresh. Left out: the address range check (an address is one value),
the empty leaf.

Properties: `NoDoubleSpend`, `UniqueLeaves` (no runtime check keeps leaves apart
here, so this rests on the formulas alone), `EveryNoteSpendable`, and
`ImplementsVault`: per owner, an account in `Vault` (`Assets <- Owners`), in which
pledges and releases are invisible. It says that value never moves between
owners, although the owner of an issue is private and provers may claim
any owner.

Run `owned`: two owners, two keys, two chains, four leaves, modulo 3, one proof
known at a time. Settled proofs stay until dropped and old roots stay good, so
an issue and an unpledge of one note still race. Modulo 3 a note of two is
pledged and returned one by one, which is what makes releases equal; four
leaves fit that and a return that is pledged again. Owners and keys are
interchangeable. 196,196 states.

### Proofs (`OwnedPool_proofs`)

`TypeOK`, `NoDoubleSpend`, `UniqueLeaves` and `EveryNoteSpendable`, for both
families and every value of the constants. As for Paynote, `SpentIsUsed` ties the
nullifier set to the leaves consumed, and `ProofsSound` says what the circuits
establish about a proof. Nothing compares leaves here, so `KeysOrigin` has to tell
from the key and the receipt of a note where it comes from: a fund key, drawn once; a
change key, rotated with the nullifier of a leaf consumed in the same step; or
a return key, with a receipt that carries position and running total. A new leaf differs from
all others because its origin is new: an undrawn key, an unspent nullifier, a
total not reached before.

`Refinement` proves `ImplementsVault`: an owner's balance is the sum of the live
notes whose serial is the owner's plus what open positions still owe to that owner.
A mint or unpledge takes from it what it pays; an issue moves value from the first sum to
the second, a release moves it back, and the balances of all other owners
stay. What the private owner of an issue has to do with the serial of the note it
consumes comes from the circuit, through `ProofsSound`.

## 4. Imt

The module runs the three implementations side by side on the same appended
leaves: `FrontierAppend` (the stateless kernel the contract uses; `Climb` is its
loop over the bits of the index), the stored tree of a wallet
(`BeginAppend`, `HashLevel`, `StoreNodes`, with `HashFails` at any level)
that may lag behind, and `MerkleRoot`, the circuit's recomputation from
`CircuitIndices`. The reference is the full tree over the padded leaf sequence;
`Above(i)[h]` is the index, at level h, of the ancestor of the leaf i.

- `StoredNodesExact`: the map of the wallet holds exactly the nodes of the
  reference tree, at every moment, also after a hash failed;
- `FrontierRootExact`, `AppendsAgree`: frontier and stored tree produce the
  reference root and report the same change;
- `PathsVerify`: a path verifies against the root of the tree it was taken from,
  also after the tree grew;
- `OpeningBinds`: for every index, every combination of siblings out of the
  nodes of any tree and every leaf, the circuit yields the root only for the
  leaf appended at that index.

`imt` uses depth 3 and two leaf values: eight appends, every pattern of
trailing ones, a full left half and a full tree (where the system stops:
deadlock is not checked).

### Proofs (`Imt_proofs`)

All six properties, for every depth from 1 to 63 (what `Imt::new` accepts) and every set of
leaves. The argument rests on two lemmas about the reference tree: one more leaf
changes the ancestors of that leaf only (`NodeKept`), and an ancestor is the hash
of the ancestor below and of its sibling (`Upwards`). The inductive invariant
says of each party that it holds the siblings it needs:

- `StoredNodesExact`, and `UpdatesOK`: an append in progress has hashed the
  ancestors of the next leaf, up to where it is. Both hold whenever a hash fails,
  because only `StoreNodes` touches the map.
- `FrontierOK`: the frontier holds the left sibling of **every right child above the
  next leaf**. Its other slots may be stale, and often are; a stronger
  invariant (each slot is the last left node of its level) is what one expects,
  and the code does not keep it.
- `AppendsOK`, `ReturnedOK`: every change reported was the change of the
  reference tree at that moment. `AppendsAgree` follows, although frontier and
  stored tree find the change in different ways.
- `PathOK`: a path captured holds the siblings of the tree it was taken from.

`OpeningBinds` is proved in a stronger form (`Binds`): whatever the siblings are,
nodes of a tree or not, `merkle_root` yields the root only for the leaf at that
index. It is `Opens` of the pools, which their proofs take as given.

## 5. Barretenberg

### Correspondence

Each thread walks through the code of one call at a time (`pc[t]`, `call[t]`):
`Begin` picks any public entry point and size; then `SetSrsPath`, or the
`OnceLock` (`EnterInit`, `JoinInit`, `SetInitPath`), then `Lock`,
`ConfigureMemory`, `EnsureSrs`, `ReadLocal`, `Download`, `CacheG1`, `LoadCrs` or
`LoadPanicked`, `RecordPoints`, `UseCrs`. Steps are as fine as the shared state
they touch: the G1 file is read, downloaded, cached and loaded in separate steps
and other processes change it in between (`ChangeFile`); the path is resolved
again by `CacheG1`. `Restart` kills the process anywhere; files stay.

bb is external: `srs_init_srs` takes effect at most once per process, may fail,
and may panic (`LoadPanics`) before or after it took effect. The panic
"after" breaks a comment of the code (section 10); `bb` assumes that a
panicking `srs_init_srs` leaves nothing behind, `bb_returns` assumes nothing.

### Properties

`ModeMatches` (the memory mode is one environment variable: whoever proves does
so in the mode it asked for), `EnoughPoints`, `InitReady` (what
`verify_combined` relies on), `CanonicalServed` (no order of calls makes the
process refuse a canonical circuit), `LoadedIsReal` (a CRS of a pinned size is
the real one whatever files and network hold), and the liveness property
`EveryCallReturns`.

### Runs, bounds, fairness

- `bb`: two threads (all the state is shared, and each property speaks of one
  thread's view of what another did), three calls in a life of the process (a
  call that leaves something behind, one that overlaps it and one after),
  sizes 1 to 3 with the canonical one in the middle, sizes 1 and 2 pinned, two G1
  files. About 2 million states.
- `bb_returns`: fairness is weak fairness of `Step(t)` for every thread, and of
  nothing else: a started thread keeps running. It is not assumed that calls
  begin, nor that the mutex is fair: `Lock` of a waiting thread may be disabled
  again and again by others, and with weak fairness alone the property
  holds because the number of calls in the life of a process is bounded, that is,
  under the premise that others do not take the lock for ever. What it shows is
  the absence of deadlock between `BB_LOCK` and the `OnceLock`, and that no panic
  leaves either unusable.
- `bb_panic` (a divergence).

### Proofs (`Barretenberg_proofs`)

For any number of threads, calls, paths and sizes. The invariant says first who
holds `BB_LOCK` at which step and that at most one thread is between `Lock` and
its end; the mode of the environment is then that of the thread inside
(`ModeMatches`). A second part says which bytes a thread may have in hand at
which step: verified ones, and `LoadCrs` needs those (`LoadedIsReal`), whatever other
processes do to the file between two reads. A third, `CrsOK`, relates what
Rust remembers to what bb holds: `points # 0 => crs.points = points`. It
needs the hypothesis that a panicking `srs_init_srs` leaves nothing behind
(`"after" \notin LoadPanics`), which the theorems state and `bb_panic` shows to be
needed; `EnoughPoints` and `InitReady` follow from it. `CanonicalServed` needs
that nobody preloads fewer points than a canonical circuit uses
(`preinit_srs` takes any number), and nothing about panics.

## 6. Freeze

### Correspondence

One freeze runs at a time and is modelled file by file: it parses the manifest
into `doc` (`Start`), visits the circuits of `CIRCUITS` (`SkipDropped`,
`SkipUnchanged`, `CompileFails`, `Refuse`, `Supersede`, `MintFirst`), writes the
three files of a version (`WriteBytecode`, `WriteAbi`, `InstallVk` or `BbFails`),
then reconciles entry by entry (`KeepArtifacts`, `DropBytecode`, `DropAbi`,
`DropVk`) and writes the manifest (`WriteManifest`). `Crash` kills it
between any two writes. `--check` compares circuit by circuit and writes
nothing (`StartCheck`, `CheckCircuit`, `CheckPanics`, `ReportCheck`); `verdict` is its outcome
so far, and history once it is over. Between freezes people edit sources and the manifest
(`Edit`, `Drop`, `SetStatus`, `Bind`, `Unbind`) and upgrade bb (`UpgradeBb`). What
`build.rs` would read is the operators `Identity`, `Loads`, `Heads`, `Resolves`.
`released` is history: what each version was when it was published.

A verification key is the pair of ACIR and bb release; keccak is injective, so
bytecode stands for its hash. Each single write or removal is atomic. Not
modelled: how a check finds the pinned toolchain and copies the sources (with another
bb it stops at once), and a change of the artifact layout.

### Properties and runs

`BuildAlwaysWorks`, `ReleasesImmutable` and `CheckVouches` (run `freeze`),
`KeysSurvive` and the action property `HeadIsSource` (run `freeze_killed`).
`CheckVouches` relates two comparisons that the code makes in two places: what
a check compares is enough for freezes to find nothing to mint, and freezes, which
never derive the key of an unchanged circuit again, do not spoil what a check
has found. After an upgrade of bb the verdict is open again and no freeze settles it.

- `freeze`: one circuit with two ACIRs and two ABIs, two bb releases, three
  versions (so that a version has a predecessor and a successor), one L2
  chain; freezes refuse and fail, checks pass and fail, statuses are edited. 3.6
  million states.
- `freeze_killed`: two circuits (a freeze that fails on the second has already
  written the first), two ABIs, four versions; killed between any two writes.
  3.9 million states.
- `MayRetire = FALSE` in both: nobody retires the active version of a circuit
  that is still compiled. `freeze_retire` drops that premise and
  shows what then happens. `torn` marks that a freeze died during its deletions;
  `BuildAlwaysWorks` and `ReleasesImmutable` are stated for the other cases and
  `freeze_crash` shows that one.

### Proofs (`Freeze_proofs`)

All six, for any sequence of circuits, any artifacts, chains and releases of bb, and any number
of freezes, checks, edits and crashes: `TypeOK` as it stands, the others under the hypothesis
`MayRetire = FALSE`, without which `freeze_retire` finds a release overwritten. None of the properties is
inductive; the invariant has four parts, each of which needs those before it:

1. `Shape`: types, where the freeze is and what it has in hand there, and at most one
   active entry for a module, so that the first one (`Active`) is the one.
2. `Lineage`: no two entries share a directory; the newest entry of a module of the tree is
   its active one, so that the version minted from it is newer than every entry and its
   directory is no entry's; and the entries of the freeze extend those of the file,
   with the same ones revoked. Retiring an active version breaks exactly this: the next
   freeze mints 1.0.0 again.
3. `Keys`: a published version is listed, and its key is in place while it is not revoked.
   A write goes to a directory of no entry, and `DropVk` to that of a revoked one. It does not
   depend on `torn`: `KeysSurvive` holds after any crash.
4. `Identities`: while an entry has both bytecode and a recorded hash, they agree; and unless a
   freeze died in its deletions, one of the two is there, for the entries of the file
   outside of reconciliation and for those in memory always. `ReleasesImmutable` follows.

Three more invariants rest on these: `Bound` (a bound version is listed and not revoked,
two versions of a chain differ) gives `BuildAlwaysWorks`; `Through` (the circuits a freeze is
through with have an active entry compiled from their source) gives `HeadIsSource`; `Vouched`
(what a check compared so far is still so) gives `CheckVouches`.

## 7. Ownership

### Correspondence

| Definition | Stands for |
|---|---|
| `Issue` | an attester derives the NFT key from an opaque key, a nonce and the wallet's consent key (`IssueForRemote`) and sends transcript and receipt; or the wallet makes the key itself (`Local`) |
| `Register` | the chain appends the entity hash to the tribute tree |
| `ProveOwnership`, `ProveTribute` | the witness builders, given the signer made of **any** transcript, **any** receipt, any context and any path the wallet may hold |
| `ProveFreely` | a prover that does not use the builders: any key it can come by, any nonce, the owner of one NFT and the hash of another |
| `Submit` | anyone hands any proof to the verifier, for any NFT and in any context, any number of times |

A secret and its public key are one term, `Shared(a, b) = {a, b}` is the same on
both sides, hashes are records, and a signature is the pair of key and payload,
which only a holder of the key makes. An `InclusionPath` is the tree it was
taken from and an index, as `Opens` in `Terms`; `Imt` checks what that rests on.
Assumed: opaque keys and nonces are fresh; **attesters do not prove**: whoever
issued an NFT knows the shared secret and could sign for it, by design of the
consent box, so the provers of the model are the wallets.

### Properties

- `AcceptedIsMeant`: a claim that was accepted was proved by the wallet the NFT
  was issued to, for that sender, that commitment and that pair of chains.
- `ReceiptsUsable`: a wallet that pairs transcript and receipt of an NFT of its
  own can prove it, with a path taken at any time since; the builders let no
  other wallet and no other pairing through.
- `WitnessesSatisfy`: a witness that a builder returned satisfies its circuit.

Run `ownership`: two wallets, two senders, two L2s, one commitment and host chain,
two NFTs (two receipts to confuse, of one wallet or of two), two proofs; wallets,
senders and L2s are interchangeable. 19,039 states. The system may stop: it is
bounded by NFTs and proofs.

### Proofs (`Ownership_proofs`)

All four, for any number of wallets, contexts, NFTs and proofs. The inductive
invariant `IInv` adds to the types:

- `NftOK`: the owner of every NFT is derived from a key that only its recipient's
  secret and the secret behind its opaque give, whichever side derived it;
- `ProofOK`: the owner a proof is about is derived from a key its prover could come
  by, and its binding is that of the context it was meant for.

`AcceptedIsMeant` then follows from the verifier's comparison, because a binding
determines its context (`BindingInjective`), and the accepted prover is the owner
because no two wallets can come by one key.

## 8. Codec, Entity, Schnorr, Producer; Wire and Client

These modules are the stateless half of the library: operators, translated from
the code function by function. `Producer` runs the first three as whoever makes
entities and signatures does; `Client` extends it with the proof wire, as a client
and a chain use it. `stage` and `item` remember the last operation, its input and its
output.

The types of an ABI are a list in which parts come before what is made of them, so
that what the code computes by recursion over a type (`AbiFieldCount`, `AbiLeaf`) is a
function on the places of the list. `AbiLeaf` keeps what `generate_abi_leaf` emits: the
ways to the leaves of a value, in order; `AbiLeaves` and `WitnessFields` follow them.
`WitnessFields` covers nested arrays, structs, points and booleans. The Alloy
conversions are modelled for what can be public (`IsPublicType`): `build.rs` refuses
other public types, and `Client` converts public inputs only.

| Action | Stands for |
|---|---|
| `HashEntity` | a producer hashes an entity, with or without `sort_set` first |
| `HashReordered` | the same struct, its fields declared in another order |
| `Sign` | `sign_bytes`, for every key and every behaviour of nonce hash and challenge hash |
| `SubmitAlloy`, `SubmitCircuit` | public inputs given as Alloy types or as circuit inputs are converted, laid out for the solver, encoded with the proof, and put into a call |
| `Alter` | one byte of the call changes, or some are cut off or added |
| `Receive` | the chain decodes the call and the public inputs, converts them, and splits the combined proof for bb |

Bytes are digits of `Base`, a word has `WordBytes` of them, and `Modulus` lies
below the largest word, as the BN254 modulus does. Limbs are translated with their
shifts: `Radix` is 2^120 and `Spill` the 2^8 by which the low limb falls short of
half a word. A hash is the sequence of the elements that were folded: equal only
for equal folds. A point is its logarithm in a group of prime `Order`.

### Properties

- `HashBinds`: entities hash alike exactly if their committed fields (those that some
  role folds into the hash) agree up to the order and repetition of vector members, and a
  normalised one hashes exactly if its words are canonical.
- `DeclarationOrderIrrelevant`: with positions, the order of declaration changes
  neither acceptance nor hash.
- `SignedVerifies`: what `sign_bytes` returns verifies, and it returns something
  whenever a counter it tries can give a signature.
- `IntactArrives`: an unaltered call arrives with the same inputs in both forms and the
  same proof; inputs without a canonical form are not sent; and every public parameter is at its
  slot of the witness.
- `ReadIsCanonical`: what is accepted is byte for byte the encoding of what was read,
  and bb is given the public inputs the chain read, although it finds them another way.

Run `client`: base 4, words of 4 bytes, modulus 61, addresses of 2 bytes, a group
of order 5, two counters. Half a word has 16 values and a radix of 8, so that every
pattern of limbs occurs, among them values just at and beyond each bound; a
third of all words is sent as an amount. One ABI has every kind of parameter
that build.rs accepts, among private ones a point and an array of booleans. The
struct has two adjacent vectors, vectors of up to two members out of words one of
which aliases another, and 448 variants of its attributes. The proof is one word.
24,873 states. Each behaviour is one operation (and its reception): it ends there, so
deadlock is not checked.

### Proofs (`Client_proofs`)

All five. `SignedVerifies`, for every group order above 2 and every behaviour of the hashes;
`DeclarationOrderIrrelevant`, for every struct and every order of its fields;
`HashBinds`, for every base, word width and modulus, every struct the derive macro
accepts and all its values; `IntactArrives` and `ReadIsCanonical`, for every width, every
ABI whose public types `build.rs` accepts, all inputs, witnesses and proofs.

The argument for `HashBinds` goes from bytes to structs:

1. a number is the number of one sequence of digits only (`NumberBinds`), so a
   word can be told from its field element below the modulus, and any word from its
   three limbs (`LimbsBind`): the shifts neither overlap nor drop a bit;
2. a normalised vector is the rising sequence of its members, and rising
   sequences with the same members are equal (`RisingBinds`);
3. a vector is folded as its length and its members, so that where a field ends
   can be told from what it begins with (`HeadBinds`, `PartsBind`): two adjacent vectors
   cannot trade members;
4. so a fold determines the normal form of the struct (`NormalHashesBind`), and what
   hashes without having been sorted is in normal form already (`HashedAsItIs`).

The two properties of calls follow from an inductive invariant, `WireInv`. It adds to them that
what was sent is the encoding of inputs in both forms (`Sent`), and that
an altered call is still a sequence of bytes. That is all that `Receive` needs, because the
readers are characterised for every sequence of bytes. Again from the bytes up:

1. *Numbers.* `BytesOfNumber` and `NumberBinds`: a number of a given length of bytes and
   its bytes determine each other; so do a canonical word and its field (`CanonicalWord`), and
   a 256-bit integer and its three limbs (`LimbsBack`, `U256Is`).
2. *Layout.* What is written part by part is found part by part: `FlatAt` for a flat
   sequence, `WordsFlat` and `FlatWords` for words in a row. A type has as many leaves
   as `AbiFieldCount` says (`LeavesAre`), so each parameter is at its slot of the witness
   (`SolverSlots`) and of the public inputs (`Layout`).
3. *One public input*, case by case over `IsPublicType`: what was encoded is decoded
   (`DecodesOwn`); what is decoded has just the words it was read from (`DecodedIs`);
   and it has an Alloy form that converts back (`AlloyBack`).
4. *The combined proof*: `EncodeIs` and `ArrivedIs` say when it is encoded and what it decodes
   to; by `CombinedOf`, bytes of the right length with the right count are the
   combined proof of their parts, and bb's reader (`SplitIs`), which goes by the header
   alone, finds the same parts. The count in the header is what the two readers must agree on.
5. *The call*: `VerifyCallIs` turns the nest of early returns into one condition,
   `WellFormed`; an encoded call meets it (`CallArrives`), and a well-formed input
   is the encoding of its hash and its data (`CallIs`), padding included.

The assumptions on widths are used in two places: the count must fit its bytes and a whole
call its length word (`WireAssumption`), without which a reader could see a shorter list.

## 9. Mutants

Next to the definition they change, the modules hold "Mutant" operators: the
definition with a plausible bug (a dropped comparison, a stale key, a missing
level). They are used by no specification; each property is broken by
putting the mutant in the place of the original.

## 10. Divergences found

| Run | Code | Says otherwise |
|---|---|---|
| `bb_panic` | after a panic that left a small CRS in bb, the next call records the larger size it asked for; nothing resets the state (`srs.rs:277-279`) | `barretenberg/mod.rs:52-53` |
| `freeze_crash` | bytecode is deleted while its hash is only in memory (`xtask/src/main.rs:428`); a freeze that dies then leaves an entry with neither | `xtask/src/main.rs:395-397` |
| `freeze_retire` | with no active version, 1.0.0 is minted again over the published one (`xtask/src/main.rs:234`) | `circuits/manifest.toml:4-10` |

Two more were met that no run states, because what they concern is a single check:

- the spend circuit only range-checks the asset (`spend/src/main.nr:43`), while
  `outbe-zk-canonical/README.md:112` lists a nonzero address among its checks; the merge
  circuit has the check (`merge/src/main.nr:31`). In `Paynote` the two circuits
  differ in the same way.
- `#[derive(Entity)]` accepts a field whose attribute names no role (only `pos`,
  `limbed` or `owner`), or `skip` next to `body`, and folds it nowhere;
  `outbe-protocol-derive/src/lib.rs:45` says "a consensus preimage must not
  silently omit a field". `Expand` in `Entity` does as the code does.

## 11. Assumptions in one place

Collision-free hashes and tags; sound proofs; unforgeable signatures; Paynote keys that
careless wallets do not guess (of careful wallets, and only for what is said of their notes,
the habits listed in section 2); fresh keys for new owner-bound notes and for NFTs; attesters that do not prove;
contracts that meet their obligations; bb's CRS is one-shot; a panic of bb before it
took effect for the safety runs; atomic single file writes; fair threads. The
proofs use the `ASSUME`s of `Terms`, `Paynote`, `PaynotePool`, `OwnedPool`, `Ownership`,
`Barretenberg`, `Freeze`, `Imt` (the depths the code accepts; no leaf is the empty one), `Codec`
(the widths fit each other as 256 bits, the limbs and the modulus do), `Schnorr` and `Producer`
(entities have the fields of their struct), `Wire` (parts of a type come before it) and `Client`
(public types are those `build.rs` accepts, the count fits a u32 and a call a usize, inputs
have the types of the generated structs), the hypotheses their theorems state, and
none of the bounds.

## 12. What is proved, and what is not

| Component | Proved | Only model-checked |
|---|---|---|
| Paynote pool | `TypeOK`, `NoDoubleSpend`, `UniqueLeaves`, `EveryNoteSpendable`, `PendingProofSurvives`, `Conservation`, `ImplementsVault` | |
| Ownership | `TypeOK`, `AcceptedIsMeant`, `ReceiptsUsable`, `WitnessesSatisfy` | |
| Barretenberg | `TypeOK`, `ModeMatches`, `LoadedIsReal`, `EnoughPoints`, `InitReady`, `CanonicalServed`, and `RecordedIsLoaded` under the premise that `bb_panic` drops | `EveryCallReturns` (liveness) |
| Emit and Pledge pools | `TypeOK`, `NoDoubleSpend`, `UniqueLeaves`, `EveryNoteSpendable`, `ImplementsVault` | |
| Merkle tree | `TypeOK`, `StoredNodesExact`, `FrontierRootExact`, `AppendsAgree`, `PathsVerify`, `OpeningBinds` | |
| Entities, codecs, signatures | `HashBinds`, `DeclarationOrderIrrelevant`, `SignedVerifies` | |
| Proof wire, layout of the witness | `IntactArrives`, `ReadIsCanonical` | |
| Freeze | `TypeOK`; and `KeysSurvive`, `ReleasesImmutable`, `BuildAlwaysWorks`, `HeadIsSource`, `CheckVouches` under the premise that no active version of a compiled circuit is retired | |

So every safety and action property of the passing runs is also a theorem; a theorem's own premises are in
its statement. Liveness (`EveryCallReturns`, under fair threads) is out of the prover's reach
and stays with TLC, as do the three runs of section 10, which are counterexamples.

Not modelled: toolchain pins, `xtask test-circuits` (it only runs nargo), the text of generated Rust, the Alloy
form of private inputs, signed integers (no circuit of the repository has one), compressed serialisation of keys, Pedersen generators and the
arithmetic of curve, hash and ACVM, the witness builder of the Niflheim circuit
(not in the repository).
