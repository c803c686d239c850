------------------------------- MODULE Freeze -------------------------------
(***************************************************************************)
(* The life of the frozen circuit registry: `cargo xtask freeze-circuits`  *)
(* (xtask/src/main.rs), which compiles the circuits, mints versions and    *)
(* reconciles the artifacts on disk; its read-only --check; the edits of   *)
(* circuits/manifest.toml that people make by hand; and what build.rs      *)
(* reads from the result.                                                  *)
(*                                                                         *)
(* keccak256 is injective, so an artifact stands for its own hash.  A      *)
(* verification key is determined by the ACIR and the version of bb that   *)
(* derives it.  The writes of the files of a version directory, their      *)
(* removals and the write of the manifest are separate steps; each is      *)
(* atomic on its own.                                                      *)
(***************************************************************************)
EXTENDS Naturals, Sequences, FiniteSets, TLC, SequencesExt

CONSTANTS
    Circuits,       \* the array CIRCUITS of xtask, as a sequence of modules
    Acirs, Abis,    \* what nargo may compile a circuit to
    Chains,         \* the L2 chains
    Flags,          \* the arguments freezes are run with, "none" for no argument
    None,
    MaxVersions,    \* bound on the entries of the manifest
    MaxBb,          \* bound on the releases of bb
    MayCrash,       \* a freeze may be killed between two of its writes
    MayRetire       \* the active version of a compiled circuit may be retired

ASSUME FreezeAssumption ==
    /\ Circuits \in Seq(Range(Circuits)) /\ Len(Circuits) > 0
    /\ None \notin Acirs \cup Abis /\ None \notin Nat \X Nat \X Nat
    /\ Flags \subseteq {"none", "abi", "semantic", "check"}
    /\ None \notin Acirs \X (1 .. MaxBb)
    /\ MaxVersions \in Nat /\ MaxBb \in Nat \ {0}
    /\ MayCrash \in BOOLEAN /\ MayRetire \in BOOLEAN

VARIABLES
    vendored,   \* the modules of Circuits that are still in the tree
    source,     \* what each compiles to: [acir, abi]
    bb,         \* the release of bb on the machine
    manifest,   \* the [[circuit]] entries of the file, in order
    bindings,   \* the [[l2_chain]] entries: chain |-> set of <<module, version>>
    disk,       \* the version directories: <<module, version>> |-> files
    pc, flag,   \* the freeze that runs: where it is, and its argument
    doc,        \* ... its copy of the entries, parsed once and written last
    k,          \* ... the circuit or the entry it is at
    version,    \* ... the version it mints
    released,   \* history: what each published version was
    torn,       \* history: a freeze died while it was deleting artifacts
    verdict     \* of the --check that runs, or of the last one: "passed" until
                \* something it compiled or compared is edited

freezer == <<pc, flag, doc, k, version>>
history == <<released, torn, verdict>>
vars == <<vendored, source, bb, manifest, bindings, disk, freezer, history>>

Modules == Range(Circuits)
Statuses == {"active", "deprecated", "revoked"}
NoFiles == [bytecode |-> None, abi |-> None, vk |-> None]

Dir(e) == <<e.module, e.version>>
Files(d) == IF d \in DOMAIN disk THEN disk[d] ELSE NoFiles

(* One file of a version directory gets a new content, None to remove it.  *)
Put(d, file, content) ==
    disk' = [x \in DOMAIN disk \cup {d} |->
                IF x = d THEN [Files(d) EXCEPT ![file] = content] ELSE disk[x]]

VkOf(acir) == <<acir, bb>>

(* The entry a freeze supersedes: the first active one of the module, or 0.*)
Active(m, entries) ==
    SelectInSeq(entries, LAMBDA e : e.module = m /\ e.status = "active")

BumpInPlace(v, level) ==
    IF level = 2 THEN v ELSE <<v[1], v[2] + 1, 0>>

Bump(v, level) ==
    CASE level = 0 -> <<v[1] + 1, 0, 0>>
      [] level = 1 -> <<v[1], v[2] + 1, 0>>
      [] level = 2 -> <<v[1], v[2], v[3] + 1>>

-----------------------------------------------------------------------------
(* The build: load_circuits, the heads and the L2 registry.                *)

Verifiable(e) == e.status # "revoked"

(* The hash and the verification key an entry is registered with.          *)
Identity(e) ==
    LET files == Files(Dir(e))
    IN [hash |-> IF files.bytecode # None THEN files.bytecode ELSE e.hash,
        vk |-> files.vk]

Loads(e) == Identity(e).hash # None /\ Identity(e).vk # None

Newer(v, w) ==
    \/ v[1] > w[1]
    \/ v[1] = w[1] /\ v[2] > w[2]
    \/ v[1] = w[1] /\ v[2] = w[2] /\ v[3] > w[3]

(* The entries that a `pub mod` is generated for: the newest provable      *)
(* active version of the module.                                           *)
Heads(m) ==
    LET provable == {e \in Range(manifest) :
            /\ e.module = m /\ e.status = "active"
            /\ Files(Dir(e)).bytecode # None /\ Files(Dir(e)).abi # None}
    IN {e \in provable : \A f \in provable : ~Newer(f.version, e.version)}

(* A binding resolves to a version that is loaded, and no two of a chain   *)
(* have the same version string.                                           *)
Resolves(c) ==
    /\ \A b \in bindings[c] : \E e \in Range(manifest) :
            Verifiable(e) /\ Dir(e) = b
    /\ \A b1, b2 \in bindings[c] : b1[2] = b2[2] => b1 = b2

Builds ==
    /\ \A e \in Range(manifest) : Verifiable(e) => Loads(e)
    /\ \A c \in Chains : Resolves(c)

-----------------------------------------------------------------------------
Init ==
    /\ vendored = Modules
    /\ source \in [Modules -> [acir : Acirs, abi : Abis]]
    /\ bb = 1
    /\ manifest = <<>>
    /\ bindings = [c \in Chains |-> {}]
    /\ disk = <<>>
    /\ pc = "idle" /\ flag = None /\ doc = <<>> /\ k = 0 /\ version = None
    /\ released = {} /\ torn = FALSE /\ verdict = "open"

(* The process is gone: what it had in memory is lost.                     *)
Exit ==
    pc' = "idle" /\ flag' = None /\ doc' = <<>> /\ k' = 0 /\ version' = None

environment == <<vendored, source, bb, bindings>>

Start(f) ==
    /\ pc = "idle"
    /\ Len(manifest) + Cardinality(vendored) <= MaxVersions
    /\ pc' = "compile" /\ flag' = f /\ doc' = manifest /\ k' = 1
    /\ UNCHANGED <<environment, manifest, disk, version, history>>

Advance ==
    IF k < Len(Circuits)
    THEN pc' = "compile" /\ k' = k + 1
    ELSE pc' = "reconcile" /\ k' = 1

(* The circuit was dropped from CIRCUITS.                                  *)
SkipDropped ==
    /\ pc = "compile" /\ Circuits[k] \notin vendored
    /\ Advance
    /\ UNCHANGED <<environment, manifest, disk, flag, doc, version, history>>

AbiIgnored(m) == FALSE

AbiDiffers(m) == Files(Dir(doc[Active(m, doc)])).abi # source[m].abi

AcirDiffers(m) == Files(Dir(doc[Active(m, doc)])).bytecode # source[m].acir

SkipUnchanged ==
    LET m == Circuits[k] IN
    /\ pc = "compile" /\ m \in vendored
    /\ Active(m, doc) # 0
    /\ ~AcirDiffers(m) /\ ~AbiDiffers(m)
    /\ Advance
    /\ UNCHANGED <<environment, manifest, disk, flag, doc, version, history>>

CompileFails ==
    /\ pc = "compile" /\ Circuits[k] \in vendored
    /\ Exit
    /\ UNCHANGED <<environment, manifest, disk, history>>

(* The active version has no bytecode, or its ABI changed and no flag says *)
(* how: the freeze panics, with the directories it wrote for the circuits  *)
(* before this one left behind and in no manifest.                         *)
Refuse ==
    LET m == Circuits[k] IN
    /\ pc = "compile" /\ m \in vendored
    /\ Active(m, doc) # 0
    /\ \/ Files(Dir(doc[Active(m, doc)])).bytecode = None
       \/ AbiDiffers(m) /\ flag = "none"
    /\ Exit
    /\ UNCHANGED <<environment, manifest, disk, history>>

Supersede ==
    LET m == Circuits[k]
        level == IF ~AbiDiffers(m) THEN 2
                 ELSE IF flag = "semantic" THEN 0 ELSE 1
    IN
    /\ pc = "compile" /\ m \in vendored
    /\ Active(m, doc) # 0
    /\ Files(Dir(doc[Active(m, doc)])).bytecode # None
    /\ AcirDiffers(m) \/ AbiDiffers(m)
    /\ AbiDiffers(m) => flag # "none"
    /\ version' = Bump(doc[Active(m, doc)].version, level)
    /\ pc' = "bytecode"
    /\ UNCHANGED <<environment, manifest, disk, flag, doc, k, history>>

MintFirst ==
    LET m == Circuits[k] IN
    /\ pc = "compile" /\ m \in vendored
    /\ Active(m, doc) = 0
    /\ version' = <<1, 0, 0>>
    /\ pc' = "bytecode"
    /\ UNCHANGED <<environment, manifest, disk, flag, doc, k, history>>

WriteBytecode ==
    LET m == Circuits[k] IN
    /\ pc = "bytecode"
    /\ Put(<<m, version>>, "bytecode", source[m].acir)
    /\ pc' = "abi"
    /\ UNCHANGED <<environment, manifest, flag, doc, k, version, history>>

WriteAbi ==
    LET m == Circuits[k] IN
    /\ pc = "abi"
    /\ Put(<<m, version>>, "abi", source[m].abi)
    /\ pc' = "vk"
    /\ UNCHANGED <<environment, manifest, flag, doc, k, version, history>>

(* bb derives the key, the entry is appended, and the one it supersedes    *)
(* becomes deprecated and keeps its hash.                                  *)
Deprecated(entries, i) ==
    IF i = 0 THEN entries
    ELSE [entries EXCEPT ![i].status = "deprecated",
                         ![i].hash = Files(Dir(entries[i])).bytecode]

InstallVk ==
    LET m == Circuits[k] IN
    /\ pc = "vk"
    /\ Put(<<m, version>>, "vk", VkOf(source[m].acir))
    /\ doc' = Append(Deprecated(doc, Active(m, doc)),
                     [module |-> m, version |-> version,
                      status |-> "active", hash |-> None])
    /\ version' = None
    /\ Advance
    /\ UNCHANGED <<environment, manifest, flag, history>>

BbFails ==
    /\ pc = "vk"
    /\ Exit
    /\ UNCHANGED <<environment, manifest, disk, history>>

(* reconcile_artifacts, entry by entry and file by file.                   *)
Retired == pc = "reconcile" /\ k <= Len(doc) /\ doc[k].status # "active"

KeepArtifacts ==
    /\ pc = "reconcile" /\ k <= Len(doc) /\ doc[k].status = "active"
    /\ k' = k + 1
    /\ UNCHANGED <<environment, manifest, disk, pc, flag, doc, version, history>>

HashOfVk(e) == IF e.hash = None THEN Files(Dir(e)).vk ELSE e.hash

HashForgotten(e) == e.hash

RecordedHash(e) == IF e.hash = None THEN Files(Dir(e)).bytecode ELSE e.hash

DropBytecode ==
    /\ Retired
    /\ doc' = [doc EXCEPT ![k].hash = RecordedHash(doc[k])]
    /\ Put(Dir(doc[k]), "bytecode", None)
    /\ pc' = "drop abi"
    /\ UNCHANGED <<environment, manifest, flag, k, version, history>>

DropAllButBytecode ==
    /\ pc = "drop abi"
    /\ disk' = (Dir(doc[k]) :> NoFiles) @@ disk
    /\ pc' = "reconcile" /\ k' = k + 1
    /\ UNCHANGED <<environment, manifest, flag, doc, version, history>>

DropAbi ==
    /\ pc = "drop abi"
    /\ Put(Dir(doc[k]), "abi", None)
    /\ IF doc[k].status = "revoked"
       THEN pc' = "drop vk" /\ UNCHANGED k
       ELSE pc' = "reconcile" /\ k' = k + 1
    /\ UNCHANGED <<environment, manifest, flag, doc, version, history>>

DropVk ==
    /\ pc = "drop vk"
    /\ Put(Dir(doc[k]), "vk", None)
    /\ pc' = "reconcile" /\ k' = k + 1
    /\ UNCHANGED <<environment, manifest, flag, doc, version, history>>

(* The manifest is written last; what it adds is now published.            *)
WriteManifest ==
    /\ pc = "reconcile" /\ k = Len(doc) + 1
    /\ manifest' = doc
    /\ released' = released \cup
            {[dir |-> Dir(doc[i]), identity |-> Identity(doc[i])] :
                i \in Len(manifest) + 1 .. Len(doc)}
    /\ Exit
    /\ UNCHANGED <<environment, disk, torn, verdict>>

Crash ==
    /\ MayCrash
    /\ pc # "idle"
    /\ Exit
    /\ torn' = (torn \/ pc \in {"reconcile", "drop abi", "drop vk"})
    /\ verdict' = IF pc = "check" THEN "open" ELSE verdict
    /\ UNCHANGED <<environment, manifest, disk, released>>

-----------------------------------------------------------------------------
(* freeze-circuits --check, with the pinned bb (with another it stops      *)
(* before it reads anything).  It compiles and derives in a scratch tree,  *)
(* and compares with the active versions.                                  *)

StartCheck ==
    /\ pc = "idle" /\ "check" \in Flags
    /\ pc' = "check" /\ flag' = "check" /\ doc' = manifest /\ k' = 1
    /\ verdict' = "passing"
    /\ UNCHANGED <<environment, manifest, disk, version, released, torn>>

KeyNotDerived(m) ==
    /\ Active(m, doc) # 0
    /\ Files(Dir(doc[Active(m, doc)])).bytecode = source[m].acir
    /\ Files(Dir(doc[Active(m, doc)])).abi = source[m].abi

Reproduces(m) ==
    /\ Active(m, doc) # 0
    /\ Files(Dir(doc[Active(m, doc)])) =
            [bytecode |-> source[m].acir, abi |-> source[m].abi,
             vk |-> VkOf(source[m].acir)]

(* A circuit that reproduces, unless bb fails on it.                       *)
CheckCircuit ==
    LET m == Circuits[k] IN
    /\ pc = "check" /\ k <= Len(Circuits)
    /\ k' = k + 1
    /\ verdict' \in IF m \notin vendored THEN {verdict}
                    ELSE IF Reproduces(m) THEN {verdict, "failing"}
                    ELSE {"failing"}
    /\ UNCHANGED <<environment, manifest, disk, pc, flag, doc, version, released, torn>>

CheckPanics ==
    /\ pc = "check" /\ k <= Len(Circuits) /\ Circuits[k] \in vendored
    /\ Exit
    /\ verdict' = "open"
    /\ UNCHANGED <<environment, manifest, disk, released, torn>>

ReportCheck ==
    /\ pc = "check" /\ k = Len(Circuits) + 1
    /\ Exit
    /\ verdict' = IF verdict = "passing" THEN "passed" ELSE "open"
    /\ UNCHANGED <<environment, manifest, disk, released, torn>>

-----------------------------------------------------------------------------
(* Edits by hand, between two freezes.                                     *)

Edit(m, acir, abi) ==
    /\ pc = "idle" /\ m \in vendored
    /\ source' = [source EXCEPT ![m] = [acir |-> acir, abi |-> abi]]
    /\ verdict' = "open"
    /\ UNCHANGED <<vendored, bb, manifest, bindings, disk, freezer, released, torn>>

(* A circuit leaves CIRCUITS and the noir tree for good.                   *)
Drop(m) ==
    /\ pc = "idle" /\ m \in vendored
    /\ vendored' = vendored \ {m}
    /\ UNCHANGED <<source, bb, manifest, bindings, disk, freezer, history>>

UpgradeBb ==
    /\ pc = "idle" /\ bb < MaxBb
    /\ bb' = bb + 1
    /\ verdict' = "open"
    /\ UNCHANGED <<vendored, source, manifest, bindings, disk, freezer, released, torn>>

(* active -> deprecated -> revoked, one entry at a time.                   *)
SetStatus(i, status) ==
    /\ pc = "idle"
    /\ <<manifest[i].status, status>> \in
            {<<"active", "deprecated">>, <<"active", "revoked">>,
             <<"deprecated", "revoked">>}
    /\ manifest[i].status = "active" /\ manifest[i].module \in vendored
            => MayRetire
    /\ status = "revoked" => \A c \in Chains : Dir(manifest[i]) \notin bindings[c]
    /\ manifest' = [manifest EXCEPT ![i].status = status]
    /\ verdict' = IF manifest[i].status = "active" /\ manifest[i].module \in vendored
                  THEN "open" ELSE verdict
    /\ UNCHANGED <<vendored, source, bb, bindings, disk, freezer, released, torn>>

Bind(c, i) ==
    /\ pc = "idle"
    /\ Verifiable(manifest[i])
    /\ \A b \in bindings[c] : b[2] # manifest[i].version
    /\ bindings' = [bindings EXCEPT ![c] = @ \cup {Dir(manifest[i])}]
    /\ UNCHANGED <<vendored, source, bb, manifest, disk, freezer, history>>

Unbind(c, b) ==
    /\ pc = "idle"
    /\ bindings' = [bindings EXCEPT ![c] = @ \ {b}]
    /\ UNCHANGED <<vendored, source, bb, manifest, disk, freezer, history>>

Next ==
    \/ \E f \in Flags \ {"check"} : Start(f)
    \/ SkipDropped \/ SkipUnchanged \/ CompileFails \/ Refuse \/ Supersede \/ MintFirst
    \/ WriteBytecode \/ WriteAbi \/ InstallVk \/ BbFails
    \/ KeepArtifacts \/ DropBytecode \/ DropAbi \/ DropVk \/ WriteManifest
    \/ StartCheck \/ CheckCircuit \/ CheckPanics \/ ReportCheck
    \/ Crash
    \/ \E m \in Modules, acir \in Acirs, abi \in Abis : Edit(m, acir, abi)
    \/ \E m \in Modules : Drop(m)
    \/ UpgradeBb
    \/ \E i \in DOMAIN manifest, s \in Statuses : SetStatus(i, s)
    \/ \E c \in Chains, i \in DOMAIN manifest : Bind(c, i)
    \/ \E c \in Chains : \E b \in bindings[c] : Unbind(c, b)

Spec == Init /\ [][Next]_vars

-----------------------------------------------------------------------------
(* Properties.                                                             *)

Versions == Nat \X Nat \X Nat
Entries == Seq([module : Modules, version : Versions, status : Statuses,
                hash : Acirs \cup {None}])

(* The registry and the freeze hold values of their types; in particular   *)
(* the hash an entry records is that of bytecode.                          *)
TypeOK ==
    /\ vendored \subseteq Modules
    /\ source \in [Modules -> [acir : Acirs, abi : Abis]]
    /\ bb \in 1 .. MaxBb
    /\ manifest \in Entries /\ doc \in Entries
    /\ bindings \in [Chains -> SUBSET (Modules \X Versions)]
    /\ \A d \in DOMAIN disk :
        /\ d \in Modules \X Versions
        /\ disk[d] \in [bytecode : Acirs \cup {None}, abi : Abis \cup {None},
                        vk : (Acirs \X (1 .. MaxBb)) \cup {None}]
    /\ flag \in Flags \cup {None}
    /\ k \in Nat /\ version \in Versions \cup {None}
    /\ pc \in {"idle", "compile", "bytecode", "abi", "vk",
               "reconcile", "drop abi", "drop vk", "check"}
    /\ verdict \in {"open", "passing", "failing", "passed"}

(* Whenever no freeze runs, the crate builds: every entry that is not      *)
(* revoked has a key and a hash, on disk or in the manifest, and every L2  *)
(* binding resolves (load_circuits and generate_l2_registry panic          *)
(* otherwise).  A freeze may have failed or died anywhere but in its       *)
(* deletions: that case is IdentityPreserved, below.                       *)
BuildAlwaysWorks == pc = "idle" /\ ~torn => Builds

(* A published version is immutable: as long as it is not revoked, the     *)
(* registry has exactly one entry for it, with the hash and the key it was *)
(* published with, whatever was compiled, minted, deprecated and dropped   *)
(* since, and whichever bb is installed (header of circuits/manifest.toml).*)
ReleasesImmutable ==
    pc = "idle" /\ ~torn => \A r \in released :
        \E i \in DOMAIN manifest :
            /\ Dir(manifest[i]) = r.dir
            /\ Verifiable(manifest[i]) => Identity(manifest[i]) = r.identity
            /\ \A j \in DOMAIN manifest : Dir(manifest[j]) = r.dir => j = i

(* The verification key of a published version that is not revoked is in   *)
(* its place at every moment of every freeze, also of one that crashed, so *)
(* that proofs in flight verify (README, lifecycle table).                 *)
KeysSurvive ==
    \A r \in released :
        (\E e \in Range(manifest) : Dir(e) = r.dir /\ Verifiable(e))
            => Files(r.dir).vk = r.identity.vk

(* A --check that passed vouches for every circuit of the tree, until the  *)
(* circuit, its active entry or bb changes: what users prove and verify    *)
(* with is what the source compiles to and what the installed bb derives   *)
(* from it, and freezes in between find nothing to mint.  (A freeze itself *)
(* keeps the key of an unchanged circuit, whatever bb derived it.)         *)
CheckVouches ==
    verdict = "passed" =>
        /\ pc \notin {"bytecode", "abi", "vk"}
        /\ \A m \in vendored : \E e \in Range(manifest) :
              /\ Heads(m) = {e}
              /\ disk[Dir(e)] = [bytecode |-> source[m].acir, abi |-> source[m].abi,
                                 vk |-> VkOf(source[m].acir)]

(* A freeze that finishes leaves every circuit of the tree with a single   *)
(* head to prove with, and it is what the source compiles to now.          *)
HeadIsSource ==
    [][WriteManifest => \A m \in vendored' :
          /\ \E e \in Range(manifest') :
                /\ Heads(m)' = {e}
                /\ disk'[Dir(e)].bytecode = source'[m].acir
                /\ disk'[Dir(e)].abi = source'[m].abi]_vars

(* The hash of every published version survives, in its bytecode or in the *)
(* manifest: reconcile_artifacts "preserves the binary identity in the     *)
(* manifest" before it deletes anything (xtask/src/main.rs).               *)
IdentityPreserved ==
    pc = "idle" => \A e \in Range(manifest) : Identity(e).hash # None
=============================================================================
