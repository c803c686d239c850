---------------------------- MODULE Freeze_proofs ----------------------------
(***************************************************************************)
(* Proofs about Freeze, for any circuits, any number of freezes, checks,   *)
(* edits and crashes; after type correctness, under the premise that       *)
(* nobody retires the active version of a compiled circuit.                *)
(* The argument:                                                           *)
(*   Shape       types, where the freeze is, and that a module has at      *)
(*               most one active entry;                                    *)
(*   Lineage     no two entries share a directory, the newest entry of a   *)
(*               module of the tree is the active one, so what is minted   *)
(*               is newer than all of them, and the entries of the freeze  *)
(*               extend those of the file;                                 *)
(*   Keys        a published key is in its directory: the freeze writes    *)
(*               into fresh directories and drops keys of revoked entries; *)
(*   Identities  bytecode and recorded hash of an entry agree, and one of  *)
(*               the two is there, in the file or in the freeze;           *)
(*   Bound, Through, Vouched   what the bindings, a freeze that is under   *)
(*               way and a check that passed can rely on.                  *)
(***************************************************************************)
EXTENDS Freeze, SequenceTheorems, TLAPS

\* An entry of the manifest, and the files of a version directory.
Entry == [module : Modules, version : Versions, status : Statuses,
          hash : Acirs \cup {None}]

FileSet == [bytecode : Acirs \cup {None}, abi : Abis \cup {None},
            vk : (Acirs \X (1 .. MaxBb)) \cup {None}]

-----------------------------------------------------------------------------
\* Lemmas about the operators.

LEMMA EntriesAreSeq == Entries = Seq(Entry)
BY DEF Entries, Entry

LEMMA CircuitsAreModules ==
  /\ DOMAIN Circuits = 1..Len(Circuits) /\ Len(Circuits) \in Nat \ {0}
  /\ \A n \in 1..Len(Circuits) : Circuits[n] \in Modules
  /\ \A m \in Modules : \E n \in 1..Len(Circuits) : m = Circuits[n]
BY FreezeAssumption, SMT DEF Modules, Range

\* The active entries of a module are at most one.
OneActive(es) ==
  \A i, j \in 1..Len(es) :
    /\ es[i].module = es[j].module
    /\ es[i].status = "active" /\ es[j].status = "active"
    => i = j

\* With one active entry at most, Active is that entry, or 0 if there is none.
LEMMA ActiveIs ==
  ASSUME NEW es \in Entries, OneActive(es), NEW m
  PROVE  /\ Active(m, es) \in 0..Len(es)
         /\ Active(m, es) # 0 =>
              /\ es[Active(m, es)].module = m
              /\ es[Active(m, es)].status = "active"
         /\ \A i \in 1..Len(es) :
              es[i].module = m /\ es[i].status = "active" => i = Active(m, es)
<1> DEFINE I == {i \in 1..Len(es) : es[i].module = m /\ es[i].status = "active"}
<1>1. Active(m, es) = IF I # {} THEN Min(I) ELSE 0
  BY DEF Active, SelectInSeq
<1>2. Len(es) \in Nat
  BY EntriesAreSeq, LenProperties
<1>3. CASE I = {}
  BY <1>1, <1>2, <1>3
<1>4. ASSUME NEW i \in I PROVE Min(I) = i
  <2>1. I = {i}
    BY <1>4 DEF OneActive
  <2> HIDE DEF I
  <2>2. Min({i}) = i
    <3>1. i \in {i} /\ \A y \in {i} : i <= y
      BY <1>2, <2>1 DEF I
    <3> QED BY <3>1 DEF Min
  <2> QED BY <2>1, <2>2
<1> QED BY <1>1, <1>2, <1>3, <1>4

\* A write changes the one file of the one directory.
LEMMA PutChanges ==
  ASSUME NEW d, NEW file, NEW content, Put(d, file, content)
  PROVE  \A x : Files(x)' = IF x = d THEN [Files(d) EXCEPT ![file] = content]
                            ELSE Files(x)
BY DEF Put, Files

\* Whatever level is bumped, the version is newer; newer is a strict order.
LEMMA BumpIsNewer ==
  ASSUME NEW v \in Versions, NEW level \in 0..2
  PROVE  Bump(v, level) \in Versions /\ Newer(Bump(v, level), v)
BY SMT DEF Bump, Newer, Versions

LEMMA NewerTransitive ==
  ASSUME NEW u \in Versions, NEW v \in Versions, NEW w \in Versions,
         Newer(u, v), Newer(v, w)
  PROVE  Newer(u, w)
BY SMT DEF Newer, Versions

LEMMA NotNewerThanSelf ==
  ASSUME NEW v \in Versions PROVE ~Newer(v, v)
BY SMT DEF Newer, Versions

\* Deprecating changes the status and the hash of one entry.
LEMMA DeprecatedIs ==
  ASSUME NEW es \in Entries, NEW i \in 0..Len(es)
  PROVE  /\ Len(Deprecated(es, i)) = Len(es)
         /\ DOMAIN Deprecated(es, i) = 1..Len(es)
         /\ \A j \in 1..Len(es) :
              Deprecated(es, i)[j] =
                IF j = i
                THEN [module |-> es[j].module, version |-> es[j].version,
                      status |-> "deprecated", hash |-> Files(Dir(es[j])).bytecode]
                ELSE es[j]
<1>1. Len(es) \in Nat /\ DOMAIN es = 1..Len(es) /\ \A j \in 1..Len(es) : es[j] \in Entry
  BY EntriesAreSeq, LenProperties, ElementOfSeq
<1>2. CASE i = 0
  BY <1>1, <1>2 DEF Deprecated
<1>3. CASE i # 0
  BY <1>1, <1>3 DEF Deprecated, Entry
<1> QED BY <1>2, <1>3

LEMMA EntriesFacts ==
  /\ <<>> \in Entries /\ Len(<<>>) = 0
  /\ \A es \in Entries :
       /\ Len(es) \in Nat /\ DOMAIN es = 1..Len(es)
       /\ \A i \in 1..Len(es) : es[i] \in Entry
BY EntriesAreSeq, LenProperties, ElementOfSeq, EmptySeq

LEMMA EntryFacts ==
  ASSUME NEW e \in Entry
  PROVE  /\ e = [module |-> e.module, version |-> e.version,
                 status |-> e.status, hash |-> e.hash]
         /\ e.module \in Modules /\ e.version \in Versions
         /\ e.status \in Statuses /\ e.hash \in Acirs \cup {None}
         /\ Dir(e) = <<e.module, e.version>> /\ Dir(e) \in Modules \X Versions
BY DEF Entry, Dir

\* An entry gets another status or another hash.
LEMMA Replaced ==
  ASSUME NEW es \in Entries, NEW i \in 1..Len(es), NEW e \in Entry
  PROVE  /\ [es EXCEPT ![i] = e] \in Entries
         /\ Len([es EXCEPT ![i] = e]) = Len(es)
         /\ \A j \in 1..Len(es) :
              [es EXCEPT ![i] = e][j] = IF j = i THEN e ELSE es[j]
BY EntriesAreSeq, EntriesFacts, ExceptSeq

WithStatus(e, status) == [module |-> e.module, version |-> e.version,
                          status |-> status, hash |-> e.hash]

WithHash(e, hash) == [module |-> e.module, version |-> e.version,
                      status |-> e.status, hash |-> hash]

LEMMA StatusReplaced ==
  ASSUME NEW es \in Entries, NEW i \in 1..Len(es), NEW status \in Statuses
  PROVE  /\ [es EXCEPT ![i].status = status] \in Entries
         /\ Len([es EXCEPT ![i].status = status]) = Len(es)
         /\ \A j \in 1..Len(es) :
              [es EXCEPT ![i].status = status][j] =
                IF j = i THEN WithStatus(es[i], status) ELSE es[j]
<1>1. es[i] \in Entry
  BY EntriesFacts
<1>2. [es[i] EXCEPT !.status = status] = WithStatus(es[i], status)
  BY <1>1 DEF Entry, WithStatus
<1>3. WithStatus(es[i], status) \in Entry
  BY <1>1 DEF Entry, WithStatus
<1>4. [es EXCEPT ![i].status = status] = [es EXCEPT ![i] = WithStatus(es[i], status)]
  BY <1>2
<1> QED BY <1>3, <1>4, Replaced

LEMMA HashReplaced ==
  ASSUME NEW es \in Entries, NEW i \in 1..Len(es), NEW hash \in Acirs \cup {None}
  PROVE  /\ [es EXCEPT ![i].hash = hash] \in Entries
         /\ Len([es EXCEPT ![i].hash = hash]) = Len(es)
         /\ \A j \in 1..Len(es) :
              [es EXCEPT ![i].hash = hash][j] =
                IF j = i THEN WithHash(es[i], hash) ELSE es[j]
<1>1. es[i] \in Entry
  BY EntriesFacts
<1>2. [es[i] EXCEPT !.hash = hash] = WithHash(es[i], hash)
  BY <1>1 DEF Entry, WithHash
<1>3. WithHash(es[i], hash) \in Entry
  BY <1>1 DEF Entry, WithHash
<1>4. [es EXCEPT ![i].hash = hash] = [es EXCEPT ![i] = WithHash(es[i], hash)]
  BY <1>2
<1> QED BY <1>3, <1>4, Replaced

\* What InstallVk makes of the entries.
NewEntry(m, v) == [module |-> m, version |-> v, status |-> "active", hash |-> None]

Minted(es, m, v) == Append(Deprecated(es, Active(m, es)), NewEntry(m, v))

\* Minting a version keeps the order of the entries and adds one at the end.
LEMMA MintedIs ==
  ASSUME NEW es \in Entries, OneActive(es), NEW m \in Modules, NEW v \in Versions,
         \A d : Files(d) \in FileSet
  PROVE  /\ Minted(es, m, v) \in Entries
         /\ Len(Minted(es, m, v)) = Len(es) + 1
         /\ Minted(es, m, v)[Len(es) + 1] = NewEntry(m, v)
         /\ \A j \in 1..Len(es) :
              Minted(es, m, v)[j] =
                IF j = Active(m, es)
                THEN [module |-> es[j].module, version |-> es[j].version,
                      status |-> "deprecated", hash |-> Files(Dir(es[j])).bytecode]
                ELSE es[j]
         /\ OneActive(Minted(es, m, v))
<1> DEFINE a == Active(m, es)
           old == Deprecated(es, a)
<1>1. a \in 0..Len(es) /\ Len(es) \in Nat
  BY ActiveIs, EntriesFacts
<1>2. /\ Len(old) = Len(es) /\ DOMAIN old = 1..Len(es)
      /\ \A j \in 1..Len(es) :
           old[j] = IF j = a
             THEN [module |-> es[j].module, version |-> es[j].version,
                   status |-> "deprecated", hash |-> Files(Dir(es[j])).bytecode]
             ELSE es[j]
  BY <1>1, DeprecatedIs
<1>3. old \in Seq(Entry)
  <2>1. CASE a = 0
    BY <2>1, EntriesAreSeq DEF Deprecated
  <2>2. CASE a # 0
    <3>1. es[a] \in Entry /\ Files(Dir(es[a])).bytecode \in Acirs \cup {None}
      BY <1>1, <2>2, EntriesFacts DEF FileSet
    <3>2. \A j \in 1..Len(es) : es[j] \in Entry /\ old[j] \in Entry
      BY <1>2, <3>1, EntriesFacts DEF Entry, Statuses
    <3>3. old = [j \in 1..Len(es) |-> old[j]]
      BY <1>2, <2>2, EntriesFacts DEF Deprecated
    <3>4. old \in [1..Len(es) -> Entry]
      BY <3>2, <3>3
    <3> QED BY <1>1, <3>4, SeqDef
  <2> QED BY <2>1, <2>2
<1>4. NewEntry(m, v) \in Entry
  BY DEF NewEntry, Entry, Statuses
<1> HIDE DEF old
<1>5. /\ Append(old, NewEntry(m, v)) \in Seq(Entry)
      /\ Len(Append(old, NewEntry(m, v))) = Len(es) + 1
      /\ Append(old, NewEntry(m, v))[Len(es) + 1] = NewEntry(m, v)
      /\ \A j \in 1..Len(es) : Append(old, NewEntry(m, v))[j] = old[j]
  BY <1>2, <1>3, <1>4, AppendProperties
<1>6. Minted(es, m, v) = Append(old, NewEntry(m, v))
  BY DEF Minted, old
<1>7. OneActive(Minted(es, m, v))
  <2> SUFFICES ASSUME NEW i \in 1..Len(es)+1, NEW j \in 1..Len(es)+1,
                      Minted(es, m, v)[i].module = Minted(es, m, v)[j].module,
                      Minted(es, m, v)[i].status = "active",
                      Minted(es, m, v)[j].status = "active"
               PROVE  i = j
    BY <1>5, <1>6 DEF OneActive
  <2>1. \A n \in 1..Len(es) : n = a => Minted(es, m, v)[n].status = "deprecated"
    BY <1>2, <1>5, <1>6
  <2>2. \A n \in 1..Len(es) : n # a => Minted(es, m, v)[n] = es[n]
    BY <1>2, <1>5, <1>6
  <2>3. \A n \in 1..Len(es) : es[n].module = m /\ es[n].status = "active" => n = a
    BY ActiveIs
  <2>4. Minted(es, m, v)[Len(es)+1].module = m
    BY <1>5, <1>6 DEF NewEntry
  <2> HIDE DEF a
  <2>5. CASE i \in 1..Len(es) /\ j \in 1..Len(es)
    BY <2>1, <2>2, <2>5 DEF OneActive
  <2>6. CASE i = Len(es)+1 \/ j = Len(es)+1
    BY <1>1, <2>1, <2>2, <2>3, <2>4, <2>6
  <2> QED BY <1>1, <2>5, <2>6
<1> QED BY <1>2, <1>5, <1>6, <1>7, EntriesAreSeq

-----------------------------------------------------------------------------
\* Type correctness.

Minting == pc \in {"bytecode", "abi", "vk"}

\* Where the freeze is, and what it has in hand there.
PcOK ==
  /\ pc = "idle" => doc = <<>>
  /\ pc = "compile" \/ Minting => k \in 1..Len(Circuits)
  /\ Minting => version \in Versions /\ Circuits[k] \in vendored
  /\ pc = "reconcile" => k \in 1..Len(doc)+1
  /\ pc \in {"drop abi", "drop vk"} => k \in 1..Len(doc) /\ doc[k].status # "active"
  /\ pc = "drop vk" => doc[k].status = "revoked"
  /\ pc = "check" => doc = manifest /\ k \in 1..Len(Circuits)+1

Shape ==
  /\ TypeOK /\ PcOK
  /\ OneActive(manifest) /\ OneActive(doc)

DiskOK ==
  /\ DOMAIN disk \subseteq Modules \X Versions
  /\ \A d \in DOMAIN disk : disk[d] \in FileSet

LEMMA TypedFiles ==
  ASSUME DiskOK PROVE \A d : Files(d) \in FileSet
BY DEF DiskOK, Files, NoFiles, FileSet

LEMMA FileReplaced ==
  ASSUME NEW f \in FileSet
  PROVE  /\ \A c \in Acirs \cup {None} : [f EXCEPT !["bytecode"] = c] \in FileSet
         /\ \A c \in Abis \cup {None} : [f EXCEPT !["abi"] = c] \in FileSet
         /\ \A c \in (Acirs \X (1..MaxBb)) \cup {None} :
              [f EXCEPT !["vk"] = c] \in FileSet
BY DEF FileSet

LEMMA PutTyped ==
  ASSUME DiskOK, NEW d \in Modules \X Versions, NEW file, NEW content,
         [Files(d) EXCEPT ![file] = content] \in FileSet,
         Put(d, file, content)
  PROVE  DiskOK'
BY DEF DiskOK, Put

LEMMA OneActiveStatus ==
  ASSUME NEW es \in Entries, OneActive(es), NEW fs \in Entries,
         Len(fs) = Len(es),
         \A j \in 1..Len(es) :
            /\ fs[j].module = es[j].module
            /\ fs[j].status = "active" => es[j].status = "active"
  PROVE  OneActive(fs)
BY EntriesFacts DEF OneActive

LEMMA Advances ==
  ASSUME k \in 1..Len(Circuits), Advance
  PROVE  \/ pc' = "compile" /\ k' \in 1..Len(Circuits)
         \/ pc' = "reconcile" /\ k' = 1
BY CircuitsAreModules DEF Advance

LEMMA ShapeInit == Init => Shape
<1> SUFFICES ASSUME Init PROVE Shape
  OBVIOUS
<1>1. TypeOK
  BY FreezeAssumption, EntriesFacts, SMT DEF Init, TypeOK, Modules
<1>2. PcOK /\ OneActive(manifest) /\ OneActive(doc)
  BY EntriesFacts DEF Init, PcOK, Minting, OneActive
<1> QED BY <1>1, <1>2 DEF Shape

\* Every step keeps the types and the place of the freeze, action by action.
LEMMA ShapeStep == Shape /\ [Next]_vars => Shape'
<1> SUFFICES ASSUME Shape, [Next]_vars PROVE Shape'
  OBVIOUS
<1> USE DEF Shape
<1>t. TypeOK /\ PcOK /\ OneActive(manifest) /\ OneActive(doc)
  OBVIOUS
<1>d. DiskOK /\ \A d : Files(d) \in FileSet
  <2>1. DiskOK
    BY <1>t DEF TypeOK, DiskOK, FileSet
  <2> QED BY <2>1, TypedFiles
<1>e. /\ Len(doc) \in Nat /\ Len(manifest) \in Nat
      /\ DOMAIN manifest = 1..Len(manifest)
      /\ \A i \in 1..Len(doc) : doc[i] \in Entry
      /\ \A i \in 1..Len(manifest) : manifest[i] \in Entry
      /\ <<>> \in Entries /\ Len(<<>>) = 0
  BY <1>t, EntriesFacts DEF TypeOK
<1>n. Len(doc) \in Nat /\ Len(manifest) \in Nat /\ Len(Circuits) \in Nat \ {0}
  BY <1>e, CircuitsAreModules
<1>o. OneActive(<<>>)
  BY <1>e DEF OneActive
<1>c. Len(Circuits) \in Nat \ {0} /\ \A n \in 1..Len(Circuits) : Circuits[n] \in Modules
  BY CircuitsAreModules
<1>1. CASE UNCHANGED vars
  <2>1. TypeOK'
    BY <1>1, <1>t DEF TypeOK, vars, freezer, history
  <2> QED BY <1>1, <1>t, <2>1 DEF PcOK, Minting, vars, freezer, history, OneActive
<1>2. ASSUME NEW f \in Flags, Start(f) PROVE Shape'
  <2>1. TypeOK'
    BY <1>2, <1>t DEF TypeOK, Start, environment, history
  <2> QED BY <1>2, <1>t, <1>c, <2>1 DEF PcOK, Minting, Start, OneActive
<1>3. CASE SkipDropped \/ SkipUnchanged
  <2>1. /\ UNCHANGED <<environment, manifest, disk, flag, doc, version, history>>
        /\ pc = "compile" /\ Advance
    BY <1>3 DEF SkipDropped, SkipUnchanged
  <2>2. \/ pc' = "compile" /\ k' \in 1..Len(Circuits)
        \/ pc' = "reconcile" /\ k' = 1
    BY <2>1, <1>t, Advances DEF PcOK
  <2>a. k' \in Nat /\ pc' \in {"compile", "reconcile"}
    BY <2>2, <1>n
  <2>3. TypeOK'
    BY <2>1, <2>a, <1>t DEF TypeOK, environment, history
  <2>4. PcOK'
    <3>1. k' = 1 => k' \in 1..Len(doc)+1
      BY <1>n
    <3>2. doc' = doc
      BY <2>1
    <3> QED BY <2>2, <3>1, <3>2 DEF PcOK, Minting
  <2> QED BY <2>1, <1>t, <2>3, <2>4 DEF OneActive
<1>4. CASE CompileFails \/ Refuse \/ BbFails \/ Crash \/ CheckPanics \/ ReportCheck
  <2>1. /\ Exit /\ UNCHANGED <<environment, manifest, disk>>
        /\ verdict' \in {"open", "passed", verdict}
    BY <1>4 DEF CompileFails, Refuse, BbFails, Crash, CheckPanics, ReportCheck, history
  <2>2. TypeOK'
    BY <2>1, <1>t, <1>e DEF TypeOK, Exit, environment
  <2> QED BY <2>1, <1>t, <1>o, <2>2 DEF PcOK, Minting, Exit, OneActive
<1>5. CASE Supersede
  <2> DEFINE a == Active(Circuits[k], doc)
  <2>1. a \in 1..Len(doc)
    BY <1>5, <1>t, <1>e, ActiveIs DEF Supersede, TypeOK
  <2>2. doc[a].version \in Versions
    BY <2>1, <1>e, EntryFacts
  <2>3. version' \in Versions
    <3>1. PICK level \in 0..2 : version' = Bump(doc[a].version, level)
      BY <1>5 DEF Supersede
    <3> QED BY <2>2, <3>1, BumpIsNewer
  <2>4. TypeOK'
    BY <1>5, <2>3, <1>t DEF TypeOK, Supersede, environment, history
  <2>5. PcOK'
    BY <1>5, <2>3, <1>t DEF PcOK, Minting, Supersede, environment
  <2> QED BY <1>5, <1>t, <2>4, <2>5 DEF Supersede, OneActive
<1>6. CASE MintFirst
  <2>1. version' \in Versions
    BY <1>6 DEF MintFirst, Versions
  <2>2. TypeOK'
    BY <1>6, <2>1, <1>t DEF TypeOK, MintFirst, environment, history
  <2>3. PcOK'
    BY <1>6, <2>1, <1>t DEF PcOK, Minting, MintFirst, environment
  <2> QED BY <1>6, <1>t, <2>2, <2>3 DEF MintFirst, OneActive
<1>7. CASE WriteBytecode \/ WriteAbi
  <2> DEFINE m == Circuits[k]
             d == <<m, version>>
  <2>1. Minting /\ m \in Modules /\ d \in Modules \X Versions
    BY <1>7, <1>t, <1>c DEF WriteBytecode, WriteAbi, PcOK, Minting
  <2>2. source[m].acir \in Acirs /\ source[m].abi \in Abis
    BY <2>1, <1>t DEF TypeOK
  <2>3. DiskOK'
    <3>1. CASE WriteBytecode
      BY <1>d, <2>1, <2>2, <3>1, FileReplaced, PutTyped DEF WriteBytecode
    <3>2. CASE WriteAbi
      BY <1>d, <2>1, <2>2, <3>2, FileReplaced, PutTyped DEF WriteAbi
    <3> QED BY <1>7, <3>1, <3>2
  <2>4. /\ UNCHANGED <<environment, manifest, flag, doc, k, version, history>>
        /\ pc' \in {"abi", "vk"}
    BY <1>7 DEF WriteBytecode, WriteAbi
  <2>5. TypeOK'
    BY <2>3, <2>4, <1>t DEF TypeOK, DiskOK, FileSet, environment, history
  <2>6. PcOK'
    BY <2>1, <2>4, <1>t DEF PcOK, Minting, environment
  <2> QED BY <2>4, <2>5, <2>6, <1>t DEF OneActive
<1>8. CASE InstallVk
  <2> DEFINE m == Circuits[k]
             d == <<m, version>>
  <2>1. /\ m \in Modules /\ d \in Modules \X Versions /\ version \in Versions
        /\ k \in 1..Len(Circuits)
    BY <1>8, <1>t, <1>c DEF InstallVk, PcOK, Minting
  <2>2. VkOf(source[m].acir) \in Acirs \X (1..MaxBb)
    BY <2>1, <1>t DEF TypeOK, VkOf
  <2>3. DiskOK'
    BY <1>8, <1>d, <2>1, <2>2, FileReplaced, PutTyped DEF InstallVk
  <2>4. doc' = Minted(doc, m, version)
    BY <1>8 DEF InstallVk, Minted, NewEntry
  <2>5. doc' \in Entries /\ OneActive(doc') /\ Len(doc') = Len(doc) + 1
    BY <1>d, <1>t, <2>1, <2>4, MintedIs DEF TypeOK
  <2>a. \/ pc' = "compile" /\ k' \in 1..Len(Circuits)
        \/ pc' = "reconcile" /\ k' = 1
    BY <1>8, <2>1, Advances DEF InstallVk
  <2>b. UNCHANGED <<environment, manifest, flag, history>> /\ version' = None
    BY <1>8 DEF InstallVk
  <2>c. k' \in Nat /\ pc' \in {"compile", "reconcile"}
    BY <2>a, <1>n
  <2>6. TypeOK'
    BY <2>c, <2>b, <2>3, <2>5, <1>t DEF TypeOK, DiskOK, FileSet,
       environment, history
  <2>7. PcOK'
    <3>1. k' = 1 => k' \in 1..Len(doc')+1
      BY <2>5, <1>n
    <3> QED BY <2>a, <3>1 DEF PcOK, Minting
  <2> QED BY <1>8, <2>5, <2>6, <2>7, <1>t DEF InstallVk, OneActive
<1>9. CASE KeepArtifacts
  <2>1. TypeOK'
    BY <1>9, <1>t DEF TypeOK, KeepArtifacts, environment, history
  <2>2. PcOK'
    BY <1>9, <1>t, <1>e DEF PcOK, Minting, KeepArtifacts
  <2> QED BY <1>9, <1>t, <2>1, <2>2 DEF KeepArtifacts, OneActive
<1>10. CASE DropBytecode
  <2>a. /\ Retired /\ pc' = "drop abi" /\ doc' = [doc EXCEPT ![k].hash = RecordedHash(doc[k])]
        /\ Put(Dir(doc[k]), "bytecode", None)
        /\ UNCHANGED <<environment, manifest, flag, k, version, history>>
    BY <1>10 DEF DropBytecode
  <2>b. k \in 1..Len(doc) /\ doc[k].status # "active"
    <3>1. k \in 1..Len(doc)+1 /\ k <= Len(doc) /\ doc[k].status # "active"
      BY <2>a, <1>t DEF Retired, PcOK
    <3> QED BY <3>1, <1>n
  <2>1. k \in 1..Len(doc) /\ doc[k] \in Entry /\ doc[k].status # "active"
    BY <2>b, <1>e
  <2>2. Dir(doc[k]) \in Modules \X Versions /\ RecordedHash(doc[k]) \in Acirs \cup {None}
    BY <2>1, <1>d, EntryFacts DEF RecordedHash, FileSet
  <2>3. DiskOK'
    BY <2>a, <1>d, <2>2, FileReplaced, PutTyped
  <2>4. /\ doc' \in Entries /\ Len(doc') = Len(doc)
        /\ \A j \in 1..Len(doc) :
             doc'[j] = IF j = k THEN WithHash(doc[k], RecordedHash(doc[k])) ELSE doc[j]
    <3>1. doc \in Entries
      BY <1>t DEF TypeOK
    <3> DEFINE h == RecordedHash(doc[k])
    <3>2. h \in Acirs \cup {None} /\ doc' = [doc EXCEPT ![k].hash = h]
      BY <2>2, <2>a
    <3> HIDE DEF h
    <3>3. /\ [doc EXCEPT ![k].hash = h] \in Entries
          /\ Len([doc EXCEPT ![k].hash = h]) = Len(doc)
          /\ \A j \in 1..Len(doc) :
               [doc EXCEPT ![k].hash = h][j] =
                 IF j = k THEN WithHash(doc[k], h) ELSE doc[j]
      BY <2>1, <3>1, <3>2, HashReplaced
    <3> QED BY <3>2, <3>3 DEF h
  <2>5. \A j \in 1..Len(doc) :
           doc'[j].module = doc[j].module /\ doc'[j].status = doc[j].status
    BY <2>4 DEF WithHash
  <2>6. TypeOK'
    BY <2>a, <2>3, <2>4, <1>t DEF TypeOK, DiskOK, FileSet, environment, history
  <2>7. PcOK'
    BY <2>a, <1>t, <2>1, <2>4, <2>5 DEF PcOK, Minting
  <2>8. OneActive(doc')
    BY <1>t, <2>4, <2>5, OneActiveStatus DEF TypeOK
  <2> QED BY <2>a, <1>t, <2>6, <2>7, <2>8 DEF OneActive
<1>11. CASE DropAbi \/ DropVk
  <2>1. k \in 1..Len(doc) /\ doc[k] \in Entry /\ doc[k].status # "active"
    BY <1>11, <1>t, <1>e DEF DropAbi, DropVk, PcOK
  <2>2. Dir(doc[k]) \in Modules \X Versions
    BY <2>1, EntryFacts
  <2>3. DiskOK'
    <3>1. CASE DropAbi
      BY <1>d, <2>2, <3>1, FileReplaced, PutTyped DEF DropAbi
    <3>2. CASE DropVk
      BY <1>d, <2>2, <3>2, FileReplaced, PutTyped DEF DropVk
    <3> QED BY <1>11, <3>1, <3>2
  <2>4. /\ UNCHANGED <<environment, manifest, flag, doc, version, history>>
        /\ \/ pc' = "drop vk" /\ k' = k /\ doc[k].status = "revoked"
           \/ pc' = "reconcile" /\ k' = k + 1
    BY <1>11 DEF DropAbi, DropVk
  <2>c. k' \in 1..Len(doc)+1 /\ k' \in Nat
    <3>1. k' = k \/ k' = k + 1
      BY <2>4
    <3>2. k \in 1..Len(doc)
      BY <2>1
    <3> QED BY <3>1, <3>2, <1>n
  <2>5. TypeOK'
    BY <2>c, <2>3, <2>4, <1>t DEF TypeOK, DiskOK, FileSet, environment, history
  <2>6. PcOK'
    BY <2>1, <2>4, <2>c, <1>t DEF PcOK, Minting
  <2> QED BY <2>4, <2>5, <2>6, <1>t DEF OneActive
<1>12. CASE WriteManifest
  <2>1. TypeOK'
    BY <1>12, <1>t, <1>e DEF TypeOK, WriteManifest, Exit, environment
  <2> QED BY <1>12, <1>t, <1>o, <2>1 DEF PcOK, Minting, WriteManifest, Exit, OneActive
<1>13. CASE StartCheck
  <2>1. TypeOK'
    BY <1>13, <1>t DEF TypeOK, StartCheck, environment
  <2> QED BY <1>13, <1>t, <1>c, <2>1 DEF PcOK, Minting, StartCheck, OneActive
<1>14. CASE CheckCircuit
  <2>1. /\ UNCHANGED <<environment, manifest, disk, pc, flag, doc, version>>
        /\ k' = k + 1 /\ pc = "check" /\ k <= Len(Circuits)
        /\ verdict' \in {verdict, "failing"}
    BY <1>14 DEF CheckCircuit
  <2>2. TypeOK'
    BY <2>1, <1>t DEF TypeOK, environment
  <2>3. PcOK'
    BY <2>1, <1>t, <1>c DEF PcOK, Minting
  <2> QED BY <2>1, <1>t, <2>2, <2>3 DEF OneActive
<1>15. ASSUME NEW m \in Modules, NEW acir \in Acirs, NEW abi \in Abis, Edit(m, acir, abi)
       PROVE  Shape'
  <2>1. source' \in [Modules -> [acir : Acirs, abi : Abis]]
    BY <1>15, <1>t DEF Edit, TypeOK
  <2>2. TypeOK'
    BY <1>15, <2>1, <1>t DEF TypeOK, Edit, freezer
  <2> QED BY <1>15, <1>t, <2>2 DEF PcOK, Minting, Edit, freezer, OneActive
<1>16. ASSUME NEW m \in Modules, Drop(m) PROVE Shape'
  <2>1. TypeOK'
    BY <1>16, <1>t DEF TypeOK, Drop, freezer, history
  <2> QED BY <1>16, <1>t, <2>1 DEF PcOK, Minting, Drop, freezer, OneActive
<1>17. CASE UpgradeBb
  <2>1. bb' \in 1..MaxBb
    BY <1>17, <1>t, FreezeAssumption DEF UpgradeBb, TypeOK
  <2>2. TypeOK'
    BY <1>17, <2>1, <1>t DEF TypeOK, UpgradeBb, freezer
  <2> QED BY <1>17, <1>t, <2>2 DEF PcOK, Minting, UpgradeBb, freezer, OneActive
<1>18. ASSUME NEW i \in DOMAIN manifest, NEW status \in Statuses, SetStatus(i, status)
       PROVE  Shape'
  <2>1. /\ manifest' \in Entries /\ Len(manifest') = Len(manifest)
        /\ \A j \in 1..Len(manifest) :
             manifest'[j] = IF j = i THEN WithStatus(manifest[i], status) ELSE manifest[j]
    BY <1>18, <1>t, <1>e, StatusReplaced DEF SetStatus, TypeOK
  <2>2. status # "active"
    BY <1>18 DEF SetStatus
  <2>3. OneActive(manifest')
    <3>1. \A j \in 1..Len(manifest) :
            /\ manifest'[j].module = manifest[j].module
            /\ manifest'[j].status = "active" => manifest[j].status = "active"
      BY <2>1, <2>2 DEF WithStatus
    <3> QED BY <1>t, <2>1, <3>1, OneActiveStatus DEF TypeOK
  <2>4. TypeOK'
    BY <1>18, <2>1, <1>t DEF TypeOK, SetStatus, freezer
  <2> QED BY <1>18, <1>t, <2>3, <2>4 DEF PcOK, Minting, SetStatus, freezer, OneActive
<1>19. ASSUME NEW c \in Chains, NEW i \in DOMAIN manifest, Bind(c, i) PROVE Shape'
  <2>1. Dir(manifest[i]) \in Modules \X Versions
    BY <1>19, <1>e, EntryFacts
  <2>2. TypeOK'
    BY <1>19, <2>1, <1>t DEF TypeOK, Bind, freezer, history
  <2> QED BY <1>19, <1>t, <2>2 DEF PcOK, Minting, Bind, freezer, OneActive
<1>20. ASSUME NEW c \in Chains, NEW b \in bindings[c], Unbind(c, b) PROVE Shape'
  <2>1. TypeOK'
    BY <1>20, <1>t DEF TypeOK, Unbind, freezer, history
  <2> QED BY <1>20, <1>t, <2>1 DEF PcOK, Minting, Unbind, freezer, OneActive
<1> HIDE DEF Shape
<1> QED BY <1>1, <1>2, <1>3, <1>4, <1>5, <1>6, <1>7, <1>8, <1>9, <1>10, <1>11, <1>12,
           <1>13, <1>14, <1>15, <1>16, <1>17, <1>18, <1>19, <1>20 DEF Next

\* The entries, the directories and what a freeze has in hand are of their types at
\* every step of every freeze, also a killed one (freeze, reconcile_artifacts).
THEOREM TypeCorrect == Spec => []TypeOK
<1>1. Shape => TypeOK
  BY DEF Shape
<1> QED BY <1>1, ShapeInit, ShapeStep, PTL DEF Spec

-----------------------------------------------------------------------------
\* The lineage of the entries.

\* A directory belongs to one entry.
UniqueDirs(es) ==
  \A i, j \in 1..Len(es) : Dir(es[i]) = Dir(es[j]) => i = j

\* Entry h is the active one of its module, and i is not newer than h.
IsHeadOf(es, h, i) ==
  /\ es[h].module = es[i].module /\ es[h].status = "active"
  /\ i = h \/ Newer(es[h].version, es[i].version)

\* The newest entry of a module of the tree is active.
Headed(es) ==
  \A i \in 1..Len(es) : es[i].module \in vendored =>
    \E h \in 1..Len(es) : IsHeadOf(es, h, i)

\* The version a freeze mints is newer than every one of the module.
Fresh ==
  Minting => \A i \in 1..Len(doc) :
    doc[i].module = Circuits[k] => Newer(version, doc[i].version)

\* The entries of the freeze are those of the file, and what it minted.
DocExtends ==
  pc # "idle" =>
    /\ Len(manifest) <= Len(doc)
    /\ \A i \in 1..Len(manifest) :
         /\ doc[i].module = manifest[i].module /\ doc[i].version = manifest[i].version
         /\ doc[i].status = "revoked" <=> manifest[i].status = "revoked"
    /\ \A i \in Len(manifest)+1..Len(doc) : doc[i].status # "revoked"

Lineage ==
  /\ UniqueDirs(manifest) /\ UniqueDirs(doc)
  /\ Headed(manifest) /\ Headed(doc)
  /\ Fresh /\ DocExtends

\* Statuses and hashes change, the active entries of the tree stay.
Kept(es, fs) ==
  /\ Len(fs) = Len(es)
  /\ \A j \in 1..Len(es) :
       /\ fs[j].module = es[j].module /\ fs[j].version = es[j].version
       /\ es[j].module \in vendored /\ es[j].status = "active"
            => fs[j].status = "active"

LEMMA KeptDirs ==
  ASSUME NEW es \in Entries, NEW fs \in Entries, Kept(es, fs), UniqueDirs(es)
  PROVE  UniqueDirs(fs)
<1>1. \A j \in 1..Len(es) : Dir(fs[j]) = Dir(es[j])
  BY DEF Dir, Kept
<1> QED BY <1>1 DEF UniqueDirs, Kept

LEMMA KeptHeads ==
  ASSUME NEW es \in Entries, NEW fs \in Entries, Kept(es, fs), Headed(es)
  PROVE  Headed(fs)
<1> SUFFICES ASSUME NEW i \in 1..Len(es), fs[i].module \in vendored
             PROVE  \E h \in 1..Len(es) : IsHeadOf(fs, h, i)
  BY DEF Headed, Kept
<1>1. PICK h \in 1..Len(es) : IsHeadOf(es, h, i)
  BY DEF Headed, Kept
<1>2. IsHeadOf(fs, h, i)
  BY <1>1 DEF IsHeadOf, Kept
<1> QED BY <1>2

\* A new entry that is newer than those of its module joins them.
LEMMA MintedLineage ==
  ASSUME NEW es \in Entries, OneActive(es), NEW m \in Modules, NEW v \in Versions,
         \A d : Files(d) \in FileSet, UniqueDirs(es), Headed(es),
         \A i \in 1..Len(es) : es[i].module = m => Newer(v, es[i].version)
  PROVE  UniqueDirs(Minted(es, m, v)) /\ Headed(Minted(es, m, v))
<1> DEFINE fs == Minted(es, m, v)
           n == Len(es) + 1
<1>1. /\ Len(fs) = n /\ fs[n] = NewEntry(m, v) /\ Len(es) \in Nat
      /\ \A j \in 1..Len(es) :
           fs[j] = IF j = Active(m, es)
             THEN [module |-> es[j].module, version |-> es[j].version,
                   status |-> "deprecated", hash |-> Files(Dir(es[j])).bytecode]
             ELSE es[j]
  BY MintedIs, EntriesFacts
<1>2. /\ fs[n].module = m /\ fs[n].version = v /\ fs[n].status = "active"
      /\ \A j \in 1..Len(es) :
           /\ fs[j].module = es[j].module /\ fs[j].version = es[j].version
           /\ es[j].module # m => fs[j] = es[j]
  <2>1. Active(m, es) # 0 => es[Active(m, es)].module = m
    BY ActiveIs
  <2> HIDE DEF fs
  <2>2. fs[n].module = m /\ fs[n].version = v /\ fs[n].status = "active"
    BY <1>1 DEF NewEntry
  <2>3. ASSUME NEW j \in 1..Len(es)
        PROVE  /\ fs[j].module = es[j].module /\ fs[j].version = es[j].version
               /\ es[j].module # m => fs[j] = es[j]
    <3>1. CASE j = Active(m, es)
      <4>1. Active(m, es) # 0
        BY <3>1, EntriesFacts
      <4>2. fs[j] = [module |-> es[j].module, version |-> es[j].version,
                     status |-> "deprecated", hash |-> Files(Dir(es[j])).bytecode]
        BY <1>1, <3>1
      <4> QED BY <2>1, <3>1, <4>1, <4>2
    <3>2. CASE j # Active(m, es)
      BY <1>1, <3>2
    <3> QED BY <3>1, <3>2
  <2> QED BY <2>2, <2>3
<1>3. \A j \in 1..Len(es) : es[j].module = m => es[j].version # v
  <2> SUFFICES ASSUME NEW j \in 1..Len(es), es[j].module = m, es[j].version = v PROVE FALSE
    OBVIOUS
  <2> QED BY NotNewerThanSelf
<1> HIDE DEF fs
<1>4. UniqueDirs(fs)
  <2> SUFFICES ASSUME NEW i \in 1..n, NEW j \in 1..n,
                      fs[i].module = fs[j].module, fs[i].version = fs[j].version
               PROVE  i = j
    BY <1>1 DEF UniqueDirs, Dir
  <2>1. CASE i \in 1..Len(es) /\ j \in 1..Len(es)
    BY <1>2, <2>1 DEF UniqueDirs, Dir
  <2>2. CASE i = n \/ j = n
    <3>1. \A x \in 1..n : fs[x].module = m /\ fs[x].version = v => x = n
      BY <1>1, <1>2, <1>3
    <3>2. fs[i].module = m /\ fs[i].version = v
      BY <1>2, <2>2
    <3> QED BY <3>1, <3>2
  <2> QED BY <1>1, <2>1, <2>2
<1>5. Headed(fs)
  <2> SUFFICES ASSUME NEW i \in 1..n, fs[i].module \in vendored
               PROVE  \E h \in 1..n : IsHeadOf(fs, h, i)
    BY <1>1 DEF Headed
  <2>1. CASE fs[i].module = m
    <3>1. i = n \/ Newer(v, fs[i].version)
      BY <1>1, <1>2, <2>1
    <3>2. IsHeadOf(fs, n, i)
      BY <1>2, <2>1, <3>1 DEF IsHeadOf
    <3>3. n \in 1..n
      BY <1>1
    <3> QED BY <3>2, <3>3
  <2>2. CASE fs[i].module # m
    <3>1. i \in 1..Len(es) /\ fs[i] = es[i] /\ es[i].module # m
      BY <1>1, <1>2, <2>2
    <3>2. PICK h \in 1..Len(es) : IsHeadOf(es, h, i)
      BY <3>1 DEF Headed
    <3>3. fs[h] = es[h]
      BY <1>2, <3>1, <3>2 DEF IsHeadOf
    <3>4. IsHeadOf(fs, h, i)
      BY <3>1, <3>2, <3>3 DEF IsHeadOf
    <3>5. h \in 1..n
      BY <1>1
    <3> QED BY <3>4, <3>5
  <2> QED BY <2>1, <2>2
<1> QED BY <1>4, <1>5 DEF fs

\* What a freeze mints is fresh.
LEMMA SupersedeFresh ==
  ASSUME NEW es \in Entries, OneActive(es), Headed(es), NEW m \in vendored,
         Active(m, es) # 0, NEW level \in 0..2
  PROVE  \A i \in 1..Len(es) : es[i].module = m =>
           Newer(Bump(es[Active(m, es)].version, level), es[i].version)
<1> DEFINE a == Active(m, es)
<1>1. a \in 1..Len(es)
  BY ActiveIs, EntriesFacts
<1>2. \A i \in 1..Len(es) : es[i].version \in Versions
  BY EntriesFacts, EntryFacts
<1>3. /\ Bump(es[a].version, level) \in Versions
      /\ Newer(Bump(es[a].version, level), es[a].version)
  BY <1>1, <1>2, BumpIsNewer
<1> SUFFICES ASSUME NEW i \in 1..Len(es), es[i].module = m
             PROVE  Newer(Bump(es[a].version, level), es[i].version)
  OBVIOUS
<1>4. PICK h \in 1..Len(es) : IsHeadOf(es, h, i)
  BY DEF Headed
<1>5. h = a
  BY <1>4, ActiveIs DEF IsHeadOf
<1>6. i = a \/ Newer(es[a].version, es[i].version)
  BY <1>4, <1>5 DEF IsHeadOf
<1> HIDE DEF a
<1> QED BY <1>1, <1>2, <1>3, <1>6, NewerTransitive

\* What InstallVk does to the entries.
LEMMA InstallVkIs ==
  ASSUME Shape, InstallVk
  PROVE  /\ pc = "vk" /\ pc' \in {"compile", "reconcile"} /\ k \in 1..Len(Circuits)
         /\ Circuits[k] \in Modules /\ version \in Versions
         /\ doc' = Minted(doc, Circuits[k], version) /\ UNCHANGED <<vendored, manifest>>
         /\ doc' \in Entries /\ Len(doc') = Len(doc) + 1
         /\ doc'[Len(doc) + 1] = NewEntry(Circuits[k], version)
         /\ doc'[Len(doc) + 1].status = "active"
         /\ \A i \in 1..Len(doc) :
              /\ doc'[i].module = doc[i].module /\ doc'[i].version = doc[i].version
              /\ doc'[i].status = "revoked" <=> doc[i].status = "revoked"
              /\ Dir(doc'[i]) = Dir(doc[i])
              /\ i # Active(Circuits[k], doc) => doc'[i] = doc[i]
              /\ i = Active(Circuits[k], doc) =>
                   /\ doc[i].status = "active" /\ doc'[i].status = "deprecated"
                   /\ doc'[i].hash = Files(Dir(doc[i])).bytecode
<1> DEFINE m == Circuits[k]
<1>t. /\ doc \in Entries /\ OneActive(doc) /\ \A d : Files(d) \in FileSet
  <2>1. DiskOK
    BY DEF Shape, TypeOK, DiskOK, FileSet
  <2> QED BY <2>1, TypedFiles DEF Shape, TypeOK
<1>1. /\ pc = "vk" /\ k \in 1..Len(Circuits) /\ version \in Versions
      /\ pc' \in {"compile", "reconcile"} /\ UNCHANGED <<vendored, manifest>>
  BY DEF InstallVk, Shape, PcOK, Minting, Advance, environment
<1>2. m \in Modules
  BY <1>1, CircuitsAreModules
<1>3. doc' = Minted(doc, m, version)
  BY DEF InstallVk, Minted, NewEntry
<1> HIDE DEF m
<1>4. /\ doc' \in Entries
      /\ Len(doc') = Len(doc) + 1 /\ doc'[Len(doc) + 1] = NewEntry(m, version)
      /\ \A j \in 1..Len(doc) :
           doc'[j] = IF j = Active(m, doc)
             THEN [module |-> doc[j].module, version |-> doc[j].version,
                   status |-> "deprecated", hash |-> Files(Dir(doc[j])).bytecode]
             ELSE doc[j]
  BY <1>t, <1>1, <1>2, <1>3, MintedIs
<1>5. \A j \in 1..Len(doc) : j = Active(m, doc) => doc[j].status = "active"
  BY <1>t, ActiveIs, EntriesFacts
<1>6. doc'[Len(doc) + 1].status = "active"
  BY <1>4 DEF NewEntry
<1>7. ASSUME NEW i \in 1..Len(doc)
      PROVE  /\ doc'[i].module = doc[i].module /\ doc'[i].version = doc[i].version
             /\ doc'[i].status = "revoked" <=> doc[i].status = "revoked"
             /\ Dir(doc'[i]) = Dir(doc[i])
             /\ i # Active(m, doc) => doc'[i] = doc[i]
             /\ i = Active(m, doc) =>
                   /\ doc[i].status = "active" /\ doc'[i].status = "deprecated"
                   /\ doc'[i].hash = Files(Dir(doc[i])).bytecode
  <2>1. CASE i = Active(m, doc)
    <3>1. doc'[i] = [module |-> doc[i].module, version |-> doc[i].version,
                     status |-> "deprecated", hash |-> Files(Dir(doc[i])).bytecode]
      BY <1>4, <2>1
    <3>2. /\ doc'[i].module = doc[i].module /\ doc'[i].version = doc[i].version
          /\ doc'[i].status = "deprecated"
          /\ doc'[i].hash = Files(Dir(doc[i])).bytecode
      BY <3>1
    <3> QED BY <1>5, <2>1, <3>2 DEF Dir
  <2>2. CASE i # Active(m, doc)
    BY <1>4, <2>2
  <2> QED BY <2>1, <2>2
<1> QED BY <1>1, <1>2, <1>3, <1>4, <1>6, <1>7 DEF m

\* What DropBytecode does to the entries.
LEMMA DropBytecodeIs ==
  ASSUME Shape, DropBytecode
  PROVE  /\ pc = "reconcile" /\ pc' = "drop abi"
         /\ UNCHANGED <<environment, manifest, k, history>>
         /\ k \in 1..Len(doc) /\ doc[k].status # "active"
         /\ Put(Dir(doc[k]), "bytecode", None)
         /\ doc' \in Entries /\ Len(doc') = Len(doc)
         /\ \A j \in 1..Len(doc) :
              /\ doc'[j].module = doc[j].module /\ doc'[j].version = doc[j].version
              /\ doc'[j].status = doc[j].status
              /\ Dir(doc'[j]) = Dir(doc[j])
              /\ j # k => doc'[j] = doc[j]
              /\ j = k => doc'[j].hash = RecordedHash(doc[k])
<1>t. /\ doc \in Entries /\ \A d : Files(d) \in FileSet
  <2>1. DiskOK
    BY DEF Shape, TypeOK, DiskOK, FileSet
  <2> QED BY <2>1, TypedFiles DEF Shape, TypeOK
<1>n. Len(doc) \in Nat
  BY <1>t, EntriesFacts
<1>1. /\ k \in 1..Len(doc) /\ doc' = [doc EXCEPT ![k].hash = RecordedHash(doc[k])]
      /\ pc = "reconcile" /\ pc' = "drop abi" /\ doc[k].status # "active"
      /\ UNCHANGED <<environment, manifest, k, history>>
      /\ Put(Dir(doc[k]), "bytecode", None)
  <2>1. pc = "reconcile" /\ k <= Len(doc) /\ doc[k].status # "active"
    BY DEF DropBytecode, Retired
  <2>2. k \in 1..Len(doc)
    BY <2>1, <1>n DEF Shape, PcOK
  <2> QED BY <2>1, <2>2 DEF DropBytecode
<1> DEFINE h == RecordedHash(doc[k])
<1>2. h \in Acirs \cup {None}
  BY <1>1, <1>t, EntriesFacts, EntryFacts DEF RecordedHash, FileSet
<1>3. doc' = [doc EXCEPT ![k].hash = h]
  BY <1>1
<1>4. k \in 1..Len(doc)
  BY <1>1
<1> HIDE DEF h
<1>5. /\ [doc EXCEPT ![k].hash = h] \in Entries
      /\ Len([doc EXCEPT ![k].hash = h]) = Len(doc)
      /\ \A j \in 1..Len(doc) :
           [doc EXCEPT ![k].hash = h][j] = IF j = k THEN WithHash(doc[k], h) ELSE doc[j]
  BY <1>t, <1>2, <1>4, HashReplaced
<1>6. \A j \in 1..Len(doc) :
         /\ doc'[j].module = doc[j].module /\ doc'[j].version = doc[j].version
         /\ doc'[j].status = doc[j].status
         /\ j # k => doc'[j] = doc[j]
         /\ j = k => doc'[j].hash = h
  BY <1>3, <1>5 DEF WithHash
<1>7. \A j \in 1..Len(doc) : Dir(doc'[j]) = Dir(doc[j])
  BY <1>6 DEF Dir
<1>8. doc' \in Entries /\ Len(doc') = Len(doc)
  BY <1>3, <1>5
<1> QED BY <1>1, <1>6, <1>7, <1>8 DEF h

LEMMA LineageInit == Init => Lineage
BY EntriesFacts DEF Init, Lineage, UniqueDirs, Headed, Fresh, Minting, DocExtends

\* A step that leaves the entries alone.
LEMMA LineageQuiet ==
  ASSUME Lineage, UNCHANGED <<manifest, doc>>, vendored' \subseteq vendored,
         pc = "idle" <=> pc' = "idle",
         Minting' => Minting /\ UNCHANGED <<k, version>>
  PROVE  Lineage'
<1>1. UniqueDirs(manifest)' /\ UniqueDirs(doc)' /\ DocExtends'
  BY DEF Lineage, UniqueDirs, DocExtends
<1>2. Headed(manifest)' /\ Headed(doc)'
  BY DEF Lineage, Headed
<1>3. Fresh'
  BY DEF Lineage, Fresh
<1> QED BY <1>1, <1>2, <1>3 DEF Lineage

\* The freeze ends.
LEMMA LineageExit ==
  ASSUME Lineage, Exit, manifest' \in {manifest, doc}, vendored' = vendored
  PROVE  Lineage'
<1>1. UniqueDirs(manifest)' /\ UniqueDirs(doc)'
  BY EntriesFacts DEF Lineage, UniqueDirs, Exit
<1>2. Headed(manifest)' /\ Headed(doc)'
  BY EntriesFacts DEF Lineage, Headed, Exit
<1> QED BY <1>1, <1>2 DEF Lineage, Fresh, Minting, DocExtends, Exit

\* Every step keeps the lineage; the interesting ones mint, edit and write the file.
LEMMA LineageStep ==
  MayRetire = FALSE /\ Shape /\ Lineage /\ [Next]_vars => Lineage'
<1> SUFFICES ASSUME MayRetire = FALSE, Shape, Lineage, [Next]_vars PROVE Lineage'
  OBVIOUS
<1>t. /\ manifest \in Entries /\ doc \in Entries /\ OneActive(manifest) /\ OneActive(doc)
      /\ \A d : Files(d) \in FileSet
  <2>1. DiskOK
    BY DEF Shape, TypeOK, DiskOK, FileSet
  <2> QED BY <2>1, TypedFiles DEF Shape, TypeOK
<1>n. Len(doc) \in Nat /\ Len(manifest) \in Nat /\ DOMAIN manifest = 1..Len(manifest)
  BY <1>t, EntriesFacts
<1>l. /\ UniqueDirs(manifest) /\ UniqueDirs(doc) /\ Headed(manifest) /\ Headed(doc)
      /\ Fresh /\ DocExtends
  BY DEF Lineage
<1>1. CASE UNCHANGED vars
  BY <1>1, LineageQuiet DEF vars, freezer, Minting
<1>2. CASE SkipDropped \/ SkipUnchanged
  BY <1>2, LineageQuiet DEF SkipDropped, SkipUnchanged, Advance, Minting, environment
<1>3. CASE KeepArtifacts \/ WriteBytecode \/ WriteAbi \/ DropAbi \/ DropVk \/ CheckCircuit
  BY <1>3, LineageQuiet DEF KeepArtifacts, WriteBytecode, WriteAbi, DropAbi, DropVk,
     CheckCircuit, Minting, environment
<1>4. ASSUME \/ \E m \in Modules, acir \in Acirs, abi \in Abis : Edit(m, acir, abi)
             \/ \E m \in Modules : Drop(m)
             \/ UpgradeBb
             \/ \E c \in Chains, i \in DOMAIN manifest : Bind(c, i)
             \/ \E c \in Chains : \E b \in bindings[c] : Unbind(c, b)
      PROVE  Lineage'
  <2>1. UNCHANGED <<manifest, freezer>> /\ vendored' \subseteq vendored
    BY <1>4 DEF Edit, Drop, UpgradeBb, Bind, Unbind
  <2> QED BY <2>1, LineageQuiet DEF freezer, Minting
<1>5. CASE CompileFails \/ Refuse \/ BbFails \/ Crash \/ CheckPanics \/ ReportCheck
           \/ WriteManifest
  <2>1. Exit /\ manifest' \in {manifest, doc} /\ vendored' = vendored
    BY <1>5 DEF CompileFails, Refuse, BbFails, Crash, CheckPanics, ReportCheck,
       WriteManifest, environment
  <2> QED BY <2>1, LineageExit
<1>6. ASSUME StartCheck \/ \E f \in Flags : Start(f) PROVE Lineage'
  <2>1. /\ pc' \in {"check", "compile"} /\ doc' = manifest /\ UNCHANGED <<vendored, manifest>>
    BY <1>6 DEF Start, StartCheck, environment
  <2>2. UniqueDirs(manifest)' /\ UniqueDirs(doc)'
    BY <2>1, <1>l DEF UniqueDirs
  <2>3. Headed(manifest)' /\ Headed(doc)'
    BY <2>1, <1>l DEF Headed
  <2>4. DocExtends'
    BY <2>1, <1>n DEF DocExtends
  <2> QED BY <2>1, <2>2, <2>3, <2>4 DEF Lineage, Fresh, Minting
<1>7. CASE Supersede \/ MintFirst
  <2>1. /\ pc = "compile" /\ pc' = "bytecode" /\ Circuits[k] \in vendored
        /\ UNCHANGED <<vendored, manifest, doc, k>>
    BY <1>7 DEF Supersede, MintFirst, environment
  <2>2. \A i \in 1..Len(doc) : doc[i].module = Circuits[k] => Newer(version', doc[i].version)
    <3>1. CASE Supersede
      <4>1. PICK level \in 0..2 :
              version' = Bump(doc[Active(Circuits[k], doc)].version, level)
        BY <3>1 DEF Supersede
      <4>2. Active(Circuits[k], doc) # 0
        BY <3>1 DEF Supersede
      <4> QED BY <1>t, <1>l, <2>1, <4>1, <4>2, SupersedeFresh
    <3>2. CASE MintFirst
      <4>1. Active(Circuits[k], doc) = 0
        BY <3>2 DEF MintFirst
      <4>2. ASSUME NEW i \in 1..Len(doc), doc[i].module = Circuits[k] PROVE FALSE
        <5>1. PICK h \in 1..Len(doc) : IsHeadOf(doc, h, i)
          BY <1>l, <2>1, <4>2 DEF Headed
        <5>2. h = Active(Circuits[k], doc)
          BY <1>t, <4>2, <5>1, ActiveIs DEF IsHeadOf
        <5> QED BY <4>1, <5>2, <1>n
      <4> QED BY <4>2
    <3> QED BY <1>7, <3>1, <3>2
  <2>3. UniqueDirs(manifest)' /\ UniqueDirs(doc)'
    BY <2>1, <1>l DEF UniqueDirs
  <2>4. Headed(manifest)' /\ Headed(doc)'
    BY <2>1, <1>l DEF Headed
  <2>5. DocExtends'
    BY <2>1, <1>l DEF DocExtends
  <2>6. Fresh'
    BY <2>1, <2>2 DEF Fresh
  <2> QED BY <2>3, <2>4, <2>5, <2>6 DEF Lineage
<1>8. CASE InstallVk
  <2> DEFINE m == Circuits[k]
  <2>1. /\ m \in Modules /\ version \in Versions
        /\ doc' = Minted(doc, m, version) /\ UNCHANGED <<vendored, manifest>>
        /\ pc = "vk" /\ pc' \in {"compile", "reconcile"}
    BY <1>8, InstallVkIs
  <2>2. \A i \in 1..Len(doc) : doc[i].module = m => Newer(version, doc[i].version)
    BY <2>1, <1>l DEF Fresh, Minting
  <2> HIDE DEF m
  <2>3. UniqueDirs(doc') /\ Headed(doc')
    BY <1>t, <1>l, <2>1, <2>2, MintedLineage
  <2>4. /\ Len(doc') = Len(doc) + 1 /\ doc'[Len(doc) + 1].status = "active"
        /\ \A i \in 1..Len(doc) :
             /\ doc'[i].module = doc[i].module /\ doc'[i].version = doc[i].version
             /\ doc'[i].status = "revoked" <=> doc[i].status = "revoked"
    BY <1>8, InstallVkIs
  <2>5. DocExtends'
    <3>1. /\ Len(manifest) <= Len(doc)
          /\ \A i \in 1..Len(manifest) :
               /\ doc[i].module = manifest[i].module /\ doc[i].version = manifest[i].version
               /\ doc[i].status = "revoked" <=> manifest[i].status = "revoked"
          /\ \A i \in Len(manifest)+1..Len(doc) : doc[i].status # "revoked"
      BY <2>1, <1>l DEF DocExtends
    <3>2. \A i \in 1..Len(manifest) : i \in 1..Len(doc)
      BY <3>1, <1>n
    <3>3. \A i \in Len(manifest)+1..Len(doc)+1 :
             i = Len(doc)+1 \/ (i \in Len(manifest)+1..Len(doc) /\ i \in 1..Len(doc))
      BY <3>1, <1>n
    <3>4. Len(manifest) <= Len(doc')
      BY <3>1, <2>4, <1>n
    <3> QED BY <2>1, <2>4, <3>1, <3>2, <3>3, <3>4 DEF DocExtends
  <2>6. UniqueDirs(manifest)' /\ Headed(manifest)' /\ Headed(doc)'
    BY <2>1, <2>3, <1>l DEF UniqueDirs, Headed
  <2> QED BY <2>1, <2>3, <2>5, <2>6 DEF Lineage, Fresh, Minting
<1>9. CASE DropBytecode
  <2>1. pc = "reconcile" /\ pc' = "drop abi" /\ UNCHANGED <<vendored, manifest>>
    BY <1>9, DropBytecodeIs DEF environment
  <2>4. /\ doc' \in Entries /\ Len(doc') = Len(doc)
        /\ \A j \in 1..Len(doc) :
             /\ doc'[j].module = doc[j].module /\ doc'[j].version = doc[j].version
             /\ doc'[j].status = doc[j].status
    BY <1>9, DropBytecodeIs
  <2>5. UniqueDirs(doc') /\ Headed(doc')
    <3>1. Kept(doc, doc')
      BY <2>4 DEF Kept
    <3> QED BY <3>1, <2>4, <1>t, <1>l, KeptDirs, KeptHeads
  <2>6. DocExtends'
    <3>1. \A i \in 1..Len(manifest) : Len(manifest) <= Len(doc) => i \in 1..Len(doc)
      BY <1>n
    <3>2. \A i \in Len(manifest)+1..Len(doc) : i \in 1..Len(doc)
      BY <1>n
    <3> QED BY <2>1, <2>4, <3>1, <3>2, <1>l DEF DocExtends
  <2>7. UniqueDirs(manifest)' /\ Headed(manifest)' /\ Headed(doc)'
    BY <2>1, <2>5, <1>l DEF UniqueDirs, Headed
  <2> QED BY <2>1, <2>5, <2>6, <2>7 DEF Lineage, Fresh, Minting
<1>10. ASSUME NEW i \in DOMAIN manifest, NEW status \in Statuses, SetStatus(i, status)
       PROVE  Lineage'
  <2>1. /\ manifest' \in Entries /\ Len(manifest') = Len(manifest)
        /\ \A j \in 1..Len(manifest) :
             manifest'[j] = IF j = i THEN WithStatus(manifest[i], status) ELSE manifest[j]
    BY <1>10, <1>t, <1>n, StatusReplaced DEF SetStatus
  <2>2. /\ pc = "idle" /\ UNCHANGED <<vendored, pc, doc>>
        /\ ~(manifest[i].status = "active" /\ manifest[i].module \in vendored)
    BY <1>10 DEF SetStatus, freezer
  <2>3. Kept(manifest, manifest')
    BY <2>1, <2>2 DEF Kept, WithStatus
  <2>4. UniqueDirs(manifest') /\ Headed(manifest')
    BY <2>1, <2>3, <1>t, <1>l, KeptDirs, KeptHeads
  <2>5. UniqueDirs(doc)' /\ Headed(manifest)' /\ Headed(doc)'
    BY <2>2, <2>4, <1>l DEF UniqueDirs, Headed
  <2> QED BY <2>2, <2>4, <2>5 DEF Lineage, Fresh, Minting, DocExtends
<1> QED BY <1>1, <1>2, <1>3, <1>4, <1>5, <1>6, <1>7, <1>8, <1>9, <1>10 DEF Next

-----------------------------------------------------------------------------
\* Keys survive.

\* A published version has its entry in the file.
ReleasedListed ==
  \A r \in released : \E i \in 1..Len(manifest) : Dir(manifest[i]) = r.dir

KeysKept ==
  \A r \in released : \A i \in 1..Len(manifest) :
    Dir(manifest[i]) = r.dir /\ Verifiable(manifest[i])
      => Files(r.dir).vk = r.identity.vk

Keys == ReleasedListed /\ KeysKept

\* The directory a freeze fills is that of no entry.
LEMMA FreshDirectory ==
  ASSUME Shape, Lineage, Minting
  PROVE  /\ \A i \in 1..Len(doc) : Dir(doc[i]) # <<Circuits[k], version>>
         /\ \A i \in 1..Len(manifest) : Dir(manifest[i]) # <<Circuits[k], version>>
<1>1. version \in Versions
  BY DEF Shape, PcOK
<1>2. \A i \in 1..Len(doc) : Dir(doc[i]) # <<Circuits[k], version>>
  <2> SUFFICES ASSUME NEW i \in 1..Len(doc),
                      doc[i].module = Circuits[k], doc[i].version = version
               PROVE  FALSE
    BY DEF Dir
  <2> QED BY <1>1, NotNewerThanSelf DEF Lineage, Fresh
<1>3. /\ Len(doc) \in Nat /\ Len(manifest) \in Nat
  BY EntriesFacts DEF Shape, TypeOK
<1>4. /\ Len(manifest) <= Len(doc)
      /\ \A i \in 1..Len(manifest) : Dir(manifest[i]) = Dir(doc[i])
  BY DEF Lineage, DocExtends, Minting, Dir
<1> QED BY <1>2, <1>3, <1>4

\* An entry is revoked in the freeze only if it is in the file.
LEMMA RevokedInFile ==
  ASSUME Shape, Lineage, pc # "idle", NEW i \in 1..Len(doc), doc[i].status = "revoked"
  PROVE  i \in 1..Len(manifest) /\ manifest[i].status = "revoked"
         /\ Dir(manifest[i]) = Dir(doc[i])
<1>1. /\ Len(doc) \in Nat /\ Len(manifest) \in Nat
  BY EntriesFacts DEF Shape, TypeOK
<1>2. i \notin Len(manifest)+1..Len(doc)
  BY DEF Lineage, DocExtends
<1>3. i \in 1..Len(manifest)
  BY <1>1, <1>2
<1> QED BY <1>3 DEF Lineage, DocExtends, Dir

\* A write to one file leaves the others alone.
LEMMA OtherFiles ==
  ASSUME NEW f \in FileSet, NEW c
  PROVE  /\ [f EXCEPT !["bytecode"] = c].bytecode = c
         /\ [f EXCEPT !["bytecode"] = c].abi = f.abi
         /\ [f EXCEPT !["bytecode"] = c].vk = f.vk
         /\ [f EXCEPT !["abi"] = c].bytecode = f.bytecode
         /\ [f EXCEPT !["abi"] = c].abi = c
         /\ [f EXCEPT !["abi"] = c].vk = f.vk
         /\ [f EXCEPT !["vk"] = c].bytecode = f.bytecode
         /\ [f EXCEPT !["vk"] = c].abi = f.abi
         /\ [f EXCEPT !["vk"] = c].vk = c
BY DEF FileSet

LEMMA ShapeFiles == Shape => \A d : Files(d) \in FileSet
<1>1. Shape => DiskOK
  BY DEF Shape, TypeOK, DiskOK, FileSet
<1> QED BY <1>1, TypedFiles

\* The steps that write files.
Filling == WriteBytecode \/ WriteAbi \/ InstallVk
\* The steps of reconcile_artifacts that remove a file.
Dropping == DropBytecode \/ DropAbi \/ DropVk

\* A step leaves the disk alone, fills a fresh directory, or drops a file.
LEMMA DiskSteps ==
  ASSUME [Next]_vars PROVE Filling \/ Dropping \/ disk' = disk
<1>1. CASE UNCHANGED vars
  BY <1>1 DEF vars
<1>2. CASE \/ \E f \in Flags \ {"check"} : Start(f)
           \/ SkipDropped \/ SkipUnchanged \/ CompileFails \/ Refuse \/ Supersede
           \/ MintFirst \/ BbFails \/ KeepArtifacts \/ WriteManifest
           \/ StartCheck \/ CheckCircuit \/ CheckPanics \/ ReportCheck \/ Crash
  BY <1>2 DEF Start, SkipDropped, SkipUnchanged, CompileFails, Refuse, Supersede,
     MintFirst, BbFails, KeepArtifacts, WriteManifest, StartCheck, CheckCircuit,
     CheckPanics, ReportCheck, Crash
<1>3. CASE \/ \E m \in Modules, acir \in Acirs, abi \in Abis : Edit(m, acir, abi)
           \/ \E m \in Modules : Drop(m)
           \/ UpgradeBb
           \/ \E i \in DOMAIN manifest, s \in Statuses : SetStatus(i, s)
           \/ \E c \in Chains, i \in DOMAIN manifest : Bind(c, i)
           \/ \E c \in Chains : \E b \in bindings[c] : Unbind(c, b)
  BY <1>3 DEF Edit, Drop, UpgradeBb, SetStatus, Bind, Unbind
<1> QED BY <1>1, <1>2, <1>3 DEF Next, Filling, Dropping

\* The steps that change the file.
LEMMA ManifestSteps ==
  ASSUME [Next]_vars
  PROVE  \/ manifest' = manifest /\ released' = released
         \/ WriteManifest
         \/ \E i \in DOMAIN manifest, s \in Statuses : SetStatus(i, s)
<1>1. CASE UNCHANGED vars
  BY <1>1 DEF vars, history
<1>2. CASE \/ \E f \in Flags \ {"check"} : Start(f)
           \/ SkipDropped \/ SkipUnchanged \/ CompileFails \/ Refuse \/ Supersede
           \/ MintFirst \/ WriteBytecode \/ WriteAbi \/ InstallVk \/ BbFails
           \/ KeepArtifacts \/ DropBytecode \/ DropAbi \/ DropVk
           \/ StartCheck \/ CheckCircuit \/ CheckPanics \/ ReportCheck \/ Crash
  BY <1>2 DEF Start, SkipDropped, SkipUnchanged, CompileFails, Refuse, Supersede,
     MintFirst, WriteBytecode, WriteAbi, InstallVk, BbFails, KeepArtifacts,
     DropBytecode, DropAbi, DropVk, StartCheck, CheckCircuit, CheckPanics,
     ReportCheck, Crash, history
<1>3. CASE \/ \E m \in Modules, acir \in Acirs, abi \in Abis : Edit(m, acir, abi)
           \/ \E m \in Modules : Drop(m)
           \/ UpgradeBb
           \/ \E c \in Chains, i \in DOMAIN manifest : Bind(c, i)
           \/ \E c \in Chains : \E b \in bindings[c] : Unbind(c, b)
  BY <1>3 DEF Edit, Drop, UpgradeBb, Bind, Unbind, history
<1> QED BY <1>1, <1>2, <1>3 DEF Next

\* A step that fills a directory writes there only.
LEMMA FillingIs ==
  ASSUME Shape, Filling
  PROVE  /\ Minting
         /\ \A d : d # <<Circuits[k], version>> => Files(d)' = Files(d)
<1>1. CASE WriteBytecode
  BY <1>1, PutChanges DEF WriteBytecode, Minting
<1>2. CASE WriteAbi
  BY <1>2, PutChanges DEF WriteAbi, Minting
<1>3. CASE InstallVk
  BY <1>3, PutChanges DEF InstallVk, Minting
<1> QED BY <1>1, <1>2, <1>3 DEF Filling

\* A step that drops an artifact drops one of a retired entry.
LEMMA DroppingIs ==
  ASSUME Shape, Dropping
  PROVE  /\ pc \in {"reconcile", "drop abi", "drop vk"}
         /\ k \in 1..Len(doc) /\ doc[k].status # "active"
         /\ \A d : d # Dir(doc[k]) => Files(d)' = Files(d)
         /\ \A d : Verifiable(doc[k]) => Files(d)'.vk = Files(d).vk
<1>f. \A d : Files(d) \in FileSet
  BY ShapeFiles
<1>1. CASE DropBytecode
  <2>1. /\ pc = "reconcile" /\ k \in 1..Len(doc) /\ doc[k].status # "active"
        /\ Put(Dir(doc[k]), "bytecode", None)
    BY <1>1, DropBytecodeIs
  <2>2. \A d : Files(d)' = IF d = Dir(doc[k])
                           THEN [Files(Dir(doc[k])) EXCEPT !["bytecode"] = None]
                           ELSE Files(d)
    BY <2>1, PutChanges
  <2>3. [Files(Dir(doc[k])) EXCEPT !["bytecode"] = None].vk = Files(Dir(doc[k])).vk
    BY <1>f, OtherFiles
  <2> QED BY <2>1, <2>2, <2>3
<1>2. CASE DropAbi
  <2>1. /\ pc = "drop abi" /\ k \in 1..Len(doc) /\ doc[k].status # "active"
        /\ Put(Dir(doc[k]), "abi", None)
    BY <1>2 DEF DropAbi, Shape, PcOK
  <2>2. \A d : Files(d)' = IF d = Dir(doc[k])
                           THEN [Files(Dir(doc[k])) EXCEPT !["abi"] = None]
                           ELSE Files(d)
    BY <2>1, PutChanges
  <2>3. [Files(Dir(doc[k])) EXCEPT !["abi"] = None].vk = Files(Dir(doc[k])).vk
    BY <1>f, OtherFiles
  <2> QED BY <2>1, <2>2, <2>3
<1>3. CASE DropVk
  <2>1. /\ pc = "drop vk" /\ k \in 1..Len(doc) /\ doc[k].status = "revoked"
        /\ Put(Dir(doc[k]), "vk", None)
    BY <1>3 DEF DropVk, Shape, PcOK
  <2> QED BY <2>1, PutChanges DEF Verifiable
<1> QED BY <1>1, <1>2, <1>3 DEF Dropping

\* No step touches the key of an entry of the file that is not revoked.
LEMMA KeyStays ==
  ASSUME Shape, Lineage, [Next]_vars,
         NEW i \in 1..Len(manifest), Verifiable(manifest[i]),
         NEW d, d = Dir(manifest[i])
  PROVE  Files(d)'.vk = Files(d).vk
<1>1. CASE Filling
  BY <1>1, FillingIs, FreshDirectory
<1>2. CASE Dropping
  <2>1. /\ k \in 1..Len(doc) /\ pc # "idle"
        /\ d # Dir(doc[k]) => Files(d)' = Files(d)
        /\ Verifiable(doc[k]) => Files(d)'.vk = Files(d).vk
    BY <1>2, DroppingIs
  <2>2. CASE d = Dir(doc[k]) /\ doc[k].status = "revoked"
    <3>1. k \in 1..Len(manifest) /\ manifest[k].status = "revoked"
          /\ Dir(manifest[k]) = Dir(doc[k])
      BY <2>1, <2>2, RevokedInFile
    <3>2. k = i
      BY <2>2, <3>1 DEF Lineage, UniqueDirs
    <3> QED BY <3>1, <3>2 DEF Verifiable
  <2> QED BY <2>1, <2>2 DEF Verifiable
<1>3. CASE disk' = disk
  BY <1>3 DEF Files
<1> QED BY <1>1, <1>2, <1>3, DiskSteps

LEMMA KeysInit == Init => Keys
BY DEF Init, Keys, ReleasedListed, KeysKept

\* Every step keeps the published keys.
LEMMA KeysStep ==
  Shape /\ Lineage /\ Keys /\ [Next]_vars => Keys'
<1> SUFFICES ASSUME Shape, Lineage, Keys, [Next]_vars PROVE Keys'
  OBVIOUS
<1>n. /\ Len(doc) \in Nat /\ Len(manifest) \in Nat
      /\ DOMAIN doc = 1..Len(doc) /\ DOMAIN manifest = 1..Len(manifest)
  BY EntriesFacts DEF Shape, TypeOK
<1>1. CASE manifest' = manifest /\ released' = released
  <2>1. ReleasedListed'
    BY <1>1 DEF Keys, ReleasedListed
  <2>2. KeysKept'
    <3> SUFFICES ASSUME NEW r \in released, NEW i \in 1..Len(manifest),
                        Dir(manifest[i]) = r.dir, Verifiable(manifest[i])
                 PROVE  Files(r.dir)'.vk = r.identity.vk
      BY <1>1 DEF KeysKept
    <3> QED BY KeyStays DEF Keys, KeysKept
  <2> QED BY <2>1, <2>2 DEF Keys
<1>2. CASE WriteManifest
  <2>1. /\ manifest' = doc /\ disk' = disk /\ pc = "reconcile"
        /\ released' = released \cup
             {[dir |-> Dir(doc[i]), identity |-> Identity(doc[i])] :
                i \in Len(manifest) + 1 .. Len(doc)}
    BY <1>2 DEF WriteManifest
  <2>2. /\ Len(manifest) <= Len(doc)
        /\ \A i \in 1..Len(manifest) :
             /\ i \in 1..Len(doc) /\ Dir(doc[i]) = Dir(manifest[i])
             /\ doc[i].status = "revoked" <=> manifest[i].status = "revoked"
    BY <2>1, <1>n DEF Lineage, DocExtends, Dir
  <2>3. ASSUME NEW r \in released
        PROVE  /\ \E i \in 1..Len(doc) : Dir(doc[i]) = r.dir
               /\ \A i \in 1..Len(doc) : Dir(doc[i]) = r.dir /\ Verifiable(doc[i])
                    => Files(r.dir).vk = r.identity.vk
    <3>1. PICK j \in 1..Len(manifest) : Dir(manifest[j]) = r.dir
      BY DEF Keys, ReleasedListed
    <3>2. \A i \in 1..Len(doc) : Dir(doc[i]) = r.dir => i = j
      BY <2>2, <3>1 DEF Lineage, UniqueDirs
    <3>3. Verifiable(doc[j]) => Files(r.dir).vk = r.identity.vk
      BY <2>2, <3>1 DEF Keys, KeysKept, Verifiable
    <3> QED BY <2>2, <3>1, <3>2, <3>3
  <2>4. ASSUME NEW j \in Len(manifest)+1..Len(doc),
               NEW r, r = [dir |-> Dir(doc[j]), identity |-> Identity(doc[j])]
        PROVE  /\ \E i \in 1..Len(doc) : Dir(doc[i]) = r.dir
               /\ Files(r.dir).vk = r.identity.vk
    <3>1. j \in 1..Len(doc)
      BY <1>n
    <3>2. r.dir = Dir(doc[j]) /\ r.identity.vk = Files(Dir(doc[j])).vk
      BY <2>4 DEF Identity
    <3> QED BY <3>1, <3>2
  <2>5. ReleasedListed'
    BY <2>1, <2>3, <2>4 DEF ReleasedListed
  <2>6. \A d : Files(d)' = Files(d)
    BY <2>1 DEF Files
  <2>7. KeysKept'
    BY <2>1, <2>3, <2>4, <2>6 DEF KeysKept
  <2> QED BY <2>5, <2>7 DEF Keys
<1>3. ASSUME NEW i \in DOMAIN manifest, NEW s \in Statuses, SetStatus(i, s)
      PROVE  Keys'
  <2>1. /\ Len(manifest') = Len(manifest)
        /\ \A j \in 1..Len(manifest) :
             manifest'[j] = IF j = i THEN WithStatus(manifest[i], s) ELSE manifest[j]
    BY <1>3, <1>n, StatusReplaced DEF SetStatus, Shape, TypeOK
  <2>2. released' = released /\ disk' = disk /\ Verifiable(manifest[i])
    BY <1>3 DEF SetStatus, Verifiable
  <2>3. \A j \in 1..Len(manifest) : 
          /\ Dir(manifest'[j]) = Dir(manifest[j])
          /\ Verifiable(manifest'[j]) => Verifiable(manifest[j])
    BY <2>1, <2>2 DEF Dir, WithStatus
  <2>4. \A d : Files(d)' = Files(d)
    BY <2>2 DEF Files
  <2>5. ReleasedListed'
    BY <2>1, <2>2, <2>3 DEF Keys, ReleasedListed
  <2>6. KeysKept'
    BY <2>1, <2>2, <2>3, <2>4 DEF Keys, KeysKept, Verifiable
  <2> QED BY <2>5, <2>6 DEF Keys
<1> QED BY <1>1, <1>2, <1>3, ManifestSteps

LEMMA KeysSurviving == Shape /\ Keys => KeysSurvive
<1> SUFFICES ASSUME Shape, Keys, NEW r \in released, NEW e \in Range(manifest),
                    Dir(e) = r.dir, Verifiable(e)
             PROVE  Files(r.dir).vk = r.identity.vk
  BY DEF KeysSurvive
<1>1. PICK i \in 1..Len(manifest) : e = manifest[i]
  BY EntriesFacts DEF Range, Shape, TypeOK
<1> QED BY <1>1 DEF Keys, KeysKept

\* The key of a published version that is not revoked is in its directory at every
\* step of every freeze, and after every crash (reconcile_artifacts).
THEOREM KeysSurviveHolds == MayRetire = FALSE => (Spec => []KeysSurvive)
<1> SUFFICES ASSUME MayRetire = FALSE PROVE Spec => []KeysSurvive
  OBVIOUS
<1> DEFINE Inv == Shape /\ Lineage /\ Keys
<1>1. Init => Inv
  BY ShapeInit, LineageInit, KeysInit
<1>2. Inv /\ [Next]_vars => Inv'
  BY ShapeStep, LineageStep, KeysStep
<1>3. Inv => KeysSurvive
  BY KeysSurviving
<1> QED BY <1>1, <1>2, <1>3, PTL DEF Spec

-----------------------------------------------------------------------------
\* Hashes survive, and what is registered loads.

Reconciling == pc \in {"reconcile", "drop abi", "drop vk"}

\* The files of a directory, and the hash an entry is registered with, on a disk.
FilesIn(dk, d) == IF d \in DOMAIN dk THEN dk[d] ELSE NoFiles

\* The hash the build would find for an entry, given the disk.
HashIn(dk, e) ==
  LET files == FilesIn(dk, Dir(e))
  IN IF files.bytecode # None THEN files.bytecode ELSE e.hash

\* The hash an entry records is that of its bytecode, while there are both.
Agrees(dk, es) ==
  \A i \in 1..Len(es) :
    es[i].hash # None /\ FilesIn(dk, Dir(es[i])).bytecode # None
      => es[i].hash = FilesIn(dk, Dir(es[i])).bytecode

HashKept(dk, rs, es) ==
  \A r \in rs : \A i \in 1..Len(es) :
    Dir(es[i]) = r.dir /\ Verifiable(es[i]) => HashIn(dk, es[i]) = r.identity.hash

HashLoaded(dk, es) ==
  \A i \in 1..Len(es) : Verifiable(es[i]) => HashIn(dk, es[i]) # None

VkLoaded(dk, es) ==
  \A i \in 1..Len(es) : Verifiable(es[i]) => FilesIn(dk, Dir(es[i])).vk # None

\* The entry to be superseded has bytecode.
OldPresent ==
  Minting => \A i \in 1..Len(doc) :
    doc[i].module = Circuits[k] /\ doc[i].status = "active"
      => FilesIn(disk, Dir(doc[i])).bytecode # None

\* What the directory of the new version holds so far.
Filled ==
  /\ pc \in {"abi", "vk"} =>
       FilesIn(disk, <<Circuits[k], version>>).bytecode = source[Circuits[k]].acir
  /\ pc = "vk" =>
       FilesIn(disk, <<Circuits[k], version>>).abi = source[Circuits[k]].abi

IdentityShape ==
  \A r \in released :
    r.identity = [hash |-> r.identity.hash, vk |-> r.identity.vk]

DocSound ==
  /\ Agrees(disk, doc) /\ VkLoaded(disk, doc)
  /\ ~torn => HashKept(disk, released, doc) /\ HashLoaded(disk, doc)

ManifestSound ==
  /\ Agrees(disk, manifest) /\ VkLoaded(disk, manifest)
  /\ ~torn /\ ~Reconciling =>
       HashKept(disk, released, manifest) /\ HashLoaded(disk, manifest)

\* What is known of the artifacts behind the entries, in the file and in the freeze.
Identities == IdentityShape /\ OldPresent /\ Filled /\ DocSound /\ ManifestSound

LEMMA FilesAre ==
  /\ \A d : Files(d) = FilesIn(disk, d)
  /\ \A d : Files(d)' = FilesIn(disk', d)
BY DEF Files, FilesIn

LEMMA IdentityIs ==
  ASSUME NEW e
  PROVE  Identity(e) = [hash |-> HashIn(disk, e), vk |-> FilesIn(disk, Dir(e)).vk]
BY FilesAre DEF Identity, HashIn

LEMMA DocSteps ==
  ASSUME [Next]_vars
  PROVE  \/ doc' = doc
         \/ doc' = <<>>
         \/ doc' = manifest /\ pc = "idle" /\ pc' \in {"compile", "check"}
              /\ UNCHANGED <<disk, manifest, released, torn>>
         \/ InstallVk
         \/ DropBytecode
<1>1. CASE UNCHANGED vars
  BY <1>1 DEF vars, freezer
<1>2. CASE \/ SkipDropped \/ SkipUnchanged \/ Supersede
           \/ MintFirst \/ WriteBytecode \/ WriteAbi
           \/ KeepArtifacts \/ DropAbi \/ DropVk \/ CheckCircuit
  BY <1>2 DEF SkipDropped, SkipUnchanged, Supersede,
     MintFirst, WriteBytecode, WriteAbi, KeepArtifacts, DropAbi, DropVk, CheckCircuit
<1>3. CASE \/ CompileFails \/ Refuse \/ BbFails \/ WriteManifest
           \/ CheckPanics \/ ReportCheck \/ Crash
  BY <1>3 DEF CompileFails, Refuse, BbFails, WriteManifest, CheckPanics,
     ReportCheck, Crash, Exit
<1>4. CASE StartCheck \/ \E f \in Flags \ {"check"} : Start(f)
  BY <1>4 DEF StartCheck, Start, history
<1>5. CASE \/ \E m \in Modules, acir \in Acirs, abi \in Abis : Edit(m, acir, abi)
           \/ \E m \in Modules : Drop(m)
           \/ UpgradeBb
           \/ \E i \in DOMAIN manifest, s \in Statuses : SetStatus(i, s)
           \/ \E c \in Chains, i \in DOMAIN manifest : Bind(c, i)
           \/ \E c \in Chains : \E b \in bindings[c] : Unbind(c, b)
  BY <1>5 DEF Edit, Drop, UpgradeBb, SetStatus, Bind, Unbind, freezer
<1> QED BY <1>1, <1>2, <1>3, <1>4, <1>5 DEF Next

\* A freeze that dies while it reconciles leaves its mark, for good.
LEMMA TornSteps ==
  ASSUME [Next]_vars
  PROVE  /\ torn => torn'
         /\ Reconciling => Reconciling' \/ torn' \/ WriteManifest
<1> USE DEF Reconciling
<1>1. CASE UNCHANGED vars
  BY <1>1 DEF vars, freezer, history
<1>2. CASE \/ SkipDropped \/ SkipUnchanged \/ Supersede
           \/ MintFirst \/ WriteBytecode \/ WriteAbi \/ InstallVk
           \/ CheckCircuit \/ CompileFails \/ Refuse \/ BbFails
           \/ CheckPanics \/ ReportCheck
           \/ StartCheck \/ \E f \in Flags \ {"check"} : Start(f)
  <2>1. torn' = torn /\ (~Reconciling)
    BY <1>2 DEF SkipDropped, SkipUnchanged, Supersede,
       MintFirst, WriteBytecode, WriteAbi, InstallVk, CheckCircuit,
       CompileFails, Refuse, BbFails, CheckPanics, ReportCheck, Start, StartCheck, history
  <2> QED BY <2>1, Zenon
<1>3. CASE KeepArtifacts \/ DropBytecode \/ DropAbi \/ DropVk
  <2>1. torn' = torn /\ (Reconciling')
    BY <1>3 DEF KeepArtifacts, DropBytecode, DropAbi, DropVk, Retired, history
  <2> QED BY <2>1, Zenon
<1>4. CASE WriteManifest
  BY <1>4 DEF WriteManifest, Exit
<1>5. CASE Crash
  BY <1>5 DEF Crash
<1>6. CASE \/ \E m \in Modules, acir \in Acirs, abi \in Abis : Edit(m, acir, abi)
           \/ \E m \in Modules : Drop(m)
           \/ UpgradeBb
           \/ \E i \in DOMAIN manifest, s \in Statuses : SetStatus(i, s)
           \/ \E c \in Chains, i \in DOMAIN manifest : Bind(c, i)
           \/ \E c \in Chains : \E b \in bindings[c] : Unbind(c, b)
  <2>1. torn' = torn /\ (Reconciling => Reconciling')
    BY <1>6 DEF Edit, Drop, UpgradeBb, SetStatus, Bind, Unbind, freezer, history
  <2> QED BY <2>1, Zenon
<1> QED BY <1>1, <1>2, <1>3, <1>4, <1>5, <1>6 DEF Next

\* The bytecode of a directory changes when its file is written or dropped.
LEMMA BytecodeSteps ==
  ASSUME Shape, [Next]_vars
  PROVE  \/ /\ WriteBytecode
            /\ \A d : d # <<Circuits[k], version>> =>
                 Files(d)'.bytecode = Files(d).bytecode
         \/ /\ DropBytecode
            /\ \A d : Files(d)'.bytecode =
                        IF d = Dir(doc[k]) THEN None ELSE Files(d).bytecode
         \/ /\ ~DropBytecode
            /\ \A d : Files(d)'.bytecode = Files(d).bytecode
<1>f. \A d : Files(d) \in FileSet
  BY ShapeFiles
<1>1. CASE WriteBytecode
  BY <1>1, PutChanges DEF WriteBytecode
<1>2. CASE DropBytecode
  <2>1. Put(Dir(doc[k]), "bytecode", None)
    BY <1>2, DropBytecodeIs
  <2>2. \A d : Files(d)' = IF d = Dir(doc[k])
                           THEN [Files(Dir(doc[k])) EXCEPT !["bytecode"] = None]
                           ELSE Files(d)
    BY <2>1, PutChanges
  <2>3. [Files(Dir(doc[k])) EXCEPT !["bytecode"] = None].bytecode = None
    BY <1>f, OtherFiles
  <2> QED BY <1>2, <2>2, <2>3
<1>3. ASSUME NEW x, NEW file \in {"abi", "vk"}, NEW c, Put(x, file, c)
      PROVE  \A d : Files(d)'.bytecode = Files(d).bytecode
  <2>1. \A d : Files(d)' = IF d = x THEN [Files(x) EXCEPT ![file] = c] ELSE Files(d)
    BY <1>3, PutChanges
  <2>2. [Files(x) EXCEPT ![file] = c].bytecode = Files(x).bytecode
    BY <1>f, OtherFiles
  <2> QED BY <2>1, <2>2
<1>4. CASE WriteAbi \/ InstallVk \/ DropAbi \/ DropVk
  <2>1. pc \in {"abi", "vk", "drop abi", "drop vk"}
    BY <1>4 DEF WriteAbi, InstallVk, DropAbi, DropVk
  <2>2. ~DropBytecode
    BY <2>1 DEF DropBytecode, Retired
  <2>3. \/ \E x, c : Put(x, "abi", c)
        \/ \E x, c : Put(x, "vk", c)
    BY <1>4 DEF WriteAbi, InstallVk, DropAbi, DropVk
  <2> QED BY <1>3, <2>2, <2>3
<1>5. CASE disk' = disk
  <2>1. \A d : Files(d)' = Files(d)
    BY <1>5 DEF Files
  <2> QED BY <1>2, <2>1
<1> QED BY <1>1, <1>2, <1>4, <1>5, DiskSteps DEF Filling, Dropping

\* Unless it is dropped, the bytecode of an entry stays.
LEMMA BytecodeStays ==
  ASSUME Shape, Lineage, [Next]_vars, ~DropBytecode
  PROVE  /\ \A i \in 1..Len(doc) : \A d : d = Dir(doc[i]) =>
              Files(d)'.bytecode = Files(d).bytecode
         /\ \A i \in 1..Len(manifest) : \A d : d = Dir(manifest[i]) =>
              Files(d)'.bytecode = Files(d).bytecode
<1>1. CASE WriteBytecode
  <2>1. Minting
    BY <1>1 DEF WriteBytecode, Minting
  <2>2. pc = "bytecode"
    BY <1>1 DEF WriteBytecode
  <2> QED BY <1>1, <2>1, FreshDirectory, BytecodeSteps
<1>2. CASE ~WriteBytecode
  BY <1>2, BytecodeSteps
<1> QED BY <1>1, <1>2

\* No step touches the key of an entry of the freeze that is not revoked.
LEMMA DocKeyStays ==
  ASSUME Shape, Lineage, [Next]_vars,
         NEW i \in 1..Len(doc), Verifiable(doc[i]),
         NEW d, d = Dir(doc[i])
  PROVE  Files(d)'.vk = Files(d).vk
<1>1. CASE Filling
  BY <1>1, FillingIs, FreshDirectory
<1>2. CASE Dropping
  <2>1. /\ k \in 1..Len(doc)
        /\ d # Dir(doc[k]) => Files(d)' = Files(d)
        /\ Verifiable(doc[k]) => Files(d)'.vk = Files(d).vk
    BY <1>2, DroppingIs
  <2>2. d = Dir(doc[k]) => k = i
    BY <2>1 DEF Lineage, UniqueDirs
  <2> QED BY <2>1, <2>2
<1>3. CASE disk' = disk
  BY <1>3 DEF Files
<1> QED BY <1>1, <1>2, <1>3, DiskSteps

\* Where an entry is, and the bytecode of its directory, decide what is said of
\* it: entries that agree in this are as sound as each other.
LEMMA SoundEntries ==
  ASSUME NEW dk, NEW dl, NEW es, NEW fs, NEW rs, Len(es) = Len(fs),
         \A i \in 1..Len(es) :
           /\ Dir(fs[i]) = Dir(es[i])
           /\ fs[i].hash = es[i].hash
           /\ Verifiable(fs[i]) => Verifiable(es[i])
           /\ FilesIn(dl, Dir(es[i])).bytecode = FilesIn(dk, Dir(es[i])).bytecode
  PROVE  /\ Agrees(dk, es) => Agrees(dl, fs)
         /\ HashKept(dk, rs, es) => HashKept(dl, rs, fs)
         /\ HashLoaded(dk, es) => HashLoaded(dl, fs)
<1>1. \A i \in 1..Len(es) : HashIn(dl, fs[i]) = HashIn(dk, es[i])
  BY DEF HashIn
<1> QED BY <1>1 DEF Agrees, HashKept, HashLoaded

LEMMA SoundKeys ==
  ASSUME NEW dk, NEW dl, NEW es, NEW fs, Len(es) = Len(fs),
         \A i \in 1..Len(es) :
           /\ Dir(fs[i]) = Dir(es[i])
           /\ Verifiable(fs[i]) =>
                /\ Verifiable(es[i])
                /\ FilesIn(dl, Dir(es[i])).vk = FilesIn(dk, Dir(es[i])).vk
  PROVE  VkLoaded(dk, es) => VkLoaded(dl, fs)
BY DEF VkLoaded

LEMMA IdentitiesInit == Init => Identities
BY EntriesFacts DEF Init, Identities, IdentityShape, OldPresent, Minting, Filled,
   DocSound, ManifestSound, Agrees, VkLoaded, HashKept, HashLoaded

\* DropBytecode keeps what is said of the entries of the freeze.
LEMMA DropBytecodeSound ==
  ASSUME Shape, Lineage, DocSound, [Next]_vars, DropBytecode
  PROVE  DocSound'
<1>1. /\ k \in 1..Len(doc) /\ Len(doc') = Len(doc)
      /\ released' = released /\ torn' = torn
      /\ \A j \in 1..Len(doc) :
           /\ doc'[j].status = doc[j].status
           /\ Dir(doc'[j]) = Dir(doc[j])
           /\ j # k => doc'[j] = doc[j]
           /\ j = k => doc'[j].hash = RecordedHash(doc[k])
  BY DropBytecodeIs DEF history
<1>2. \A d : FilesIn(disk', d).bytecode =
               IF d = Dir(doc[k]) THEN None ELSE FilesIn(disk, d).bytecode
  <2>1. ~WriteBytecode
    BY DEF WriteBytecode, DropBytecode, Retired
  <2> QED BY <2>1, BytecodeSteps, FilesAre
<1>3. \A j \in 1..Len(doc) : j # k => Dir(doc[j]) # Dir(doc[k])
  BY <1>1 DEF Lineage, UniqueDirs
<1>4. RecordedHash(doc[k]) =
        IF doc[k].hash = None THEN FilesIn(disk, Dir(doc[k])).bytecode ELSE doc[k].hash
  BY FilesAre DEF RecordedHash
<1>5. HashIn(disk', doc'[k]) = HashIn(disk, doc[k])
  <2>1. HashIn(disk', doc'[k]) = RecordedHash(doc[k])
    BY <1>1, <1>2 DEF HashIn
  <2>2. HashIn(disk, doc[k]) = RecordedHash(doc[k])
    BY <1>1, <1>4 DEF HashIn, DocSound, Agrees
  <2> QED BY <2>1, <2>2
<1>6. ASSUME NEW j \in 1..Len(doc) PROVE HashIn(disk', doc'[j]) = HashIn(disk, doc[j])
  <2>1. CASE j = k
    BY <1>5, <2>1
  <2>2. CASE j # k
    <3>1. doc'[j] = doc[j]
      BY <1>1, <2>2
    <3>2. FilesIn(disk', Dir(doc[j])).bytecode = FilesIn(disk, Dir(doc[j])).bytecode
      BY <1>2, <1>3, <2>2
    <3> QED BY <3>1, <3>2 DEF HashIn
  <2> QED BY <2>1, <2>2
<1>7. Agrees(disk', doc')
  <2> SUFFICES ASSUME NEW j \in 1..Len(doc), doc'[j].hash # None,
                      FilesIn(disk', Dir(doc'[j])).bytecode # None
               PROVE  doc'[j].hash = FilesIn(disk', Dir(doc'[j])).bytecode
    BY <1>1 DEF Agrees
  <2>1. j # k
    BY <1>1, <1>2
  <2>2. doc'[j] = doc[j] /\ FilesIn(disk', Dir(doc[j])) .bytecode =
                            FilesIn(disk, Dir(doc[j])).bytecode
    BY <1>1, <1>2, <1>3, <2>1
  <2> QED BY <2>2 DEF DocSound, Agrees
<1>8. VkLoaded(disk', doc')
  <2>1. \A j \in 1..Len(doc) : Verifiable(doc[j]) =>
           FilesIn(disk', Dir(doc[j])).vk = FilesIn(disk, Dir(doc[j])).vk
    BY DocKeyStays, FilesAre
  <2> QED BY <1>1, <2>1, SoundKeys DEF DocSound, Verifiable
<1>9. ~torn => HashKept(disk', released, doc') /\ HashLoaded(disk', doc')
  BY <1>1, <1>6 DEF DocSound, HashKept, HashLoaded, Verifiable
<1> QED BY <1>1, <1>7, <1>8, <1>9 DEF DocSound

\* The new entry is sound, and the one it supersedes keeps its hash.
LEMMA InstallVkSound ==
  ASSUME Shape, Lineage, Keys, Identities, [Next]_vars, InstallVk
  PROVE  DocSound'
<1> DEFINE n == Len(doc) + 1
           m == Circuits[k]
           d == <<m, version>>
           a == Active(m, doc)
<1>1. /\ pc = "vk" /\ k \in 1..Len(Circuits) /\ m \in Modules
      /\ Len(doc') = n /\ doc'[n] = NewEntry(m, version)
      /\ released' = released /\ torn' = torn
      /\ \A i \in 1..Len(doc) :
           /\ Dir(doc'[i]) = Dir(doc[i])
           /\ i # a => doc'[i] = doc[i]
           /\ i = a => /\ doc[i].status = "active" /\ doc'[i].status = "deprecated"
                       /\ doc'[i].hash = Files(Dir(doc[i])).bytecode
  BY InstallVkIs DEF InstallVk, history
<1>2. Minting /\ Len(doc) \in Nat
  BY <1>1, EntriesFacts DEF Minting, Shape, TypeOK
<1>3. /\ \A i \in 1..Len(doc) : Dir(doc[i]) # d
      /\ \A i \in 1..Len(manifest) : Dir(manifest[i]) # d
  BY <1>2, FreshDirectory
<1>4. \A x : FilesIn(disk', x).bytecode = FilesIn(disk, x).bytecode
  <2>1. ~WriteBytecode /\ ~DropBytecode
    BY <1>1 DEF WriteBytecode, DropBytecode, Retired
  <2> QED BY <2>1, BytecodeSteps, FilesAre
<1>5. FilesIn(disk', d).vk = VkOf(source[m].acir)
  <2>1. \A x : Files(x)' = IF x = d THEN [Files(d) EXCEPT !["vk"] = VkOf(source[m].acir)]
                           ELSE Files(x)
    BY PutChanges DEF InstallVk
  <2>2. FilesIn(disk', d) = [Files(d) EXCEPT !["vk"] = VkOf(source[m].acir)]
    BY <2>1, FilesAre
  <2> QED BY <2>2, ShapeFiles, OtherFiles
<1>6. source[m].acir \in Acirs /\ bb \in 1..MaxBb
  BY <1>1 DEF Shape, TypeOK
<1>7. VkOf(source[m].acir) # None /\ source[m].acir # None
  BY <1>6, FreezeAssumption DEF VkOf
<1>8. Dir(doc'[n]) = d /\ doc'[n].hash = None
  BY <1>1 DEF NewEntry, Dir
<1>9. FilesIn(disk, d).bytecode = source[m].acir
  BY <1>1 DEF Identities, Filled
<1>10. \A i \in 1..n : i = n \/ i \in 1..Len(doc)
  BY <1>2
<1> HIDE DEF m, d, a
<1>11. ASSUME NEW i \in 1..Len(doc)
       PROVE  /\ Verifiable(doc'[i]) => Verifiable(doc[i])
              /\ HashIn(disk', doc'[i]) = HashIn(disk, doc[i])
              /\ doc'[i].hash # None /\ FilesIn(disk', Dir(doc'[i])).bytecode # None
                   => doc'[i].hash = FilesIn(disk', Dir(doc'[i])).bytecode
              /\ Verifiable(doc[i]) => FilesIn(disk', Dir(doc'[i])).vk # None
  <2>1. Verifiable(doc[i]) => FilesIn(disk', Dir(doc[i])).vk # None
    BY DocKeyStays, FilesAre DEF Identities, DocSound, VkLoaded
  <2>2. CASE i = a
    <3>1. doc[i].module = m /\ doc[i].status = "active"
      <4>1. doc \in Entries /\ OneActive(doc)
        BY DEF Shape, TypeOK
      <4>2. i = Active(m, doc) /\ Active(m, doc) # 0
        BY <1>2, <2>2 DEF a
      <4> QED BY <4>1, <4>2, ActiveIs
    <3>2. FilesIn(disk, Dir(doc[i])).bytecode # None
      BY <1>2, <3>1 DEF Identities, OldPresent, m
    <3>3. doc'[i].hash = FilesIn(disk, Dir(doc[i])).bytecode
      BY <1>1, <2>2, FilesAre
    <3> QED BY <1>1, <1>4, <2>1, <3>1, <3>2, <3>3 DEF HashIn, Verifiable
  <2>3. CASE i # a
    <3>1. doc'[i] = doc[i]
      BY <1>1, <2>3
    <3> QED BY <1>4, <2>1, <3>1 DEF HashIn, Identities, DocSound, Agrees
  <2> QED BY <2>2, <2>3
<1>12. Agrees(disk', doc')
  BY <1>1, <1>8, <1>10, <1>11 DEF Agrees
<1>13. VkLoaded(disk', doc')
  BY <1>1, <1>5, <1>7, <1>8, <1>10, <1>11 DEF VkLoaded
<1>14. HashIn(disk', doc'[n]) # None
  BY <1>4, <1>7, <1>8, <1>9 DEF HashIn
<1>15. \A r \in released : Dir(doc'[n]) # r.dir
  BY <1>3, <1>8 DEF Keys, ReleasedListed
<1>16. ASSUME ~torn PROVE HashKept(disk', released, doc') /\ HashLoaded(disk', doc')
  <2>1. HashKept(disk', released, doc')
    BY <1>1, <1>10, <1>11, <1>15, <1>16 DEF HashKept, Identities, DocSound
  <2>2. HashLoaded(disk', doc')
    BY <1>1, <1>10, <1>11, <1>14, <1>16 DEF HashLoaded, Identities, DocSound
  <2> QED BY <2>1, <2>2
<1> QED BY <1>1, <1>12, <1>13, <1>16 DEF DocSound

\* Every step keeps the entries of the freeze sound.
LEMMA DocSoundStep ==
  ASSUME Shape, Lineage, Keys, Identities, [Next]_vars PROVE DocSound'
<1>1. CASE DropBytecode
  BY <1>1, DropBytecodeSound DEF Identities
<1>2. CASE InstallVk
  BY <1>2, InstallVkSound
<1>3. CASE doc' = <<>>
  BY <1>3, EntriesFacts DEF DocSound, Agrees, VkLoaded, HashKept, HashLoaded
<1>4. CASE doc' = manifest /\ pc = "idle" /\ pc' \in {"compile", "check"}
             /\ UNCHANGED <<disk, manifest, released, torn>>
  BY <1>4 DEF DocSound, Identities, ManifestSound, Reconciling
<1>5. CASE doc' = doc /\ ~DropBytecode /\ doc' # <<>>
  <2>1. /\ \A i \in 1..Len(doc) :
             FilesIn(disk', Dir(doc[i])).bytecode = FilesIn(disk, Dir(doc[i])).bytecode
        /\ \A i \in 1..Len(doc) : Verifiable(doc[i]) =>
             FilesIn(disk', Dir(doc[i])).vk = FilesIn(disk, Dir(doc[i])).vk
    BY <1>5, BytecodeStays, DocKeyStays, FilesAre
  <2>2. released' = released
    <3>1. ~WriteManifest
      BY <1>5 DEF WriteManifest, Exit
    <3> QED BY <3>1, ManifestSteps DEF SetStatus
  <2>3. torn => torn'
    BY TornSteps
  <2>4. Agrees(disk', doc)
    BY <2>1, SoundEntries DEF Identities, DocSound
  <2>5. VkLoaded(disk', doc)
    BY <2>1, SoundKeys DEF Identities, DocSound
  <2>6. ~torn => HashKept(disk', released, doc) /\ HashLoaded(disk', doc)
    BY <2>1, SoundEntries DEF Identities, DocSound
  <2> QED BY <1>5, <2>2, <2>3, <2>4, <2>5, <2>6 DEF DocSound
<1> QED BY <1>1, <1>2, <1>3, <1>4, <1>5, DocSteps

\* Every step keeps the entries of the file sound.
LEMMA ManifestSoundStep ==
  ASSUME Shape, Lineage, Keys, Identities, [Next]_vars
  PROVE  ManifestSound' /\ IdentityShape'
<1>n. /\ Len(doc) \in Nat /\ Len(manifest) \in Nat
      /\ DOMAIN doc = 1..Len(doc) /\ DOMAIN manifest = 1..Len(manifest)
  BY EntriesFacts DEF Shape, TypeOK
<1>1. CASE manifest' = manifest /\ released' = released /\ ~WriteManifest
  <2>1. \A i \in 1..Len(manifest) : Verifiable(manifest[i]) =>
          FilesIn(disk', Dir(manifest[i])).vk = FilesIn(disk, Dir(manifest[i])).vk
    BY KeyStays, FilesAre
  <2>2. VkLoaded(disk', manifest)
    BY <2>1, SoundKeys DEF Identities, ManifestSound
  <2>3. Agrees(disk', manifest)
    <3>1. \A i \in 1..Len(manifest) :
             \/ FilesIn(disk', Dir(manifest[i])).bytecode = None
             \/ FilesIn(disk', Dir(manifest[i])).bytecode =
                  FilesIn(disk, Dir(manifest[i])).bytecode
      <4>1. CASE DropBytecode
        <5>1. ~WriteBytecode
          BY <4>1 DEF WriteBytecode, DropBytecode, Retired
        <5> QED BY <4>1, <5>1, BytecodeSteps, FilesAre
      <4>2. CASE ~DropBytecode
        BY <4>2, BytecodeStays, FilesAre
      <4> QED BY <4>1, <4>2
    <3> QED BY <3>1 DEF Agrees, Identities, ManifestSound
  <2>4. ASSUME ~torn', ~Reconciling'
        PROVE  HashKept(disk', released, manifest) /\ HashLoaded(disk', manifest)
    <3>1. ~torn /\ ~Reconciling
      BY <1>1, <2>4, TornSteps
    <3>2. ~DropBytecode
      BY <3>1 DEF DropBytecode, Retired, Reconciling
    <3>3. \A i \in 1..Len(manifest) :
             FilesIn(disk', Dir(manifest[i])).bytecode =
               FilesIn(disk, Dir(manifest[i])).bytecode
      BY <3>2, BytecodeStays, FilesAre
    <3> QED BY <3>1, <3>3, SoundEntries DEF Identities, ManifestSound
  <2>5. IdentityShape'
    BY <1>1 DEF Identities, IdentityShape
  <2> QED BY <1>1, <2>2, <2>3, <2>4, <2>5 DEF ManifestSound
<1>2. CASE WriteManifest
  <2>1. /\ manifest' = doc /\ disk' = disk /\ torn' = torn
        /\ released' = released \cup
             {[dir |-> Dir(doc[i]), identity |-> Identity(doc[i])] :
                i \in Len(manifest) + 1 .. Len(doc)}
    BY <1>2 DEF WriteManifest
  <2>2. ASSUME NEW j \in Len(manifest)+1..Len(doc),
               NEW r, r = [dir |-> Dir(doc[j]), identity |-> Identity(doc[j])]
        PROVE  /\ r.identity = [hash |-> r.identity.hash, vk |-> r.identity.vk]
               /\ \A i \in 1..Len(doc) :
                    Dir(doc[i]) = r.dir => HashIn(disk, doc[i]) = r.identity.hash
    <3>1. j \in 1..Len(doc)
      BY <1>n
    <3>2. /\ r.dir = Dir(doc[j])
          /\ r.identity = [hash |-> HashIn(disk, doc[j]), vk |-> FilesIn(disk, Dir(doc[j])).vk]
      BY <2>2, IdentityIs
    <3>3. \A i \in 1..Len(doc) : Dir(doc[i]) = r.dir => i = j
      BY <3>1, <3>2 DEF Lineage, UniqueDirs
    <3> QED BY <3>2, <3>3
  <2>3. IdentityShape'
    BY <2>1, <2>2 DEF Identities, IdentityShape
  <2>4. Agrees(disk', manifest') /\ VkLoaded(disk', manifest')
    BY <2>1 DEF Identities, DocSound
  <2>5. ASSUME ~torn
        PROVE  HashKept(disk', released', manifest') /\ HashLoaded(disk', manifest')
    <3>1. HashKept(disk, released, doc) /\ HashLoaded(disk, doc)
      BY <2>5 DEF Identities, DocSound
    <3>2. HashKept(disk, released', doc)
      BY <2>1, <2>2, <3>1 DEF HashKept
    <3> QED BY <2>1, <3>1, <3>2
  <2> QED BY <2>1, <2>3, <2>4, <2>5 DEF ManifestSound
<1>3. ASSUME NEW i \in DOMAIN manifest, NEW s \in Statuses, SetStatus(i, s)
      PROVE  ManifestSound' /\ IdentityShape'
  <2>1. /\ Len(manifest') = Len(manifest)
        /\ \A j \in 1..Len(manifest) :
             manifest'[j] = IF j = i THEN WithStatus(manifest[i], s) ELSE manifest[j]
    BY <1>3, <1>n, StatusReplaced DEF SetStatus, Shape, TypeOK
  <2>2. /\ UNCHANGED <<released, disk, torn, pc>> /\ Verifiable(manifest[i])
    BY <1>3 DEF SetStatus, Verifiable, freezer
  <2>3. \A j \in 1..Len(manifest) :
          /\ Dir(manifest'[j]) = Dir(manifest[j])
          /\ manifest'[j].hash = manifest[j].hash
          /\ Verifiable(manifest'[j]) => Verifiable(manifest[j])
    BY <2>1, <2>2 DEF Dir, WithStatus
  <2>4. Agrees(disk', manifest') /\ VkLoaded(disk', manifest')
    BY <2>1, <2>2, <2>3, SoundEntries, SoundKeys DEF Identities, ManifestSound
  <2>5. ~torn /\ ~Reconciling => /\ HashKept(disk', released', manifest')
                                 /\ HashLoaded(disk', manifest')
    BY <2>1, <2>2, <2>3, SoundEntries DEF Identities, ManifestSound
  <2>6. IdentityShape'
    BY <2>2 DEF Identities, IdentityShape
  <2> QED BY <2>2, <2>4, <2>5, <2>6 DEF ManifestSound, Reconciling
<1> QED BY <1>1, <1>2, <1>3, ManifestSteps

LEMMA MintingSteps ==
  ASSUME [Next]_vars, Minting'
  PROVE  Supersede \/ MintFirst \/ WriteBytecode \/ WriteAbi \/ UNCHANGED vars
<1>1. CASE \/ SkipDropped \/ SkipUnchanged \/ InstallVk
           \/ CheckCircuit \/ CompileFails \/ Refuse \/ BbFails \/ WriteManifest
           \/ KeepArtifacts \/ DropBytecode \/ DropAbi \/ DropVk
           \/ CheckPanics \/ ReportCheck \/ Crash
           \/ StartCheck \/ \E f \in Flags \ {"check"} : Start(f)
  BY <1>1 DEF SkipDropped, SkipUnchanged, InstallVk, Advance, CheckCircuit,
     CompileFails, Refuse, BbFails, WriteManifest, KeepArtifacts, DropBytecode,
     Retired, DropAbi, DropVk, CheckPanics, ReportCheck, Crash, Start, StartCheck,
     Exit, Minting
<1>2. CASE \/ \E m \in Modules, acir \in Acirs, abi \in Abis : Edit(m, acir, abi)
           \/ \E m \in Modules : Drop(m)
           \/ UpgradeBb
           \/ \E i \in DOMAIN manifest, s \in Statuses : SetStatus(i, s)
           \/ \E c \in Chains, i \in DOMAIN manifest : Bind(c, i)
           \/ \E c \in Chains : \E b \in bindings[c] : Unbind(c, b)
  BY <1>2 DEF Edit, Drop, UpgradeBb, SetStatus, Bind, Unbind, freezer, Minting
<1> QED BY <1>1, <1>2 DEF Next

\* Every step keeps the directory that is being filled right so far.
LEMMA MintingStep ==
  ASSUME Shape, Lineage, Identities, [Next]_vars
  PROVE  OldPresent' /\ Filled'
<1>t. doc \in Entries /\ OneActive(doc) /\ Len(doc) \in Nat
  BY EntriesFacts DEF Shape, TypeOK
<1>1. CASE ~Minting'
  BY <1>1 DEF OldPresent, Filled, Minting
<1>2. CASE UNCHANGED vars
  BY <1>2 DEF Identities, OldPresent, Filled, Minting, vars, freezer
<1>3. CASE Supersede
  <2>1. /\ UNCHANGED <<doc, k, disk>> /\ pc' = "bytecode"
        /\ Active(Circuits[k], doc) # 0
        /\ FilesIn(disk, Dir(doc[Active(Circuits[k], doc)])).bytecode # None
    BY <1>3, FilesAre DEF Supersede
  <2>2. \A i \in 1..Len(doc) : doc[i].module = Circuits[k] /\ doc[i].status = "active"
           => i = Active(Circuits[k], doc)
    BY <1>t, ActiveIs
  <2> QED BY <2>1, <2>2 DEF OldPresent, Filled
<1>4. CASE MintFirst
  <2>1. /\ UNCHANGED <<doc, k, disk>> /\ pc' = "bytecode"
        /\ Active(Circuits[k], doc) = 0
    BY <1>4 DEF MintFirst
  <2>2. \A i \in 1..Len(doc) : doc[i].module = Circuits[k] /\ doc[i].status = "active"
           => i = Active(Circuits[k], doc)
    BY <1>t, ActiveIs
  <2>3. \A i \in 1..Len(doc) : ~(doc[i].module = Circuits[k] /\ doc[i].status = "active")
    BY <1>t, <2>1, <2>2
  <2> QED BY <2>1, <2>3 DEF OldPresent, Filled
<1>5. CASE WriteBytecode \/ WriteAbi
  <2> DEFINE m == Circuits[k]
             d == <<m, version>>
  <2>1. /\ UNCHANGED <<doc, k, source, version>> /\ Minting
        /\ ~DropBytecode
    BY <1>5 DEF WriteBytecode, WriteAbi, DropBytecode, Retired, environment, Minting
  <2>2. \A i \in 1..Len(doc) :
          FilesIn(disk', Dir(doc[i])).bytecode = FilesIn(disk, Dir(doc[i])).bytecode
    BY <2>1, BytecodeStays, FilesAre
  <2>3. OldPresent'
    BY <2>1, <2>2 DEF Identities, OldPresent
  <2>4. Filled'
    <3>1. CASE WriteBytecode
      <4>1. \A x : Files(x)' = IF x = d THEN [Files(d) EXCEPT !["bytecode"] = source[m].acir]
                               ELSE Files(x)
        BY <3>1, PutChanges DEF WriteBytecode
      <4>2. FilesIn(disk', d) = [Files(d) EXCEPT !["bytecode"] = source[m].acir]
        BY <4>1, FilesAre
      <4>3. FilesIn(disk', d).bytecode = source[m].acir
        BY <4>2, ShapeFiles, OtherFiles
      <4>4. pc' = "abi"
        BY <3>1 DEF WriteBytecode
      <4> QED BY <2>1, <4>3, <4>4 DEF Filled
    <3>2. CASE WriteAbi
      <4>1. \A x : Files(x)' = IF x = d THEN [Files(d) EXCEPT !["abi"] = source[m].abi]
                               ELSE Files(x)
        BY <3>2, PutChanges DEF WriteAbi
      <4>2. FilesIn(disk', d) = [Files(d) EXCEPT !["abi"] = source[m].abi]
        BY <4>1, FilesAre
      <4>3. /\ FilesIn(disk', d).bytecode = Files(d).bytecode
            /\ FilesIn(disk', d).abi = source[m].abi
        BY <4>2, ShapeFiles, OtherFiles
      <4>4. Files(d).bytecode = source[m].acir
        BY <3>2, FilesAre DEF WriteAbi, Identities, Filled
      <4> QED BY <2>1, <4>3, <4>4 DEF Filled
    <3> QED BY <1>5, <3>1, <3>2
  <2> QED BY <2>3, <2>4
<1> QED BY <1>1, <1>2, <1>3, <1>4, <1>5, MintingSteps

LEMMA IdentitiesStep ==
  Shape /\ Lineage /\ Keys /\ Identities /\ [Next]_vars => Identities'
BY DocSoundStep, ManifestSoundStep, MintingStep DEF Identities

\* The inductive invariant.
IInv == Shape /\ Lineage /\ Keys /\ Identities

\* The inductive invariant, from its four parts.
LEMMA IInvHolds == MayRetire = FALSE => (Spec => []IInv)
<1> SUFFICES ASSUME MayRetire = FALSE PROVE Spec => []IInv
  OBVIOUS
<1>1. Init => IInv
  BY ShapeInit, LineageInit, KeysInit, IdentitiesInit DEF IInv
<1>2. IInv /\ [Next]_vars => IInv'
  BY ShapeStep, LineageStep, KeysStep, IdentitiesStep DEF IInv
<1> QED BY <1>1, <1>2, PTL DEF Spec

LEMMA Immutable == IInv => ReleasesImmutable
<1> SUFFICES ASSUME IInv, pc = "idle", ~torn, NEW r \in released
             PROVE  \E i \in DOMAIN manifest :
                      /\ Dir(manifest[i]) = r.dir
                      /\ Verifiable(manifest[i]) => Identity(manifest[i]) = r.identity
                      /\ \A j \in DOMAIN manifest : Dir(manifest[j]) = r.dir => j = i
  BY DEF ReleasesImmutable
<1>n. DOMAIN manifest = 1..Len(manifest)
  BY EntriesFacts DEF IInv, Shape, TypeOK
<1>1. PICK i \in 1..Len(manifest) : Dir(manifest[i]) = r.dir
  BY DEF IInv, Keys, ReleasedListed
<1>2. \A j \in 1..Len(manifest) : Dir(manifest[j]) = r.dir => j = i
  BY <1>1 DEF IInv, Lineage, UniqueDirs
<1>3. ASSUME Verifiable(manifest[i]) PROVE Identity(manifest[i]) = r.identity
  <2>1. HashIn(disk, manifest[i]) = r.identity.hash
    BY <1>1, <1>3 DEF IInv, Identities, ManifestSound, Reconciling, HashKept
  <2>2. FilesIn(disk, Dir(manifest[i])).vk = r.identity.vk
    BY <1>1, <1>3, FilesAre DEF IInv, Keys, KeysKept
  <2>3. r.identity = [hash |-> r.identity.hash, vk |-> r.identity.vk]
    BY DEF IInv, Identities, IdentityShape
  <2> QED BY <2>1, <2>2, <2>3, IdentityIs
<1> QED BY <1>n, <1>1, <1>2, <1>3

\* A published version keeps its one entry, its hash and its key until it is revoked,
\* whatever later freezes mint, deprecate and remove (freeze, reconcile_artifacts).
THEOREM ReleasesImmutableHolds == MayRetire = FALSE => (Spec => []ReleasesImmutable)
BY IInvHolds, Immutable, PTL

-----------------------------------------------------------------------------
\* The crate builds.

\* Every binding is that of an entry that is not revoked.
Bound ==
  \A c \in Chains :
    /\ \A b \in bindings[c] : \E i \in 1..Len(manifest) :
         Verifiable(manifest[i]) /\ Dir(manifest[i]) = b
    /\ \A b1, b2 \in bindings[c] : b1[2] = b2[2] => b1 = b2

LEMMA BindingSteps ==
  ASSUME [Next]_vars
  PROVE  \/ bindings' = bindings
         \/ \E c \in Chains, i \in DOMAIN manifest : Bind(c, i)
         \/ \E c \in Chains : \E b \in bindings[c] : Unbind(c, b)
<1>1. CASE UNCHANGED vars
  BY <1>1 DEF vars
<1>2. CASE \/ \E f \in Flags \ {"check"} : Start(f)
           \/ SkipDropped \/ SkipUnchanged \/ CompileFails \/ Refuse \/ Supersede
           \/ MintFirst \/ WriteBytecode \/ WriteAbi \/ InstallVk \/ BbFails
           \/ KeepArtifacts \/ DropBytecode \/ DropAbi \/ DropVk \/ WriteManifest
           \/ StartCheck \/ CheckCircuit \/ CheckPanics \/ ReportCheck \/ Crash
  BY <1>2 DEF Start, SkipDropped, SkipUnchanged, CompileFails, Refuse, Supersede,
     MintFirst, WriteBytecode, WriteAbi, InstallVk, BbFails, KeepArtifacts,
     DropBytecode, DropAbi, DropVk, WriteManifest, StartCheck, CheckCircuit,
     CheckPanics, ReportCheck, Crash, environment
<1>3. CASE \/ \E m \in Modules, acir \in Acirs, abi \in Abis : Edit(m, acir, abi)
           \/ \E m \in Modules : Drop(m)
           \/ UpgradeBb
           \/ \E i \in DOMAIN manifest, s \in Statuses : SetStatus(i, s)
  BY <1>3 DEF Edit, Drop, UpgradeBb, SetStatus
<1> QED BY <1>1, <1>2, <1>3 DEF Next

LEMMA BoundInit == Init => Bound
BY DEF Init, Bound

\* Bind adds, and SetStatus never revokes, a version that is bound.
LEMMA BoundStep ==
  Shape /\ Lineage /\ Bound /\ [Next]_vars => Bound'
<1> SUFFICES ASSUME Shape, Lineage, Bound, [Next]_vars PROVE Bound'
  OBVIOUS
<1>n. /\ Len(doc) \in Nat /\ Len(manifest) \in Nat
      /\ DOMAIN doc = 1..Len(doc) /\ DOMAIN manifest = 1..Len(manifest)
  BY EntriesFacts DEF Shape, TypeOK
<1>b. bindings \in [Chains -> SUBSET (Modules \X Versions)]
  BY DEF Shape, TypeOK
<1>1. CASE bindings' = bindings /\ manifest' = manifest
  BY <1>1 DEF Bound
<1>2. CASE WriteManifest
  <2>1. manifest' = doc /\ bindings' = bindings /\ pc = "reconcile"
    BY <1>2 DEF WriteManifest, environment
  <2>2. \A i \in 1..Len(manifest) :
          /\ i \in 1..Len(doc) /\ Dir(doc[i]) = Dir(manifest[i])
          /\ Verifiable(manifest[i]) => Verifiable(doc[i])
    BY <2>1, <1>n DEF Lineage, DocExtends, Dir, Verifiable
  <2> QED BY <2>1, <2>2 DEF Bound
<1>3. ASSUME NEW i \in DOMAIN manifest, NEW s \in Statuses, SetStatus(i, s)
      PROVE  Bound'
  <2>1. /\ Len(manifest') = Len(manifest)
        /\ \A j \in 1..Len(manifest) :
             manifest'[j] = IF j = i THEN WithStatus(manifest[i], s) ELSE manifest[j]
    BY <1>3, <1>n, StatusReplaced DEF SetStatus, Shape, TypeOK
  <2>2. /\ bindings' = bindings
        /\ s = "revoked" => \A c \in Chains : Dir(manifest[i]) \notin bindings[c]
    BY <1>3 DEF SetStatus
  <2>3. \A j \in 1..Len(manifest) : Dir(manifest'[j]) = Dir(manifest[j])
    BY <2>1 DEF Dir, WithStatus
  <2>4. \A j \in 1..Len(manifest) :
          Verifiable(manifest[j]) => Verifiable(manifest'[j]) \/ (j = i /\ s = "revoked")
    BY <2>1 DEF Verifiable, WithStatus
  <2>5. ASSUME NEW c \in Chains, NEW b \in bindings[c]
        PROVE  \E j \in 1..Len(manifest) : Verifiable(manifest'[j]) /\ Dir(manifest'[j]) = b
    <3>1. PICK j \in 1..Len(manifest) : Verifiable(manifest[j]) /\ Dir(manifest[j]) = b
      BY DEF Bound
    <3> QED BY <2>2, <2>3, <2>4, <3>1
  <2> QED BY <2>1, <2>2, <2>5 DEF Bound
<1>4. ASSUME NEW c \in Chains, NEW i \in DOMAIN manifest, Bind(c, i) PROVE Bound'
  <2>1. /\ manifest' = manifest /\ Verifiable(manifest[i])
        /\ \A b \in bindings[c] : b[2] # manifest[i].version
        /\ bindings' = [bindings EXCEPT ![c] = @ \cup {Dir(manifest[i])}]
    BY <1>4 DEF Bind
  <2>2. Dir(manifest[i])[2] = manifest[i].version
    BY DEF Dir
  <2>3. \A x \in Chains : bindings'[x] =
          IF x = c THEN bindings[c] \cup {Dir(manifest[i])} ELSE bindings[x]
    BY <2>1, <1>b
  <2> QED BY <2>1, <2>2, <2>3, <1>n DEF Bound
<1>5. ASSUME NEW c \in Chains, NEW b \in bindings[c], Unbind(c, b) PROVE Bound'
  <2>1. manifest' = manifest /\ bindings' = [bindings EXCEPT ![c] = @ \ {b}]
    BY <1>5 DEF Unbind
  <2>2. \A x \in Chains : bindings'[x] \subseteq bindings[x]
    BY <2>1, <1>b
  <2> QED BY <2>1, <2>2 DEF Bound
<1>6. CASE bindings' = bindings
  BY <1>1, <1>2, <1>3, <1>6, ManifestSteps
<1> QED BY <1>4, <1>5, <1>6, BindingSteps

LEMMA Building == IInv /\ Bound => BuildAlwaysWorks
<1> SUFFICES ASSUME IInv, Bound, pc = "idle", ~torn PROVE Builds
  BY DEF BuildAlwaysWorks
<1>n. \A e \in Range(manifest) : \E i \in 1..Len(manifest) : e = manifest[i]
  BY EntriesFacts DEF IInv, Shape, TypeOK, Range
<1>r. \A i \in 1..Len(manifest) : manifest[i] \in Range(manifest)
  BY EntriesFacts DEF IInv, Shape, TypeOK, Range
<1>1. ASSUME NEW e \in Range(manifest), Verifiable(e) PROVE Loads(e)
  <2>1. PICK i \in 1..Len(manifest) : e = manifest[i]
    BY <1>n
  <2>2. HashIn(disk, e) # None
    BY <1>1, <2>1 DEF IInv, Identities, ManifestSound, Reconciling, HashLoaded
  <2>3. FilesIn(disk, Dir(e)).vk # None
    BY <1>1, <2>1 DEF IInv, Identities, ManifestSound, VkLoaded
  <2>4. Identity(e).hash = HashIn(disk, e) /\ Identity(e).vk = FilesIn(disk, Dir(e)).vk
    BY IdentityIs
  <2> QED BY <2>2, <2>3, <2>4 DEF Loads
<1>2. ASSUME NEW c \in Chains PROVE Resolves(c)
  <2>1. ASSUME NEW b \in bindings[c]
        PROVE  \E e \in Range(manifest) : Verifiable(e) /\ Dir(e) = b
    BY <1>r DEF Bound
  <2> QED BY <2>1 DEF Bound, Resolves
<1> QED BY <1>1, <1>2 DEF Builds

\* Between freezes the crate builds: build.rs finds a hash and a key for every entry
\* that is not revoked and resolves every L2 binding (load_circuits).
THEOREM BuildAlwaysWorksHolds == MayRetire = FALSE => (Spec => []BuildAlwaysWorks)
<1> SUFFICES ASSUME MayRetire = FALSE PROVE Spec => []BuildAlwaysWorks
  OBVIOUS
<1>1. IInv /\ Bound /\ [Next]_vars => Bound'
  BY BoundStep DEF IInv
<1> QED BY <1>1, BoundInit, IInvHolds, Building, PTL DEF Spec

-----------------------------------------------------------------------------
\* A finished freeze leaves the head of every circuit in step with its source.

\* The files of an entry are what its circuit compiles to.
Compiled(dk, e, src) ==
  /\ FilesIn(dk, Dir(e)).bytecode = src[e.module].acir
  /\ FilesIn(dk, Dir(e)).abi = src[e.module].abi

\* The active entry of a module is what the source compiles to.
InStep(es, dk, src, m) ==
  \E i \in 1..Len(es) :
    es[i].module = m /\ es[i].status = "active" /\ Compiled(dk, es[i], src)

\* The freeze is through with the circuits before k, or with all of them.
Through ==
  /\ pc = "compile" \/ Minting => \A n \in 1..k-1 :
       Circuits[n] \in vendored => InStep(doc, disk, source, Circuits[n])
  /\ Reconciling => \A m \in vendored : InStep(doc, disk, source, m)

LEMMA EditsAreIdle ==
  ASSUME \/ \E m \in Modules, acir \in Acirs, abi \in Abis : Edit(m, acir, abi)
         \/ \E m \in Modules : Drop(m)
         \/ UpgradeBb
         \/ \E i \in DOMAIN manifest, s \in Statuses : SetStatus(i, s)
         \/ \E c \in Chains, i \in DOMAIN manifest : Bind(c, i)
         \/ \E c \in Chains : \E b \in bindings[c] : Unbind(c, b)
  PROVE  pc = "idle" /\ pc' = "idle"
BY DEF Edit, Drop, UpgradeBb, SetStatus, Bind, Unbind, freezer

\* An entry stays compiled when its directory is written by nobody.
LEMMA CompiledStays ==
  ASSUME Shape, Lineage, [Next]_vars, ~InstallVk,
         NEW i \in 1..Len(doc), doc[i].status = "active"
  PROVE  FilesIn(disk', Dir(doc[i])) = FilesIn(disk, Dir(doc[i]))
<1>1. CASE Filling
  BY <1>1, FillingIs, FreshDirectory, FilesAre
<1>2. CASE Dropping
  <2>1. /\ k \in 1..Len(doc) /\ doc[k].status # "active"
        /\ \A d : d # Dir(doc[k]) => Files(d)' = Files(d)
    BY <1>2, DroppingIs
  <2>2. Dir(doc[i]) # Dir(doc[k])
    BY <2>1 DEF Lineage, UniqueDirs
  <2> QED BY <2>1, <2>2, FilesAre
<1>3. CASE disk' = disk
  BY <1>3
<1> QED BY <1>1, <1>2, <1>3, DiskSteps

LEMMA InStepStays ==
  ASSUME Shape, Lineage, [Next]_vars, ~InstallVk, doc' = doc \/ DropBytecode,
         NEW m, InStep(doc, disk, source, m)
  PROVE  InStep(doc', disk', source, m)
<1>1. PICK i \in 1..Len(doc) :
        doc[i].module = m /\ doc[i].status = "active" /\ Compiled(disk, doc[i], source)
  BY DEF InStep
<1>2. FilesIn(disk', Dir(doc[i])) = FilesIn(disk, Dir(doc[i]))
  BY <1>1, CompiledStays
<1>3. /\ Len(doc') = Len(doc) /\ doc'[i].module = doc[i].module
      /\ doc'[i].status = doc[i].status /\ Dir(doc'[i]) = Dir(doc[i])
  <2>1. CASE doc' = doc
    BY <2>1
  <2>2. CASE DropBytecode
    BY <2>2, DropBytecodeIs
  <2> QED BY <2>1, <2>2
<1> QED BY <1>1, <1>2, <1>3 DEF InStep, Compiled

\* A new entry is in step, and the others stay so.
LEMMA InstallVkInStep ==
  ASSUME Shape, Lineage, Identities, [Next]_vars, InstallVk
  PROVE  /\ InStep(doc', disk', source, Circuits[k])
         /\ \A m : InStep(doc, disk, source, m) => InStep(doc', disk', source, m)
<1> DEFINE n == Len(doc) + 1
           d == <<Circuits[k], version>>
           a == Active(Circuits[k], doc)
<1>1. /\ pc = "vk" /\ Len(doc') = n /\ doc'[n] = NewEntry(Circuits[k], version)
      /\ \A i \in 1..Len(doc) : i # a => doc'[i] = doc[i]
  BY InstallVkIs
<1>2. Minting /\ Len(doc) \in Nat
  BY <1>1, EntriesFacts DEF Minting, Shape, TypeOK
<1>3. \A i \in 1..Len(doc) : Dir(doc[i]) # d
  BY <1>2, FreshDirectory
<1>4. \A x : Files(x)' = IF x = d
                THEN [Files(d) EXCEPT !["vk"] = VkOf(source[Circuits[k]].acir)]
                ELSE Files(x)
  BY PutChanges DEF InstallVk
<1>5. /\ FilesIn(disk', d).bytecode = FilesIn(disk, d).bytecode
      /\ FilesIn(disk', d).abi = FilesIn(disk, d).abi
      /\ \A x : x # d => FilesIn(disk', x) = FilesIn(disk, x)
  <2>1. FilesIn(disk', d) = [Files(d) EXCEPT !["vk"] = VkOf(source[Circuits[k]].acir)]
    BY <1>4, FilesAre
  <2>2. /\ FilesIn(disk', d).bytecode = Files(d).bytecode
        /\ FilesIn(disk', d).abi = Files(d).abi
    BY <2>1, ShapeFiles, OtherFiles
  <2>3. \A x : x # d => FilesIn(disk', x) = FilesIn(disk, x)
    BY <1>4, FilesAre
  <2> QED BY <2>2, <2>3, FilesAre
<1>6. /\ FilesIn(disk, d).bytecode = source[Circuits[k]].acir
      /\ FilesIn(disk, d).abi = source[Circuits[k]].abi
  BY <1>1 DEF Identities, Filled
<1>7. /\ doc'[n].module = Circuits[k] /\ doc'[n].status = "active"
      /\ Dir(doc'[n]) = d
  BY <1>1 DEF NewEntry, Dir
<1>8. n \in 1..n /\ \A i \in 1..Len(doc) : i \in 1..n
  BY <1>2
<1> HIDE DEF d
<1>9. InStep(doc', disk', source, Circuits[k])
  BY <1>1, <1>5, <1>6, <1>7, <1>8 DEF InStep, Compiled
<1>10. ASSUME NEW m, InStep(doc, disk, source, m)
       PROVE  InStep(doc', disk', source, m)
  <2>1. PICK i \in 1..Len(doc) :
          doc[i].module = m /\ doc[i].status = "active" /\ Compiled(disk, doc[i], source)
    BY <1>10 DEF InStep
  <2>2. CASE i = a
    <3>1. doc[a].module = Circuits[k]
      <4>1. doc \in Entries /\ OneActive(doc)
        BY DEF Shape, TypeOK
      <4>2. a # 0
        BY <1>2, <2>2
      <4> QED BY <4>1, <4>2, ActiveIs
    <3> QED BY <1>9, <2>1, <2>2, <3>1
  <2>3. CASE i # a
    <3>1. doc'[i] = doc[i] /\ FilesIn(disk', Dir(doc[i])) = FilesIn(disk, Dir(doc[i]))
      BY <1>1, <1>3, <1>5, <2>3
    <3>2. i \in 1..Len(doc')
      BY <1>1, <1>8
    <3> QED BY <2>1, <3>1, <3>2 DEF InStep, Compiled
  <2> QED BY <2>2, <2>3
<1> QED BY <1>9, <1>10

LEMMA AdvanceThrough ==
  ASSUME k \in 1..Len(Circuits), Advance, UNCHANGED <<source, vendored>>,
         vendored \subseteq Modules,
         \A n \in 1..k : Circuits[n] \in vendored => InStep(doc', disk', source, Circuits[n])
  PROVE  Through'
<1>n. Len(Circuits) \in Nat
  BY CircuitsAreModules
<1>1. CASE k < Len(Circuits)
  <2>1. pc' = "compile" /\ k' = k + 1
    BY <1>1 DEF Advance
  <2>2. \A n \in 1..k'-1 : n \in 1..k
    BY <1>n, <2>1
  <2> QED BY <2>1, <2>2 DEF Through, Reconciling, Minting
<1>2. CASE ~(k < Len(Circuits))
  <2>1. pc' = "reconcile"
    BY <1>2 DEF Advance
  <2>2. \A m \in vendored : \E n \in 1..k : m = Circuits[n]
    BY <1>2, <1>n, CircuitsAreModules
  <2>3. \A m \in vendored : InStep(doc', disk', source, m)
    BY <2>2
  <2> QED BY <2>1, <2>3 DEF Through, Reconciling, Minting
<1> QED BY <1>1, <1>2

LEMMA ThroughInit == Init => Through
BY DEF Init, Through, Minting, Reconciling

\* A freeze that moves on leaves the circuits behind it in step with their source.
LEMMA ThroughStep ==
  Shape /\ Lineage /\ Identities /\ Through /\ [Next]_vars => Through'
<1> SUFFICES ASSUME Shape, Lineage, Identities, Through, [Next]_vars PROVE Through'
  OBVIOUS
<1>t. /\ doc \in Entries /\ OneActive(doc) /\ vendored \subseteq Modules
      /\ Len(doc) \in Nat /\ Len(Circuits) \in Nat
  BY EntriesFacts, CircuitsAreModules DEF Shape, TypeOK
<1>1. CASE UNCHANGED vars
  BY <1>1 DEF Through, Minting, Reconciling, vars, freezer
<1>2. CASE pc' \in {"idle", "check"}
  BY <1>2 DEF Through, Minting, Reconciling
<1>3. ASSUME NEW f \in Flags, Start(f) PROVE Through'
  <2>1. pc' = "compile" /\ k' = 1
    BY <1>3 DEF Start
  <2>2. \A n \in 1..k'-1 : FALSE
    BY <2>1
  <2> QED BY <2>1, <2>2 DEF Through, Reconciling, Minting
<1>4. CASE SkipDropped \/ SkipUnchanged
  <2>1. /\ pc = "compile" /\ Advance /\ UNCHANGED <<source, vendored, doc, disk>>
        /\ k \in 1..Len(Circuits)
    BY <1>4 DEF SkipDropped, SkipUnchanged, environment, Shape, PcOK
  <2>2. Circuits[k] \in vendored => InStep(doc, disk, source, Circuits[k])
    <3>1. CASE SkipDropped
      BY <3>1 DEF SkipDropped
    <3>2. CASE SkipUnchanged
      <4> DEFINE a == Active(Circuits[k], doc)
      <4>1. /\ a # 0
            /\ Files(Dir(doc[a])).bytecode = source[Circuits[k]].acir
            /\ Files(Dir(doc[a])).abi = source[Circuits[k]].abi
        BY <3>2 DEF SkipUnchanged, AcirDiffers, AbiDiffers
      <4>2. a \in 1..Len(doc) /\ doc[a].module = Circuits[k] /\ doc[a].status = "active"
        BY <1>t, <4>1, ActiveIs
      <4> HIDE DEF a
      <4> QED BY <4>1, <4>2, FilesAre DEF InStep, Compiled
    <3> QED BY <1>4, <3>1, <3>2
  <2>3. \A n \in 1..k-1 : Circuits[n] \in vendored => InStep(doc, disk, source, Circuits[n])
    BY <2>1 DEF Through
  <2>4. \A n \in 1..k : n = k \/ n \in 1..k-1
    BY <2>1, <1>t
  <2>5. \A n \in 1..k : Circuits[n] \in vendored => InStep(doc, disk, source, Circuits[n])
    BY <2>2, <2>3, <2>4
  <2> QED BY <1>t, <2>1, <2>5, AdvanceThrough
<1>5. CASE Supersede \/ MintFirst
  <2>1. /\ pc = "compile" /\ pc' = "bytecode"
        /\ UNCHANGED <<source, vendored, doc, disk, k>>
    BY <1>5 DEF Supersede, MintFirst, environment
  <2> QED BY <2>1 DEF Through, Minting, Reconciling
<1>6. CASE WriteBytecode \/ WriteAbi
  <2>1. /\ Minting /\ pc' \in {"abi", "vk"} /\ ~InstallVk
        /\ UNCHANGED <<source, vendored, doc, k>>
    BY <1>6 DEF WriteBytecode, WriteAbi, InstallVk, Minting, environment
  <2>2. \A n \in 1..k-1 : Circuits[n] \in vendored
           => InStep(doc', disk', source, Circuits[n])
    BY <2>1, InStepStays DEF Through
  <2> QED BY <2>1, <2>2 DEF Through, Reconciling
<1>7. CASE InstallVk
  <2>1. /\ Advance /\ UNCHANGED <<source, vendored>> /\ k \in 1..Len(Circuits)
        /\ Minting
    BY <1>7 DEF InstallVk, environment, Shape, PcOK, Minting
  <2>2. /\ InStep(doc', disk', source, Circuits[k])
        /\ \A m : InStep(doc, disk, source, m) => InStep(doc', disk', source, m)
    BY <1>7, InstallVkInStep
  <2>3. \A n \in 1..k-1 : Circuits[n] \in vendored => InStep(doc, disk, source, Circuits[n])
    BY <2>1 DEF Through
  <2>4. \A n \in 1..k : n = k \/ n \in 1..k-1
    BY <2>1, <1>t
  <2>5. \A n \in 1..k : Circuits[n] \in vendored => InStep(doc', disk', source, Circuits[n])
    BY <2>2, <2>3, <2>4
  <2> QED BY <1>t, <2>1, <2>5, AdvanceThrough
<1>8. CASE KeepArtifacts \/ DropBytecode \/ DropAbi \/ DropVk
  <2>1. /\ Reconciling /\ Reconciling' /\ ~InstallVk
        /\ UNCHANGED <<source, vendored>> /\ (doc' = doc \/ DropBytecode)
    BY <1>8 DEF KeepArtifacts, DropBytecode, Retired, DropAbi, DropVk, InstallVk,
       Reconciling, environment
  <2>2. \A m \in vendored : InStep(doc', disk', source, m)
    BY <2>1, InStepStays DEF Through
  <2> QED BY <2>1, <2>2 DEF Through, Reconciling, Minting
<1>9. ASSUME \/ CompileFails \/ Refuse \/ BbFails \/ WriteManifest \/ Crash
             \/ StartCheck \/ CheckCircuit \/ CheckPanics \/ ReportCheck
      PROVE  Through'
  <2>1. pc' \in {"idle", "check"}
    BY <1>9 DEF CompileFails, Refuse, BbFails, WriteManifest, Crash, StartCheck,
       CheckCircuit, CheckPanics, ReportCheck, Exit
  <2> QED BY <1>2, <2>1
<1>10. ASSUME \/ \E m \in Modules, acir \in Acirs, abi \in Abis : Edit(m, acir, abi)
              \/ \E m \in Modules : Drop(m)
              \/ UpgradeBb
              \/ \E i \in DOMAIN manifest, s \in Statuses : SetStatus(i, s)
              \/ \E c \in Chains, i \in DOMAIN manifest : Bind(c, i)
              \/ \E c \in Chains : \E b \in bindings[c] : Unbind(c, b)
       PROVE  Through'
  BY <1>2, <1>10, EditsAreIdle
<1> QED BY <1>1, <1>3, <1>4, <1>5, <1>6, <1>7, <1>8, <1>9, <1>10 DEF Next

\* An active entry with its artifacts is the head of its module.
HeadsAre ==
  \A i \in 1..Len(manifest) : \A m :
    /\ m = manifest[i].module /\ manifest[i].status = "active"
    /\ FilesIn(disk, Dir(manifest[i])).bytecode # None
    /\ FilesIn(disk, Dir(manifest[i])).abi # None
    => Heads(m) = {manifest[i]}

LEMMA HeadIs == Shape => HeadsAre
<1> SUFFICES ASSUME Shape, NEW i \in 1..Len(manifest), manifest[i].status = "active",
                    FilesIn(disk, Dir(manifest[i])).bytecode # None,
                    FilesIn(disk, Dir(manifest[i])).abi # None
             PROVE  Heads(manifest[i].module) = {manifest[i]}
  BY DEF HeadsAre
<1> DEFINE m == manifest[i].module
           provable == {e \in Range(manifest) :
             /\ e.module = m /\ e.status = "active"
             /\ Files(Dir(e)).bytecode # None /\ Files(Dir(e)).abi # None}
<1>1. DOMAIN manifest = 1..Len(manifest) /\ manifest[i] \in Entry
  BY EntriesFacts DEF Shape, TypeOK
<1>2. provable = {manifest[i]}
  <2>1. manifest[i] \in provable
    BY <1>1, FilesAre DEF Range
  <2>2. ASSUME NEW e \in provable PROVE e = manifest[i]
    <3>1. PICK j \in 1..Len(manifest) : e = manifest[j]
      BY <1>1 DEF Range
    <3> QED BY <3>1 DEF Shape, OneActive
  <2> QED BY <2>1, <2>2
<1>3. ~Newer(manifest[i].version, manifest[i].version)
  BY <1>1, EntryFacts, NotNewerThanSelf
<1>4. Heads(m) = {e \in provable : \A f \in provable : ~Newer(f.version, e.version)}
  BY DEF Heads
<1> HIDE DEF provable
<1> QED BY <1>2, <1>3, <1>4

\* A freeze that finishes leaves every circuit of the tree with one head, and it is
\* what the source compiles to (freeze, and the heads of build.rs).
THEOREM HeadIsSourceHolds == MayRetire = FALSE => (Spec => HeadIsSource)
<1> SUFFICES ASSUME MayRetire = FALSE PROVE Spec => HeadIsSource
  OBVIOUS
<1>1. IInv /\ Through /\ [Next]_vars => Through'
  BY ThroughStep DEF IInv
<1>2. ASSUME IInv, Through, IInv', HeadsAre', [Next]_vars, WriteManifest
      PROVE  \A m \in vendored' :
               /\ \E e \in Range(manifest') :
                     /\ Heads(m)' = {e}
                     /\ disk'[Dir(e)].bytecode = source'[m].acir
                     /\ disk'[Dir(e)].abi = source'[m].abi
  <2>1. /\ manifest' = doc /\ pc = "reconcile" /\ UNCHANGED <<disk, source, vendored>>
    BY <1>2 DEF WriteManifest, environment
  <2>t. /\ doc \in Entries /\ DOMAIN doc = 1..Len(doc) /\ vendored \subseteq Modules
        /\ source \in [Modules -> [acir : Acirs, abi : Abis]]
    BY <1>2, EntriesFacts DEF IInv, Shape, TypeOK
  <2> SUFFICES ASSUME NEW m \in vendored
               PROVE  \E e \in Range(manifest') :
                        /\ Heads(m)' = {e}
                        /\ disk'[Dir(e)].bytecode = source'[m].acir
                        /\ disk'[Dir(e)].abi = source'[m].abi
    BY <2>1
  <2>2. PICK i \in 1..Len(doc) :
          doc[i].module = m /\ doc[i].status = "active" /\ Compiled(disk, doc[i], source)
    BY <1>2, <2>1 DEF Through, Reconciling, InStep
  <2>3. source[m].acir # None /\ source[m].abi # None
    <3>1. source[m].acir \in Acirs /\ source[m].abi \in Abis
      BY <2>t
    <3> QED BY <3>1, FreezeAssumption
  <2>4. /\ FilesIn(disk, Dir(doc[i])).bytecode = source[m].acir
        /\ FilesIn(disk, Dir(doc[i])).abi = source[m].abi
    BY <2>2 DEF Compiled
  <2>5. Dir(doc[i]) \in DOMAIN disk
    BY <2>3, <2>4 DEF FilesIn, NoFiles
  <2>6. Heads(m)' = {doc[i]}
    BY <1>2, <2>1, <2>2, <2>3, <2>4 DEF HeadsAre
  <2>7. doc[i] \in Range(manifest')
    BY <2>1, <2>t DEF Range
  <2>8. disk'[Dir(doc[i])] = FilesIn(disk, Dir(doc[i]))
    BY <2>1, <2>5 DEF FilesIn
  <2> QED BY <2>1, <2>4, <2>6, <2>7, <2>8
<1>3. IInv => HeadsAre
  BY HeadIs DEF IInv
<1>4. IInv /\ Through /\ IInv' /\ HeadsAre' /\ [Next]_vars =>
        [WriteManifest => \A m \in vendored' :
          /\ \E e \in Range(manifest') :
                /\ Heads(m)' = {e}
                /\ disk'[Dir(e)].bytecode = source'[m].acir
                /\ disk'[Dir(e)].abi = source'[m].abi]_vars
  BY <1>2
<1> QED BY <1>1, <1>3, <1>4, ThroughInit, IInvHolds, PTL DEF Spec, HeadIsSource

-----------------------------------------------------------------------------
\* A check that passed vouches for the circuits.

\* The files of an entry are what its circuit compiles to and bb derives from it.
Derived(dk, e, src, release) ==
  FilesIn(dk, Dir(e)) =
    [bytecode |-> src[e.module].acir, abi |-> src[e.module].abi,
     vk |-> <<src[e.module].acir, release>>]

\* The circuit has an active entry, in the file and in the freeze that runs, and
\* its files are derived from the source.
VouchedIn(m) ==
  \E i \in 1..Len(manifest) :
    /\ manifest[i].module = m /\ manifest[i].status = "active"
    /\ Derived(disk, manifest[i], source, bb)
    /\ pc # "idle" => doc[i].status = "active"

\* What a check has compared so far stays so.
Vouched ==
  /\ pc = "check" /\ verdict = "passing" => \A n \in 1..k-1 :
       Circuits[n] \in vendored => VouchedIn(Circuits[n])
  /\ verdict = "passed" =>
       pc # "check" /\ ~Minting /\ \A m \in vendored : VouchedIn(m)

LEMMA VouchedInit == Init => Vouched
BY DEF Init, Vouched, Minting

\* A circuit a freeze finds vouched for is skipped.
LEMMA VouchedSkips ==
  ASSUME Shape, Lineage, pc = "compile", VouchedIn(Circuits[k])
  PROVE  ~Supersede /\ ~MintFirst
<1> DEFINE m == Circuits[k]
           a == Active(m, doc)
<1>1. PICK i \in 1..Len(manifest) :
        /\ manifest[i].module = m /\ manifest[i].status = "active"
        /\ Derived(disk, manifest[i], source, bb) /\ doc[i].status = "active"
  BY DEF VouchedIn
<1>2. /\ Len(doc) \in Nat /\ Len(manifest) \in Nat /\ doc \in Entries /\ OneActive(doc)
  BY EntriesFacts DEF Shape, TypeOK
<1>3. i \in 1..Len(doc) /\ doc[i].module = m /\ Dir(doc[i]) = Dir(manifest[i])
  BY <1>1, <1>2 DEF Lineage, DocExtends, Dir
<1>4. i = a /\ a # 0
  BY <1>1, <1>2, <1>3, ActiveIs
<1>5. /\ FilesIn(disk, Dir(doc[a])).bytecode = source[m].acir
      /\ FilesIn(disk, Dir(doc[a])).abi = source[m].abi
  <2>1. FilesIn(disk, Dir(doc[i])) =
          [bytecode |-> source[m].acir, abi |-> source[m].abi,
           vk |-> <<source[m].acir, bb>>]
    BY <1>1, <1>3 DEF Derived
  <2>2. /\ FilesIn(disk, Dir(doc[i])).bytecode = source[m].acir
        /\ FilesIn(disk, Dir(doc[i])).abi = source[m].abi
    BY <2>1
  <2> QED BY <1>4, <2>2
<1>6. ~AcirDiffers(m) /\ ~AbiDiffers(m)
  BY <1>5, FilesAre DEF AcirDiffers, AbiDiffers
<1> QED BY <1>4, <1>6 DEF Supersede, MintFirst

\* What vouches for a circuit stays as long as no freeze fills a directory.
LEMMA VouchedStays ==
  ASSUME Shape, Lineage, [Next]_vars, ~Filling, UNCHANGED <<manifest, source, bb>>,
         \/ pc' = "idle"
         \/ pc = "idle" /\ doc' = manifest
         \/ pc # "idle" /\ (doc' = doc \/ DropBytecode),
         NEW m, VouchedIn(m)
  PROVE  VouchedIn(m)'
<1>1. PICK i \in 1..Len(manifest) :
        /\ manifest[i].module = m /\ manifest[i].status = "active"
        /\ Derived(disk, manifest[i], source, bb)
        /\ pc # "idle" => doc[i].status = "active"
  BY DEF VouchedIn
<1>2. Len(doc) \in Nat /\ Len(manifest) \in Nat
  BY EntriesFacts DEF Shape, TypeOK
<1>3. FilesIn(disk', Dir(manifest[i])) = FilesIn(disk, Dir(manifest[i]))
  <2>1. CASE Dropping
    <3>1. /\ pc # "idle" /\ k \in 1..Len(doc) /\ doc[k].status # "active"
          /\ \A d : d # Dir(doc[k]) => Files(d)' = Files(d)
      BY <2>1, DroppingIs
    <3>2. i \in 1..Len(doc) /\ Dir(doc[i]) = Dir(manifest[i])
      BY <1>2, <3>1 DEF Lineage, DocExtends, Dir
    <3>3. Dir(manifest[i]) # Dir(doc[k])
      BY <1>1, <3>1, <3>2 DEF Lineage, UniqueDirs
    <3> QED BY <3>1, <3>3, FilesAre
  <2>2. CASE disk' = disk
    BY <2>2
  <2> QED BY <2>1, <2>2, DiskSteps
<1>4. pc' # "idle" => doc'[i].status = "active"
  <2> SUFFICES ASSUME pc' # "idle" PROVE doc'[i].status = "active"
    OBVIOUS
  <2>1. CASE pc = "idle" /\ doc' = manifest
    BY <1>1, <2>1
  <2>2. CASE pc # "idle" /\ doc' = doc
    BY <1>1, <2>2
  <2>3. CASE pc # "idle" /\ DropBytecode
    <3>1. i \in 1..Len(doc)
      BY <1>2, <2>3 DEF Lineage, DocExtends
    <3>2. doc'[i].status = doc[i].status
      BY <2>3, <3>1, DropBytecodeIs
    <3> QED BY <1>1, <2>3, <3>2
  <2> QED BY <2>1, <2>2, <2>3
<1> QED BY <1>1, <1>3, <1>4 DEF VouchedIn, Derived

\* Every step keeps what the check found, or opens the verdict again.
LEMMA VouchedStep ==
  MayRetire = FALSE /\ Shape /\ Lineage /\ Vouched /\ [Next]_vars => Vouched'
<1> SUFFICES ASSUME MayRetire = FALSE, Shape, Lineage, Vouched, [Next]_vars PROVE Vouched'
  OBVIOUS
<1>n. /\ Len(doc) \in Nat /\ Len(manifest) \in Nat
      /\ DOMAIN doc = 1..Len(doc) /\ DOMAIN manifest = 1..Len(manifest)
      /\ doc \in Entries /\ manifest \in Entries /\ OneActive(doc)
      /\ vendored \subseteq Modules
  BY EntriesFacts DEF Shape, TypeOK
<1>1. CASE UNCHANGED vars
  BY <1>1 DEF Vouched, VouchedIn, Minting, vars, freezer, history
<1>2. CASE verdict' # "passed" /\ pc' # "check"
  BY <1>2 DEF Vouched
<1>3. ASSUME \/ \E f \in Flags : Start(f)
             \/ SkipDropped \/ SkipUnchanged
             \/ KeepArtifacts \/ DropBytecode \/ DropAbi \/ DropVk
      PROVE  Vouched'
  <2>1. /\ UNCHANGED <<vendored, manifest, source, bb, verdict>> /\ ~Filling
        /\ pc' \in {"compile", "reconcile", "drop abi", "drop vk"}
    BY <1>3 DEF Start, SkipDropped, SkipUnchanged, Advance, KeepArtifacts, DropBytecode,
       Retired, DropAbi, DropVk, Filling, WriteBytecode, WriteAbi, InstallVk,
       environment, history
  <2>2. \/ pc = "idle" /\ doc' = manifest
        \/ pc # "idle" /\ (doc' = doc \/ DropBytecode)
    BY <1>3 DEF Start, SkipDropped, SkipUnchanged, KeepArtifacts, DropAbi, DropVk,
       DropBytecode, Retired
  <2>3. ASSUME verdict = "passed", NEW m \in vendored PROVE VouchedIn(m)'
    BY <2>1, <2>2, <2>3, VouchedStays DEF Vouched
  <2> QED BY <2>1, <2>3 DEF Vouched, Minting
<1>4. CASE Supersede \/ MintFirst
  <2>1. /\ pc = "compile" /\ pc' = "bytecode" /\ Circuits[k] \in vendored
        /\ verdict' = verdict
    BY <1>4 DEF Supersede, MintFirst, history
  <2>2. verdict # "passed"
    BY <1>4, <2>1, VouchedSkips DEF Vouched
  <2> QED BY <1>2, <2>1, <2>2
<1>5. CASE Filling
  <2>1. Minting /\ verdict' = verdict /\ pc' # "check"
    BY <1>5 DEF Filling, WriteBytecode, WriteAbi, InstallVk, Advance, Minting, history
  <2> QED BY <1>2, <2>1 DEF Vouched
<1>6. CASE CompileFails \/ Refuse \/ BbFails \/ Crash
  <2>1. /\ UNCHANGED <<vendored, manifest, source, bb>> /\ disk' = disk
        /\ pc' = "idle" /\ verdict' \in {"open", verdict}
    BY <1>6 DEF CompileFails, Refuse, BbFails, Crash, Exit, environment, history
  <2>2. CASE Filling
    BY <1>5, <2>2
  <2>3. CASE ~Filling
    <3>1. ASSUME verdict = "passed", NEW m \in vendored PROVE VouchedIn(m)'
      BY <2>1, <2>3, <3>1, VouchedStays DEF Vouched
    <3> QED BY <2>1, <3>1 DEF Vouched, Minting
  <2> QED BY <2>2, <2>3
<1>7. CASE WriteManifest
  <2>1. /\ manifest' = doc /\ UNCHANGED <<vendored, source, bb, disk, verdict>>
        /\ pc' = "idle" /\ pc = "reconcile"
    BY <1>7 DEF WriteManifest, Exit, environment
  <2>2. ASSUME verdict = "passed", NEW m \in vendored PROVE VouchedIn(m)'
    <3>1. PICK i \in 1..Len(manifest) :
            /\ manifest[i].module = m /\ manifest[i].status = "active"
            /\ Derived(disk, manifest[i], source, bb) /\ doc[i].status = "active"
      BY <2>1, <2>2 DEF Vouched, VouchedIn
    <3>2. /\ i \in 1..Len(doc) /\ doc[i].module = m
          /\ Dir(doc[i]) = Dir(manifest[i])
      BY <1>n, <2>1, <3>1 DEF Lineage, DocExtends, Dir
    <3>3. Derived(disk, doc[i], source, bb)
      BY <3>1, <3>2 DEF Derived
    <3> QED BY <2>1, <3>1, <3>2, <3>3 DEF VouchedIn
  <2> QED BY <2>1, <2>2 DEF Vouched, Minting
<1>8. CASE StartCheck
  <2>1. verdict' = "passing" /\ k' = 1
    BY <1>8 DEF StartCheck
  <2>2. \A n \in 1..k'-1 : FALSE
    BY <2>1
  <2> QED BY <2>1, <2>2 DEF Vouched
<1>9. CASE CheckCircuit
  <2> DEFINE m == Circuits[k]
             a == Active(m, doc)
  <2>1. /\ pc = "check" /\ k' = k + 1 /\ pc' = pc
        /\ UNCHANGED <<vendored, manifest, source, bb, disk, doc>>
        /\ verdict' = "passing" =>
             verdict = "passing" /\ (m \in vendored => Reproduces(m))
        /\ verdict' \in {verdict, "failing"}
    BY <1>9 DEF CheckCircuit, environment
  <2>2. doc = manifest /\ k \in Nat /\ verdict # "passed"
    BY <2>1 DEF Shape, PcOK, TypeOK, Vouched
  <2>3. Reproduces(m) => VouchedIn(m)
    <3> SUFFICES ASSUME Reproduces(m) PROVE VouchedIn(m)
      OBVIOUS
    <3>1. a # 0 /\ Files(Dir(doc[a])) = [bytecode |-> source[m].acir, abi |-> source[m].abi,
                                         vk |-> <<source[m].acir, bb>>]
      BY DEF Reproduces, VkOf
    <3>2. a \in 1..Len(doc) /\ doc[a].module = m /\ doc[a].status = "active"
      BY <1>n, <3>1, ActiveIs
    <3>3. Derived(disk, doc[a], source, bb)
      BY <3>1, <3>2, FilesAre DEF Derived
    <3> HIDE DEF a
    <3> QED BY <2>2, <3>2, <3>3 DEF VouchedIn
  <2>4. \A x : VouchedIn(x) => VouchedIn(x)'
    BY <2>1 DEF VouchedIn
  <2>5. \A n \in 1..k'-1 : n = k \/ n \in 1..k-1
    BY <2>1, <2>2
  <2>6. ASSUME verdict' = "passing", NEW n \in 1..k'-1, Circuits[n] \in vendored
        PROVE  VouchedIn(Circuits[n])'
    <3>1. VouchedIn(Circuits[n])
      BY <2>1, <2>3, <2>5, <2>6 DEF Vouched
    <3> QED BY <2>4, <3>1
  <2> QED BY <2>1, <2>2, <2>6 DEF Vouched
<1>10. CASE CheckPanics
  BY <1>2, <1>10 DEF CheckPanics, Exit
<1>11. CASE ReportCheck
  <2>1. /\ pc = "check" /\ k = Len(Circuits) + 1 /\ pc' = "idle"
        /\ UNCHANGED <<vendored, manifest, source, bb, disk>>
        /\ verdict' = "passed" => verdict = "passing"
    BY <1>11 DEF ReportCheck, Exit, environment
  <2>2. ASSUME verdict' = "passed", NEW m \in vendored PROVE VouchedIn(m)'
    <3>1. PICK n \in 1..Len(Circuits) : m = Circuits[n]
      BY <1>n, CircuitsAreModules
    <3>2. n \in 1..k-1
      BY <2>1, CircuitsAreModules
    <3>3. VouchedIn(m)
      BY <2>1, <2>2, <3>1, <3>2 DEF Vouched
    <3> QED BY <2>1, <3>3 DEF VouchedIn
  <2> QED BY <2>1, <2>2 DEF Vouched, Minting
<1>12. ASSUME \/ \E m \in Modules, acir \in Acirs, abi \in Abis : Edit(m, acir, abi)
              \/ UpgradeBb
       PROVE  Vouched'
  <2>1. verdict' = "open" /\ pc' = "idle"
    BY <1>12 DEF Edit, UpgradeBb, freezer
  <2> QED BY <1>2, <2>1
<1>13. ASSUME \/ \E m \in Modules : Drop(m)
              \/ \E c \in Chains, i \in DOMAIN manifest : Bind(c, i)
              \/ \E c \in Chains : \E b \in bindings[c] : Unbind(c, b)
       PROVE  Vouched'
  <2>1. /\ UNCHANGED <<manifest, source, bb, disk, verdict>> /\ vendored' \subseteq vendored
        /\ pc' = "idle"
    BY <1>13 DEF Drop, Bind, Unbind, freezer, history
  <2>2. \A m : VouchedIn(m) => VouchedIn(m)'
    BY <2>1 DEF VouchedIn
  <2> QED BY <2>1, <2>2 DEF Vouched, Minting
<1>14. ASSUME NEW i \in DOMAIN manifest, NEW s \in Statuses, SetStatus(i, s)
       PROVE  Vouched'
  <2>1. /\ Len(manifest') = Len(manifest)
        /\ \A j \in 1..Len(manifest) :
             manifest'[j] = IF j = i THEN WithStatus(manifest[i], s) ELSE manifest[j]
    BY <1>14, <1>n, StatusReplaced DEF SetStatus
  <2>2. /\ UNCHANGED <<vendored, source, bb, disk>> /\ pc' = "idle"
        /\ ~(manifest[i].status = "active" /\ manifest[i].module \in vendored)
        /\ verdict' \in {"open", verdict}
    BY <1>14 DEF SetStatus, freezer
  <2>3. ASSUME verdict = "passed", NEW m \in vendored PROVE VouchedIn(m)'
    <3>1. PICK j \in 1..Len(manifest) :
            /\ manifest[j].module = m /\ manifest[j].status = "active"
            /\ Derived(disk, manifest[j], source, bb)
      BY <2>3 DEF Vouched, VouchedIn
    <3>2. manifest'[j] = manifest[j]
      BY <2>1, <2>2, <3>1
    <3> QED BY <2>1, <2>2, <3>1, <3>2 DEF VouchedIn
  <2> QED BY <2>2, <2>3 DEF Vouched, Minting
<1> QED BY <1>1, <1>3, <1>4, <1>5, <1>6, <1>7, <1>8, <1>9, <1>10, <1>11, <1>12, <1>13, <1>14
        DEF Next, Filling

LEMMA Vouching == Shape /\ HeadsAre /\ Vouched => CheckVouches
<1> SUFFICES ASSUME Shape, HeadsAre, Vouched, verdict = "passed", NEW m \in vendored
             PROVE  \E e \in Range(manifest) :
                      /\ Heads(m) = {e}
                      /\ disk[Dir(e)] = [bytecode |-> source[m].acir, abi |-> source[m].abi,
                                         vk |-> VkOf(source[m].acir)]
  BY DEF CheckVouches, Vouched, Minting
<1>1. PICK i \in 1..Len(manifest) :
        /\ manifest[i].module = m /\ manifest[i].status = "active"
        /\ Derived(disk, manifest[i], source, bb)
  BY DEF Vouched, VouchedIn
<1>2. FilesIn(disk, Dir(manifest[i])) =
        [bytecode |-> source[m].acir, abi |-> source[m].abi, vk |-> VkOf(source[m].acir)]
  BY <1>1 DEF Derived, VkOf
<1>3. source[m].acir # None /\ source[m].abi # None
  <2>1. source[m].acir \in Acirs /\ source[m].abi \in Abis
    BY DEF Shape, TypeOK
  <2> QED BY <2>1, FreezeAssumption
<1>4. /\ FilesIn(disk, Dir(manifest[i])).bytecode # None
      /\ FilesIn(disk, Dir(manifest[i])).abi # None
  BY <1>2, <1>3
<1>5. Heads(m) = {manifest[i]}
  BY <1>1, <1>4 DEF HeadsAre
<1>6. Dir(manifest[i]) \in DOMAIN disk
  BY <1>4 DEF FilesIn, NoFiles
<1>7. manifest[i] \in Range(manifest)
  BY EntriesFacts DEF Shape, TypeOK, Range
<1> QED BY <1>2, <1>5, <1>6, <1>7 DEF FilesIn

\* After a --check that passed, users prove with what the source compiles to and the
\* installed bb derives, through any freezes, until source, entry or bb changes.
THEOREM CheckVouchesHolds == MayRetire = FALSE => (Spec => []CheckVouches)
<1> SUFFICES ASSUME MayRetire = FALSE PROVE Spec => []CheckVouches
  OBVIOUS
<1>1. IInv /\ Vouched /\ [Next]_vars => Vouched'
  BY VouchedStep DEF IInv
<1>2. IInv /\ Vouched => CheckVouches
  BY HeadIs, Vouching DEF IInv
<1> QED BY <1>1, <1>2, VouchedInit, IInvHolds, PTL DEF Spec
=============================================================================
