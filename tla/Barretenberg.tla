---------------------------- MODULE Barretenberg ----------------------------
(***************************************************************************)
(* The process-global state behind the proving backend, and the threads    *)
(* that share it: bb's one-shot CRS and the size the backend remembers of  *)
(* it, the low-memory switch, the lock around every bb call, the memoized  *)
(* init_crs, and the G1 files a CRS is read from and cached in.            *)
(*                                                                         *)
(* bb itself is external: srs_init_srs takes effect once per process, may  *)
(* fail, and may panic before or after it took effect.                     *)
(***************************************************************************)
EXTENDS Integers

CONSTANTS
  Threads,
  Sizes,            \* G1 point counts a call may need
  CanonicalPoints,  \* CANONICAL_SRS_POINTS
  PreinitSizes,     \* the sizes preinit_srs is called with
  Pinned,           \* the sizes with a digest in PINNED_G1_SHA256
  Paths,            \* G1 files
  DefaultPath,      \* the file used unless set_srs_path chose another
  InitPaths,        \* the paths OUTBE_BB_SRS_PATH may name, NoPath if unset
  NoPath,
  WithNetwork,      \* the `with-network-srs` feature
  FilesChange,      \* whether other processes write, damage and remove files
  LoadPanics,       \* when srs_init_srs may panic: a subset of {"before", "after"}
  NoThread,
  MaxCalls          \* bound: calls begun in one life of the process

ASSUME SizesAssumption ==
  /\ Sizes \subseteq Nat \ {0}
  /\ CanonicalPoints \in Sizes
  /\ PreinitSizes \subseteq Sizes
ASSUME PathsAssumption ==
  /\ DefaultPath \in Paths
  /\ InitPaths \subseteq Paths \cup {NoPath}
  /\ NoPath \notin Paths
ASSUME ThreadsAssumption == NoThread \notin Threads
ASSUME CallsAssumption   == MaxCalls \in Nat /\ WithNetwork \in BOOLEAN

VARIABLES
  lock,      \* BB_LOCK: its holder, or NoThread
  points,    \* SRS_POINTS: 0 until set
  srsPath,   \* SRS_PATH_OVERRIDE
  init,      \* the OnceLock of init_crs: "unset", "running", "ok" or "failed"
  lowMem,    \* BB_SLOW_LOW_MEMORY
  crs,       \* bb's CRS: points (0 when none) and whether they are the real ones
  files,     \* the G1 files: points (0 when missing) and whether they are real
  pc, call,  \* each thread's place in the code, and the call it makes
  bytes,     \* the G1 bytes in each thread's hands: real or not
  calls      \* calls begun

process == <<lock, points, srsPath, init, lowMem, crs, pc, call, bytes, calls>>
vars    == <<process, files>>

NoCall == [op |-> "none", size |-> 0, low |-> FALSE, path |-> NoPath]
Call(op, size, low, path) == [op |-> op, size |-> size, low |-> low, path |-> path]

\* generate, verify, verify_combined, preinit_srs, init_crs, set_srs_path.
Calls ==
  {Call("prove", n, low, NoPath) : n \in Sizes, low \in BOOLEAN}
    \cup {Call("verify", n, FALSE, NoPath) : n \in Sizes}
    \cup {Call("verifyRaw", n, FALSE, NoPath) : n \in Sizes}
    \cup {Call("preinit", n, FALSE, NoPath) : n \in PreinitSizes}
    \cup {Call("init", CanonicalPoints, FALSE, p) : p \in InitPaths}
    \cup {Call("setPath", 0, FALSE, p) : p \in Paths \ {DefaultPath}}

G1Files == [points : Sizes, real : BOOLEAN] \cup {[points |-> 0, real |-> TRUE]}

\* Mutant: the canonical capacity is not reserved.
OwnNeed(c) == c.size

\* Mutant: the point after the domain is added twice.
OnePointMore(c) == c.size + 1

\* The points a call asks ensure_srs for: a circuit reserves at least what
\* every canonical circuit needs.
Need(c) ==
  IF c.op \in {"prove", "verify"} /\ c.size < CanonicalPoints
  THEN CanonicalPoints ELSE c.size

\* Mutant: no size is pinned.
AnyBytes(n, real) == TRUE

\* verify_g1: bytes of a pinned size must match, others pass with a warning.
VerifyG1(n, real) == n \in Pinned => real

Local(path) == IF path = NoPath THEN DefaultPath ELSE path

At(t, place)   == pc[t] = place
Goto(t, place) == pc' = [pc EXCEPT ![t] = place]

-----------------------------------------------------------------------------
\* Calls begin and end.

Entry(op) ==
  CASE op = "init"    -> "once"
    [] op = "setPath" -> "setPath"
    [] OTHER          -> "lock"

Begin(t, c) ==
  /\ At(t, "idle")
  /\ calls < MaxCalls
  /\ calls' = calls + 1
  /\ call'  = [call EXCEPT ![t] = c]
  /\ Goto(t, Entry(c.op))
  /\ UNCHANGED <<lock, points, srsPath, init, lowMem, crs, bytes, files>>

\* Mutant: an unwinding call leaves the lock poisoned for good.
ReturnPoisoned(t, ok) ==
  /\ Goto(t, "idle")
  /\ call'  = [call EXCEPT ![t] = NoCall]
  /\ bytes' = [bytes EXCEPT ![t] = TRUE]
  /\ lock'  = IF lock = t /\ ok THEN NoThread ELSE lock
  /\ init'  = IF call[t].op = "init" THEN IF ok THEN "ok" ELSE "failed"
              ELSE init

\* The call returns, with an error unless ok, or unwinds: either way its guard
\* is dropped, and the next lock() recovers the poison.  init_crs remembers
\* its outcome.
Return(t, ok) ==
  /\ Goto(t, "idle")
  /\ call'  = [call EXCEPT ![t] = NoCall]
  /\ bytes' = [bytes EXCEPT ![t] = TRUE]
  /\ lock'  = IF lock = t THEN NoThread ELSE lock
  /\ init'  = IF call[t].op = "init" THEN IF ok THEN "ok" ELSE "failed"
              ELSE init

\* A call fails.
Fail(t) == Return(t, FALSE) /\ UNCHANGED <<points, srsPath, lowMem, calls>>

\* set_srs_path: later sets are ignored.
SetPath(path) ==
  srsPath' = IF srsPath = NoPath THEN path ELSE srsPath

SetSrsPath(t) ==
  /\ At(t, "setPath")
  /\ SetPath(call[t].path)
  /\ Return(t, TRUE)
  /\ UNCHANGED <<points, lowMem, crs, calls, files>>

-----------------------------------------------------------------------------
\* init_crs: one caller runs the initialization, the others wait for it, and
\* its outcome, success or failure, is the answer to every call after.

EnterInit(t) ==
  /\ At(t, "once")
  /\ init = "unset"
  /\ init' = "running"
  /\ Goto(t, "initPath")
  /\ UNCHANGED <<lock, points, srsPath, lowMem, crs, call, bytes, calls, files>>

\* Mutant: whoever finds init_crs done takes it for a success.
JoinSuccess(t) ==
  /\ At(t, "once")
  /\ init \in {"ok", "failed"}
  /\ Return(t, TRUE)
  /\ UNCHANGED <<points, srsPath, lowMem, crs, calls, files>>

JoinInit(t) ==
  /\ At(t, "once")
  /\ init \in {"ok", "failed"}
  /\ Return(t, init = "ok")
  /\ UNCHANGED <<points, srsPath, lowMem, crs, calls, files>>

\* The path of the environment, without the lock; then preinit_srs.
SetInitPath(t) ==
  /\ At(t, "initPath")
  /\ IF call[t].path = NoPath THEN UNCHANGED srsPath ELSE SetPath(call[t].path)
  /\ Goto(t, "lock")
  /\ UNCHANGED <<lock, points, init, lowMem, crs, call, bytes, calls, files>>

-----------------------------------------------------------------------------
\* Under the lock.

\* Mutant: callers do not wait for each other.
Barge(t) ==
  /\ At(t, "lock")
  /\ lock' = t
  /\ Goto(t, IF call[t].op = "prove" THEN "configure"
             ELSE IF call[t].op = "verifyRaw" THEN "use" ELSE "ensure")
  /\ UNCHANGED <<points, srsPath, init, lowMem, crs, call, bytes, calls, files>>

Lock(t) ==
  /\ At(t, "lock")
  /\ lock = NoThread
  /\ lock' = t
  /\ Goto(t, IF call[t].op = "prove" THEN "configure"
             ELSE IF call[t].op = "verifyRaw" THEN "use" ELSE "ensure")
  /\ UNCHANGED <<points, srsPath, init, lowMem, crs, call, bytes, calls, files>>

\* Only proving sets the switch that every bb call reads.
ConfigureMemory(t) ==
  /\ At(t, "configure")
  /\ lowMem' = call[t].low
  /\ Goto(t, "ensure")
  /\ UNCHANGED <<lock, points, srsPath, init, crs, call, bytes, calls, files>>

\* The CRS is there: init_crs and preinit_srs are done, the others go on.
Ensured(t) ==
  IF call[t].op \in {"preinit", "init"}
  THEN Return(t, TRUE)
  ELSE Goto(t, "use") /\ UNCHANGED <<lock, init, call, bytes>>

\* Mutant: a recorded CRS is taken to be large enough.
EnsureAny(t) ==
  /\ At(t, "ensure")
  /\ IF points = 0 THEN Goto(t, "read") /\ UNCHANGED <<lock, init, call, bytes>>
     ELSE Ensured(t)
  /\ UNCHANGED <<points, srsPath, lowMem, crs, calls, files>>

\* ensure_srs, with the size circuit_stats gave; opening the api and asking for
\* that size may fail.
EnsureSrs(t) ==
  /\ At(t, "ensure")
  /\ \/ points = 0 /\ Goto(t, "read") /\ UNCHANGED <<lock, init, call, bytes>>
     \/ points # 0 /\ Need(call[t]) <= points /\ Ensured(t)
     \/ points # 0 /\ Need(call[t]) > points /\ Return(t, FALSE)
     \/ Return(t, FALSE)
  /\ UNCHANGED <<points, srsPath, lowMem, crs, calls, files>>

\* Mutant: the bytes of the cache are trusted.
ReadLocalUnverified(t) ==
  /\ At(t, "read")
  /\ LET file == files[Local(srsPath)]
     IN IF file.points >= Need(call[t])
        THEN /\ bytes' = [bytes EXCEPT ![t] = file.real]
             /\ Goto(t, "load")
             /\ UNCHANGED <<lock, init, call>>
        ELSE Goto(t, "download") /\ UNCHANGED <<lock, init, call, bytes>>
  /\ UNCHANGED <<points, srsPath, lowMem, crs, calls, files>>

\* local_g1, and verify_g1 on what it read: a file that is missing or short
\* falls through to the network, one that does not match is an error.
ReadLocal(t) ==
  /\ At(t, "read")
  /\ LET file == files[Local(srsPath)]
         n    == Need(call[t])
     IN \/ /\ file.points >= n
           /\ VerifyG1(n, file.real)
           /\ bytes' = [bytes EXCEPT ![t] = file.real]
           /\ Goto(t, "load")
           /\ UNCHANGED <<lock, init, call>>
        \/ file.points >= n /\ ~VerifyG1(n, file.real) /\ Return(t, FALSE)
        \/ file.points < n /\ ~WithNetwork /\ Return(t, FALSE)
        \/ /\ file.points < n
           /\ WithNetwork
           /\ Goto(t, "download")
           /\ UNCHANGED <<lock, init, call, bytes>>
  /\ UNCHANGED <<points, srsPath, lowMem, crs, calls, files>>

\* net_g1, and verify_g1 on the body, which need not be the CRS at all.
Download(t) ==
  /\ At(t, "download")
  /\ \/ \E real \in BOOLEAN :
          /\ VerifyG1(Need(call[t]), real)
          /\ bytes' = [bytes EXCEPT ![t] = real]
          /\ Goto(t, "cache")
          /\ UNCHANGED <<lock, init, call>>
     \/ Return(t, FALSE)
  /\ UNCHANGED <<points, srsPath, lowMem, crs, calls, files>>

\* cache_g1 asks for the path again; a failed write is ignored.
CacheG1(t) ==
  /\ At(t, "cache")
  /\ \/ files' = [files EXCEPT ![Local(srsPath)] =
                    [points |-> Need(call[t]), real |-> bytes[t]]]
     \/ UNCHANGED files
  /\ Goto(t, "load")
  /\ UNCHANGED <<lock, points, srsPath, init, lowMem, crs, call, bytes, calls>>

\* What srs_init_srs leaves behind when it takes effect.
Loaded(t) ==
  IF crs.points = 0 THEN [points |-> Need(call[t]), real |-> bytes[t]] ELSE crs

LoadCrs(t) ==
  /\ At(t, "load")
  /\ \/ crs' = Loaded(t) /\ Goto(t, "record") /\ UNCHANGED <<lock, init, call, bytes>>
     \/ UNCHANGED crs /\ Return(t, FALSE)
  /\ UNCHANGED <<points, srsPath, lowMem, calls, files>>

\* A panic in srs_init_srs unwinds the call; init_crs turns it into an error.
LoadPanicked(t) ==
  /\ At(t, "load")
  /\ \/ "before" \in LoadPanics /\ UNCHANGED crs
     \/ "after" \in LoadPanics /\ crs' = Loaded(t)
  /\ Fail(t)
  /\ UNCHANGED files

RecordPoints(t) ==
  /\ At(t, "record")
  /\ points' = IF points = 0 THEN Need(call[t]) ELSE points
  /\ Ensured(t)
  /\ UNCHANGED <<srsPath, lowMem, crs, calls, files>>

\* circuit_prove and circuit_verify.
UseCrs(t) ==
  /\ At(t, "use")
  /\ \E ok \in BOOLEAN : Return(t, ok)
  /\ UNCHANGED <<points, srsPath, lowMem, crs, calls, files>>

-----------------------------------------------------------------------------
\* Around the process.

NewProcess ==
  [lock |-> NoThread, points |-> 0, srsPath |-> NoPath, init |-> "unset",
   lowMem |-> FALSE, crs |-> [points |-> 0, real |-> TRUE],
   pc |-> [t \in Threads |-> "idle"], call |-> [t \in Threads |-> NoCall],
   bytes |-> [t \in Threads |-> TRUE], calls |-> 0]

\* The process dies anywhere and starts again; the files stay.
Restart ==
  /\ lock'    = NewProcess.lock
  /\ points'  = NewProcess.points
  /\ srsPath' = NewProcess.srsPath
  /\ init'    = NewProcess.init
  /\ lowMem'  = NewProcess.lowMem
  /\ crs'     = NewProcess.crs
  /\ pc'      = NewProcess.pc
  /\ call'    = NewProcess.call
  /\ bytes'   = NewProcess.bytes
  /\ calls'   = NewProcess.calls
  /\ UNCHANGED files

\* bb and other processes share the files.
ChangeFile(path) ==
  /\ FilesChange
  /\ \E file \in G1Files : files' = [files EXCEPT ![path] = file]
  /\ UNCHANGED process

Init ==
  /\ lock    = NewProcess.lock
  /\ points  = NewProcess.points
  /\ srsPath = NewProcess.srsPath
  /\ init    = NewProcess.init
  /\ lowMem  = NewProcess.lowMem
  /\ crs     = NewProcess.crs
  /\ pc      = NewProcess.pc
  /\ call    = NewProcess.call
  /\ bytes   = NewProcess.bytes
  /\ calls   = NewProcess.calls
  /\ files \in [Paths -> {f \in G1Files : f.real}]

Step(t) ==
  \/ SetSrsPath(t)
  \/ EnterInit(t)
  \/ JoinInit(t)
  \/ SetInitPath(t)
  \/ Lock(t)
  \/ ConfigureMemory(t)
  \/ EnsureSrs(t)
  \/ ReadLocal(t)
  \/ Download(t)
  \/ CacheG1(t)
  \/ LoadCrs(t)
  \/ LoadPanicked(t)
  \/ RecordPoints(t)
  \/ UseCrs(t)

Next ==
  \/ \E t \in Threads : Step(t)
  \/ \E t \in Threads, c \in Calls : Begin(t, c)
  \/ Restart
  \/ \E path \in Paths : ChangeFile(path)

Spec == Init /\ [][Next]_vars

\* Every started thread keeps running.  The mutex promises no order: a waiting
\* thread gets it once the others have finished.
FairSpec == Spec /\ \A t \in Threads : WF_vars(Step(t))

-----------------------------------------------------------------------------
(***************************************************************************)
(* Properties.                                                             *)
(***************************************************************************)
TypeOK ==
  /\ lock \in Threads \cup {NoThread}
  /\ points \in Sizes \cup {0}
  /\ srsPath \in Paths \cup {NoPath}
  /\ init \in {"unset", "running", "ok", "failed"}
  /\ lowMem \in BOOLEAN
  /\ crs \in G1Files
  /\ files \in [Paths -> G1Files]
  /\ call \in [Threads -> Calls \cup {NoCall}]
  /\ bytes \in [Threads -> BOOLEAN]
  /\ calls \in 0..MaxCalls
  /\ \A t \in Threads : call[t] = NoCall <=> At(t, "idle")

\* Whoever proves does so in the memory mode it asked for, though the switch is
\* one environment variable of the process.
ModeMatches ==
  \A t \in Threads : At(t, "use") /\ call[t].op = "prove" => lowMem = call[t].low

\* A CRS of a pinned size is the real one, whatever the files and the network
\* hold, change to, or held before a restart.
LoadedIsReal == crs.points \in Pinned => crs.real

\* Once a call has passed ensure_srs, bb holds the points its circuit needs.
EnoughPoints ==
  \A t \in Threads : At(t, "use") /\ call[t].op \in {"prove", "verify"} =>
    crs.points >= Need(call[t])

\* If init_crs has succeeded, the CRS serves every canonical circuit: what
\* verify_combined, which checks nothing itself, relies on.
InitReady == init = "ok" => crs.points >= CanonicalPoints

\* A process that pre-initializes no less than the canonical size never
\* refuses a canonical circuit because a smaller one came first.
CanonicalServed ==
  \A t \in Threads :
    At(t, "ensure") /\ points # 0 /\ call[t].size <= CanonicalPoints =>
      Need(call[t]) <= points

\* Every call returns: no order of BB_LOCK and of the OnceLock of init_crs,
\* and no panic, leaves a caller waiting for ever.
EveryCallReturns == \A t \in Threads : ~At(t, "idle") ~> At(t, "idle")

\* The comment on BB_LOCK takes a panicked call for harmless, its state "to be
\* reset by the next `setup_srs` anyway" (mod.rs:52-53): what the backend then
\* records about the CRS is true of it.
RecordedIsLoaded == points # 0 => crs.points >= points
=============================================================================
