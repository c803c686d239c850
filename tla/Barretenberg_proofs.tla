------------------------ MODULE Barretenberg_proofs ------------------------
(***************************************************************************)
(* Proofs about Barretenberg, for any number of threads, paths, sizes and  *)
(* calls.  The argument: whoever stands at a place between Lock and the    *)
(* end of its call holds BB_LOCK (ThreadOK), so the CRS, its recorded size *)
(* and the memory mode are touched by one call at a time; and unless bb    *)
(* panics after it loaded, the recorded size is that of the CRS whenever   *)
(* no thread stands between the two writes (CrsOK).                        *)
(***************************************************************************)
EXTENDS Barretenberg, TLAPS

Loading == {"read", "download", "cache", "load", "record"}
Held    == {"configure", "ensure", "use"} \cup Loading
Places  == {"idle", "once", "initPath", "setPath", "lock"} \cup Held

\* What a thread's place says about its call, the lock, the recorded size, the
\* bytes in its hands and the memory mode.
ThreadOK(t) ==
  /\ At(t, "idle") <=> call[t] = NoCall
  /\ pc[t] \in Held <=> lock = t
  /\ At(t, "setPath") => call[t].op = "setPath"
  /\ pc[t] \in {"once", "initPath"} => call[t].op = "init"
  /\ At(t, "lock") => call[t].op # "setPath"
  /\ At(t, "configure") => call[t].op = "prove"
  /\ pc[t] \in Loading \cup {"ensure"} =>
       call[t].op \in {"prove", "verify", "preinit", "init"}
  /\ At(t, "use") => call[t].op \in {"prove", "verify", "verifyRaw"}
  /\ pc[t] \in Loading => points = 0
  /\ pc[t] \in {"cache", "load"} => VerifyG1(Need(call[t]), bytes[t])
  /\ pc[t] \in Loading \cup {"ensure", "use"} /\ call[t].op = "prove" =>
       lowMem = call[t].low

IInv ==
  /\ TypeOK
  /\ pc \in [Threads -> Places]
  /\ \A t \in Threads : ThreadOK(t)
  /\ LoadedIsReal

\* The recorded size is that of the CRS, but for a thread about to record it.
CrsOK ==
  /\ \A t \in Threads : At(t, "record") => crs.points = Need(call[t])
  /\ (\A t \in Threads : ~At(t, "record")) => crs.points = points
  /\ EnoughPoints
  /\ InitReady

-----------------------------------------------------------------------------
\* Facts about calls.

\* A call names what it needs: a size, the canonical one for init_crs, a mode
\* and a path.
CallOK(c) ==
  /\ c.op \in {"prove", "verify", "verifyRaw", "preinit", "init", "setPath"}
  /\ c.op # "setPath" => c.size \in Sizes
  /\ c.op = "init" => c.size = CanonicalPoints
  /\ c.op = "preinit" => c.size \in PreinitSizes
  /\ c.low \in BOOLEAN
  /\ c.path \in Paths \cup {NoPath}

LEMMA CallFacts ==
  ASSUME NEW c \in Calls
  PROVE  CallOK(c)
  <1>1. \/ \E n \in Sizes, low \in BOOLEAN : c = Call("prove", n, low, NoPath)
        \/ \E n \in Sizes : c = Call("verify", n, FALSE, NoPath)
        \/ \E n \in Sizes : c = Call("verifyRaw", n, FALSE, NoPath)
        \/ \E n \in PreinitSizes : c = Call("preinit", n, FALSE, NoPath)
        \/ \E path \in InitPaths : c = Call("init", CanonicalPoints, FALSE, path)
        \/ \E path \in Paths \ {DefaultPath} : c = Call("setPath", 0, FALSE, path)
    BY SMTT(30) DEF Calls, Call
  <1>3. c.low \in BOOLEAN
    <2>1. ASSUME NEW n \in Sizes, NEW low \in BOOLEAN, c = Call("prove", n, low, NoPath)
          PROVE  c.low \in BOOLEAN
      BY <2>1 DEF Call
    <2>2. ASSUME NEW op, NEW n, NEW path, c = Call(op, n, FALSE, path)
          PROVE  c.low \in BOOLEAN
      BY <2>2 DEF Call
    <2> QED  BY <1>1, <2>1, <2>2, Zenon
  <1>4. /\ c.op \in {"prove", "verify", "verifyRaw", "preinit", "init", "setPath"}
        /\ c.op # "setPath" => c.size \in Sizes
        /\ c.op = "init" => c.size = CanonicalPoints
        /\ c.op = "preinit" => c.size \in PreinitSizes
        /\ c.path \in Paths \cup {NoPath}
    BY <1>1, SizesAssumption, PathsAssumption DEF Call
  <1> QED  BY <1>3, <1>4 DEF CallOK

\* What ensure_srs asks for is a size too, and covers the canonical circuits
\* unless the call is preinit_srs.
LEMMA NeedFacts ==
  ASSUME NEW c \in Calls
  PROVE  /\ c # NoCall
         /\ c.op # "setPath" => Need(c) \in Sizes
         /\ c.op = "init" => Need(c) = CanonicalPoints
         /\ c.op = "preinit" => Need(c) \in PreinitSizes
         /\ c.op \in {"prove", "verify"} => Need(c) >= CanonicalPoints
  <1>1. CallOK(c)
    BY CallFacts
  <1>2. c # NoCall
    BY <1>1 DEF CallOK, NoCall
  <1>3. /\ c.op # "setPath" => Need(c) \in Sizes
        /\ c.op = "init" => Need(c) = CanonicalPoints
        /\ c.op = "preinit" => Need(c) \in PreinitSizes
    BY <1>1, SizesAssumption DEF CallOK, Need
  <1>4. c.op \in {"prove", "verify"} => Need(c) >= CanonicalPoints
    <2>1. CanonicalPoints \in Nat /\ (c.op # "setPath" => c.size \in Nat)
      BY <1>1, SizesAssumption DEF CallOK
    <2> QED  BY <2>1, SizesAssumption DEF Need
  <1> QED  BY <1>2, <1>3, <1>4

\* Sizes are positive numbers.
LEMMA SizeFacts ==
  /\ Sizes \subseteq Nat \ {0}
  /\ CanonicalPoints \in Sizes
  /\ 0 \notin Sizes
  /\ \A f \in G1Files : f.points \in Sizes \cup {0} /\ f.real \in BOOLEAN
  /\ \A n \in Sizes, b \in BOOLEAN : [points |-> n, real |-> b] \in G1Files
  <1>1. \A f \in G1Files : f.points \in Sizes \cup {0} /\ f.real \in BOOLEAN
    <2>1. \A f \in [points : Sizes, real : BOOLEAN] : f.points \in Sizes /\ f.real \in BOOLEAN
      OBVIOUS
    <2>2. \A f \in {[points |-> 0, real |-> TRUE]} : f.points = 0 /\ f.real = TRUE
      OBVIOUS
    <2>3. \A f \in G1Files : \/ f \in [points : Sizes, real : BOOLEAN]
                             \/ f \in {[points |-> 0, real |-> TRUE]}
      BY DEF G1Files
    <2> QED  BY <2>1, <2>2, <2>3
  <1>2. \A n \in Sizes, b \in BOOLEAN : [points |-> n, real |-> b] \in G1Files
    BY Zenon DEF G1Files
  <1> QED  BY <1>1, <1>2, SizesAssumption

-----------------------------------------------------------------------------
\* Facts about steps.

\* A step of one thread keeps what the places of the others say, if it holds
\* the lock or leaves the recorded size and the memory mode alone.
LEMMA OthersKept ==
  ASSUME NEW t \in Threads, NEW u \in Threads \ {t}, ThreadOK(u),
         pc'[u] = pc[u], call'[u] = call[u], bytes'[u] = bytes[u],
         lock' = u <=> lock = u,
         lock = t \/ (points' = points /\ lowMem' = lowMem)
  PROVE  ThreadOK(u)'
  <1>1. CASE lock = t
    <2>1. pc[u] \notin Held
      BY <1>1 DEF ThreadOK, At
    <2> QED  BY <2>1 DEF ThreadOK, At, Held, Loading
  <1>2. CASE points' = points /\ lowMem' = lowMem
    BY <1>2 DEF ThreadOK, At, VerifyG1
  <1> QED  BY <1>1, <1>2

\* A step along the code keeps the other threads' parts.
LEMMA GotoKeeps ==
  ASSUME IInv, NEW t \in Threads, NEW place \in Places, Goto(t, place),
         call' = call,
         \A u \in Threads \ {t} : bytes'[u] = bytes[u] /\ (lock' = u <=> lock = u),
         lock = t \/ (points' = points /\ lowMem' = lowMem)
  PROVE  /\ pc' \in [Threads -> Places]
         /\ pc'[t] = place
         /\ \A u \in Threads \ {t} : pc'[u] = pc[u] /\ ThreadOK(u)'
  <1>1. /\ pc' \in [Threads -> Places]
        /\ pc'[t] = place
        /\ \A u \in Threads \ {t} : pc'[u] = pc[u]
    BY DEF IInv, Goto
  <1>2. \A u \in Threads \ {t} : ThreadOK(u)'
    BY <1>1, OthersKept DEF IInv
  <1> QED  BY <1>1, <1>2

\* A call that ends leaves its thread idle and without the lock.
LEMMA ReturnKeeps ==
  ASSUME IInv, NEW t \in Threads, NEW ok \in BOOLEAN, Return(t, ok),
         lock = t \/ (points' = points /\ lowMem' = lowMem)
  PROVE  /\ pc' \in [Threads -> Places]
         /\ call' \in [Threads -> Calls \cup {NoCall}]
         /\ bytes' \in [Threads -> BOOLEAN]
         /\ lock' \in Threads \cup {NoThread}
         /\ init' \in {"unset", "running", "ok", "failed"}
         /\ pc'[t] = "idle"
         /\ \A u \in Threads \ {t} : pc'[u] = pc[u] /\ call'[u] = call[u]
         /\ \A u \in Threads : ThreadOK(u)'
  <1>1. /\ pc' \in [Threads -> Places]
        /\ pc'[t] = "idle"
        /\ \A u \in Threads \ {t} : pc'[u] = pc[u]
    BY DEF IInv, Return, Goto, Places
  <1>2. /\ call' \in [Threads -> Calls \cup {NoCall}]
        /\ call'[t] = NoCall
        /\ \A u \in Threads \ {t} : call'[u] = call[u]
    BY DEF IInv, TypeOK, Return
  <1>3. /\ bytes' \in [Threads -> BOOLEAN]
        /\ \A u \in Threads \ {t} : bytes'[u] = bytes[u]
    BY DEF IInv, TypeOK, Return
  <1>4. /\ lock' \in Threads \cup {NoThread}
        /\ lock' # t
        /\ \A u \in Threads \ {t} : lock' = u <=> lock = u
    BY ThreadsAssumption DEF IInv, TypeOK, Return
  <1>5. init' \in {"unset", "running", "ok", "failed"}
    BY DEF IInv, TypeOK, Return
  <1>6. \A u \in Threads \ {t} : ThreadOK(u)'
    BY <1>1, <1>2, <1>3, <1>4, OthersKept DEF IInv
  <1>7. ThreadOK(t)'
    BY <1>1, <1>2, <1>4 DEF ThreadOK, At, Held, Loading
  <1> QED  BY <1>1, <1>2, <1>3, <1>4, <1>5, <1>6, <1>7

\* Where the code is between Begin and the end of a call, there is a call.
LEMMA Calling ==
  ASSUME IInv, NEW t \in Threads, pc[t] # "idle"
  PROVE  call[t] \in Calls
  BY DEF IInv, TypeOK, ThreadOK, At

-----------------------------------------------------------------------------
\* The invariant.

\* A step that ends the call, and sets nothing but the SRS path, the CRS and
\* the recorded size.
LEMMA EndKeepsIInv ==
  ASSUME IInv, NEW t \in Threads, NEW ok \in BOOLEAN, Return(t, ok),
         lock = t \/ points' = points,
         points' \in Sizes \cup {0}, srsPath' \in Paths \cup {NoPath}, crs' \in G1Files,
         LoadedIsReal', UNCHANGED <<lowMem, calls, files>>
  PROVE  IInv'
  <1>1. /\ pc' \in [Threads -> Places]
        /\ call' \in [Threads -> Calls \cup {NoCall}]
        /\ bytes' \in [Threads -> BOOLEAN]
        /\ lock' \in Threads \cup {NoThread}
        /\ init' \in {"unset", "running", "ok", "failed"}
        /\ \A u \in Threads : ThreadOK(u)'
    BY ReturnKeeps
  <1>2. \A u \in Threads : (call[u] = NoCall <=> At(u, "idle"))'
    BY <1>1 DEF ThreadOK, At
  <1>3. TypeOK'
    BY <1>1, <1>2 DEF IInv, TypeOK
  <1> QED  BY <1>1, <1>3 DEF IInv

\* A step along the code that keeps the invariant's part of its own thread.
LEMMA GotoKeepsIInv ==
  ASSUME IInv, NEW t \in Threads, NEW place \in Places, Goto(t, place), call' = call,
         \A u \in Threads \ {t} : bytes'[u] = bytes[u] /\ (lock' = u <=> lock = u),
         lock = t \/ (points' = points /\ lowMem' = lowMem),
         lock' \in Threads \cup {NoThread}, points' \in Sizes \cup {0},
         srsPath' \in Paths \cup {NoPath}, init' \in {"unset", "running", "ok", "failed"},
         lowMem' \in BOOLEAN, crs' \in G1Files, files' \in [Paths -> G1Files],
         bytes' \in [Threads -> BOOLEAN], calls' = calls,
         LoadedIsReal', pc'[t] = place => ThreadOK(t)'
  PROVE  IInv'
  <1>1. /\ pc' \in [Threads -> Places]
        /\ pc'[t] = place
        /\ \A u \in Threads \ {t} : ThreadOK(u)'
    BY GotoKeeps
  <1>2. \A u \in Threads : ThreadOK(u)'
    BY <1>1
  <1>3. \A u \in Threads : (call[u] = NoCall <=> At(u, "idle"))'
    BY <1>2 DEF ThreadOK, At
  <1>4. TypeOK'
    BY <1>3 DEF IInv, TypeOK
  <1> QED  BY <1>1, <1>2, <1>4 DEF IInv

\* init_crs, up to the lock.
LEMMA InitKeepsIInv ==
  ASSUME IInv, NEW t \in Threads,
         SetSrsPath(t) \/ EnterInit(t) \/ JoinInit(t) \/ SetInitPath(t) \/ Lock(t)
  PROVE  IInv'
  <1>1. CASE SetSrsPath(t)
    <2>1. srsPath' \in Paths \cup {NoPath}
      BY <1>1, Calling, CallFacts DEF SetSrsPath, At, SetPath, CallOK, IInv, TypeOK
    <2> QED  BY <1>1, <2>1, EndKeepsIInv DEF SetSrsPath, IInv, TypeOK, LoadedIsReal
  <1>2. CASE EnterInit(t)
    <2>1. ThreadOK(t) /\ pc[t] = "once"
      BY <1>2 DEF IInv, EnterInit, At
    <2>2. pc'[t] = "initPath" => ThreadOK(t)'
      BY <1>2, <2>1 DEF EnterInit, ThreadOK, At, Held, Loading
    <2> QED
      BY <1>2, <2>2, GotoKeepsIInv DEF EnterInit, IInv, TypeOK, LoadedIsReal, Places
  <1>3. CASE JoinInit(t)
    <2> QED  BY <1>3, EndKeepsIInv DEF JoinInit, IInv, TypeOK, LoadedIsReal
  <1>4. CASE SetInitPath(t)
    <2>1. srsPath' \in Paths \cup {NoPath}
      BY <1>4, Calling, CallFacts DEF SetInitPath, At, SetPath, CallOK, IInv, TypeOK
    <2>2. ThreadOK(t) /\ pc[t] = "initPath"
      BY <1>4 DEF IInv, SetInitPath, At
    <2>3. pc'[t] = "lock" => ThreadOK(t)'
      BY <1>4, <2>2 DEF SetInitPath, ThreadOK, At, Held, Loading
    <2> QED
      BY <1>4, <2>1, <2>3, GotoKeepsIInv DEF SetInitPath, IInv, TypeOK, LoadedIsReal, Places
  <1>5. CASE Lock(t)
    <2> DEFINE place == IF call[t].op = "prove" THEN "configure"
                        ELSE IF call[t].op = "verifyRaw" THEN "use" ELSE "ensure"
    <2>1. ThreadOK(t) /\ pc[t] = "lock" /\ CallOK(call[t])
      BY <1>5, Calling, CallFacts DEF IInv, Lock, At
    <2>2. pc'[t] = place => ThreadOK(t)'
      BY <1>5, <2>1 DEF Lock, ThreadOK, CallOK, At, Held, Loading
    <2>3. place \in Places /\ Goto(t, place)
      BY <1>5 DEF Lock, Places, Held
    <2>4. \A u \in Threads \ {t} : bytes'[u] = bytes[u] /\ (lock' = u <=> lock = u)
      BY <1>5, ThreadsAssumption DEF Lock
    <2> HIDE DEF place
    <2> QED
      BY <1>5, <2>2, <2>3, <2>4, GotoKeepsIInv DEF Lock, IInv, TypeOK, LoadedIsReal
  <1> QED  BY <1>1, <1>2, <1>3, <1>4, <1>5

\* ensure_srs up to the load: the mode, the recorded size, the file, the network.
LEMMA EnsureKeepsIInv ==
  ASSUME IInv, NEW t \in Threads,
         ConfigureMemory(t) \/ EnsureSrs(t) \/ ReadLocal(t) \/ Download(t) \/ CacheG1(t)
  PROVE  IInv'
  <1>1. pc[t] \in Held /\ lock = t /\ ThreadOK(t) /\ call[t] \in Calls /\ CallOK(call[t])
    <2>1. pc[t] \in Held /\ pc[t] # "idle"
      BY DEF ConfigureMemory, EnsureSrs, ReadLocal, Download, CacheG1, At, Held, Loading
    <2> QED  BY <2>1, Calling, CallFacts DEF IInv, ThreadOK
  <1>2. /\ lock \in Threads \cup {NoThread} /\ points \in Sizes \cup {0}
        /\ srsPath \in Paths \cup {NoPath} /\ lowMem \in BOOLEAN /\ crs \in G1Files
        /\ init \in {"unset", "running", "ok", "failed"}
        /\ files \in [Paths -> G1Files] /\ bytes \in [Threads -> BOOLEAN]
    BY DEF IInv, TypeOK
  <1>3. CASE ConfigureMemory(t)
    <2>1. pc'[t] = "ensure" => ThreadOK(t)'
      BY <1>1, <1>3 DEF ConfigureMemory, ThreadOK, At, Held, Loading
    <2>2. lowMem' \in BOOLEAN
      BY <1>1, <1>3, Zenon DEF ConfigureMemory, CallOK
    <2> QED
      BY <1>1, <1>2, <1>3, <2>1, <2>2, GotoKeepsIInv
         DEF ConfigureMemory, IInv, LoadedIsReal, Places, Held
  <1>4. CASE EnsureSrs(t)
    <2>1. CASE Return(t, FALSE) \/ Return(t, TRUE)
      BY <1>1, <1>2, <1>4, <2>1, EndKeepsIInv DEF EnsureSrs, IInv, LoadedIsReal
    <2>2. CASE points = 0 /\ Goto(t, "read") /\ UNCHANGED <<lock, init, call, bytes>>
      <3>1. pc'[t] = "read" => ThreadOK(t)'
        BY <1>1, <1>4, <2>2 DEF EnsureSrs, ThreadOK, At, Held, Loading
      <3> QED
        BY <1>1, <1>2, <1>4, <2>2, <3>1, GotoKeepsIInv
           DEF EnsureSrs, IInv, LoadedIsReal, Places, Held, Loading
    <2>3. CASE /\ call[t].op \notin {"preinit", "init"}
               /\ Goto(t, "use") /\ UNCHANGED <<lock, init, call, bytes>>
      <3>1. pc'[t] = "use" => ThreadOK(t)'
        BY <1>1, <1>4, <2>3 DEF EnsureSrs, ThreadOK, CallOK, At, Held, Loading
      <3> QED
        BY <1>1, <1>2, <1>4, <2>3, <3>1, GotoKeepsIInv
           DEF EnsureSrs, IInv, LoadedIsReal, Places, Held
    <2> QED  BY <1>4, <2>1, <2>2, <2>3 DEF EnsureSrs, Ensured
  <1>5. CASE ReadLocal(t)
    <2> DEFINE file == files[Local(srsPath)]
               n    == Need(call[t])
    <2>0. file.real \in BOOLEAN
      BY <1>2, PathsAssumption, SizeFacts DEF Local
    <2>1. CASE Return(t, FALSE)
      BY <1>1, <1>2, <1>5, <2>1, EndKeepsIInv DEF ReadLocal, IInv, LoadedIsReal
    <2>2. CASE /\ VerifyG1(n, file.real) /\ bytes' = [bytes EXCEPT ![t] = file.real]
               /\ Goto(t, "load") /\ UNCHANGED <<lock, init, call>>
      <3>1. bytes' \in [Threads -> BOOLEAN] /\ bytes'[t] = file.real
        BY <1>2, <2>0, <2>2
      <3>2. pc'[t] = "load" => ThreadOK(t)'
        BY <1>1, <1>5, <2>2, <3>1 DEF ReadLocal, ThreadOK, VerifyG1, At, Held, Loading
      <3> QED
        BY <1>1, <1>2, <1>5, <2>2, <3>1, <3>2, GotoKeepsIInv
           DEF ReadLocal, IInv, LoadedIsReal, Places, Held, Loading
    <2>3. CASE Goto(t, "download") /\ UNCHANGED <<lock, init, call, bytes>>
      <3>1. pc'[t] = "download" => ThreadOK(t)'
        BY <1>1, <1>5, <2>3 DEF ReadLocal, ThreadOK, At, Held, Loading
      <3> QED
        BY <1>1, <1>2, <1>5, <2>3, <3>1, GotoKeepsIInv
           DEF ReadLocal, IInv, LoadedIsReal, Places, Held, Loading
    <2> QED  BY <1>5, <2>1, <2>2, <2>3 DEF ReadLocal
  <1>6. CASE Download(t)
    <2>1. CASE Return(t, FALSE)
      BY <1>1, <1>2, <1>6, <2>1, EndKeepsIInv DEF Download, IInv, LoadedIsReal
    <2>2. ASSUME NEW real \in BOOLEAN, VerifyG1(Need(call[t]), real),
                 bytes' = [bytes EXCEPT ![t] = real], Goto(t, "cache"),
                 UNCHANGED <<lock, init, call>>
          PROVE  IInv'
      <3>1. bytes' \in [Threads -> BOOLEAN] /\ bytes'[t] = real
        BY <1>2, <2>2
      <3>2. pc'[t] = "cache" => ThreadOK(t)'
        BY <1>1, <1>6, <2>2, <3>1 DEF Download, ThreadOK, VerifyG1, At, Held, Loading
      <3> QED
        BY <1>1, <1>2, <1>6, <2>2, <3>1, <3>2, GotoKeepsIInv
           DEF Download, IInv, LoadedIsReal, Places, Held, Loading
    <2> QED  BY <1>6, <2>1, <2>2 DEF Download
  <1>7. CASE CacheG1(t)
    <2>1. pc'[t] = "load" => ThreadOK(t)'
      BY <1>1, <1>7 DEF CacheG1, ThreadOK, VerifyG1, At, Held, Loading
    <2>2. [points |-> Need(call[t]), real |-> bytes[t]] \in G1Files
      BY <1>1, <1>2, <1>7, NeedFacts, SizeFacts DEF CacheG1, ThreadOK, CallOK, At, Loading
    <2>3. files' \in [Paths -> G1Files]
      BY <1>2, <1>7, <2>2 DEF CacheG1
    <2> QED
      BY <1>1, <1>2, <1>7, <2>1, <2>3, GotoKeepsIInv
         DEF CacheG1, IInv, LoadedIsReal, Places, Held, Loading
  <1> QED  BY <1>3, <1>4, <1>5, <1>6, <1>7

\* The load, its record, and the use of the CRS.
LEMMA LoadKeepsIInv ==
  ASSUME IInv, NEW t \in Threads,
         LoadCrs(t) \/ LoadPanicked(t) \/ RecordPoints(t) \/ UseCrs(t)
  PROVE  IInv'
  <1>1. pc[t] \in Held /\ lock = t /\ ThreadOK(t) /\ call[t] \in Calls /\ CallOK(call[t])
    <2>1. pc[t] \in Held /\ pc[t] # "idle"
      BY DEF LoadCrs, LoadPanicked, RecordPoints, UseCrs, Fail, At, Held, Loading
    <2> QED  BY <2>1, Calling, CallFacts DEF IInv, ThreadOK
  <1>2. /\ lock \in Threads \cup {NoThread} /\ points \in Sizes \cup {0}
        /\ srsPath \in Paths \cup {NoPath} /\ lowMem \in BOOLEAN /\ crs \in G1Files
        /\ init \in {"unset", "running", "ok", "failed"}
        /\ files \in [Paths -> G1Files] /\ bytes \in [Threads -> BOOLEAN]
    BY DEF IInv, TypeOK
  <1>3. At(t, "load") /\ crs' = Loaded(t) => crs' \in G1Files /\ LoadedIsReal'
    <2>1. SUFFICES ASSUME At(t, "load"), crs' = Loaded(t), crs.points = 0
                   PROVE  crs' \in G1Files /\ LoadedIsReal'
      BY <1>2 DEF Loaded, IInv, LoadedIsReal
    <2>2. crs' = [points |-> Need(call[t]), real |-> bytes[t]]
      BY <2>1 DEF Loaded
    <2>3. crs' \in G1Files
      BY <1>1, <1>2, <2>1, <2>2, NeedFacts, SizeFacts DEF ThreadOK, At, Loading
    <2>4. LoadedIsReal'
      BY <1>1, <2>1, <2>2 DEF LoadedIsReal, ThreadOK, VerifyG1, At
    <2> QED  BY <2>3, <2>4
  <1>4. CASE LoadCrs(t)
    <2>1. CASE Return(t, FALSE) /\ UNCHANGED crs
      BY <1>1, <1>2, <1>4, <2>1, EndKeepsIInv DEF LoadCrs, IInv, LoadedIsReal
    <2>2. CASE crs' = Loaded(t) /\ Goto(t, "record") /\ UNCHANGED <<lock, init, call, bytes>>
      <3>1. pc'[t] = "record" => ThreadOK(t)'
        BY <1>1, <1>4, <2>2 DEF LoadCrs, ThreadOK, At, Held, Loading
      <3> QED
        BY <1>1, <1>2, <1>3, <1>4, <2>2, <3>1, GotoKeepsIInv
           DEF LoadCrs, Places, Held, Loading
    <2> QED  BY <1>4, <2>1, <2>2 DEF LoadCrs
  <1>5. CASE LoadPanicked(t)
    <2>1. crs' \in G1Files /\ LoadedIsReal'
      BY <1>2, <1>3, <1>5 DEF LoadPanicked, IInv, LoadedIsReal
    <2> QED  BY <1>1, <1>2, <1>5, <2>1, EndKeepsIInv DEF LoadPanicked, Fail
  <1>6. CASE RecordPoints(t)
    <2>1. points' \in Sizes \cup {0}
      BY <1>1, <1>2, <1>6, NeedFacts DEF RecordPoints, ThreadOK, At, Loading
    <2>2. CASE Return(t, TRUE)
      BY <1>1, <1>2, <1>6, <2>1, <2>2, EndKeepsIInv DEF RecordPoints, IInv, LoadedIsReal
    <2>3. CASE /\ call[t].op \notin {"preinit", "init"}
               /\ Goto(t, "use") /\ UNCHANGED <<lock, init, call, bytes>>
      <3>1. pc'[t] = "use" => ThreadOK(t)'
        BY <1>1, <1>6, <2>3 DEF RecordPoints, ThreadOK, CallOK, At, Held, Loading
      <3> QED
        BY <1>1, <1>2, <1>6, <2>1, <2>3, <3>1, GotoKeepsIInv
           DEF RecordPoints, IInv, LoadedIsReal, Places, Held
    <2> QED  BY <1>6, <2>2, <2>3 DEF RecordPoints, Ensured
  <1>7. CASE UseCrs(t)
    BY <1>1, <1>2, <1>7, EndKeepsIInv DEF UseCrs, IInv, LoadedIsReal
  <1> QED  BY <1>4, <1>5, <1>6, <1>7

\* A thread begins a call: it holds nothing yet.
LEMMA BeginKeepsIInv ==
  ASSUME IInv, NEW t \in Threads, NEW c \in Calls, Begin(t, c)
  PROVE  IInv'
  <1>1. CallOK(c) /\ c # NoCall
    BY CallFacts, NeedFacts
  <1>2. /\ call' \in [Threads -> Calls \cup {NoCall}] /\ call'[t] = c
        /\ pc' \in [Threads -> Places] /\ pc'[t] = Entry(c.op)
        /\ \A u \in Threads \ {t} : pc'[u] = pc[u] /\ call'[u] = call[u]
    BY <1>1 DEF Begin, Goto, Entry, IInv, TypeOK, Places
  <1>3. /\ pc[t] = "idle" /\ lock # t
        /\ UNCHANGED <<lock, points, srsPath, init, lowMem, crs, bytes, files>>
    BY DEF Begin, At, IInv, ThreadOK, Held, Loading
  <1>4. ThreadOK(t)'
    BY <1>1, <1>2, <1>3 DEF ThreadOK, CallOK, Entry, At, Held, Loading
  <1>5. \A u \in Threads \ {t} : ThreadOK(u)'
    BY <1>2, <1>3, OthersKept DEF IInv
  <1>6. \A u \in Threads : ThreadOK(u)'
    BY <1>4, <1>5
  <1>7. calls' \in 0..MaxCalls
    BY CallsAssumption DEF Begin, IInv, TypeOK
  <1>8. \A u \in Threads : (call[u] = NoCall <=> At(u, "idle"))'
    BY <1>6 DEF ThreadOK, At
  <1>9. TypeOK'
    BY <1>2, <1>3, <1>7, <1>8 DEF IInv, TypeOK
  <1> QED  BY <1>2, <1>3, <1>6, <1>9 DEF IInv, LoadedIsReal

\* A new process satisfies the invariant, whatever the files hold.
Fresh ==
  /\ lock = NewProcess.lock /\ points = NewProcess.points
  /\ srsPath = NewProcess.srsPath /\ init = NewProcess.init
  /\ lowMem = NewProcess.lowMem /\ crs = NewProcess.crs
  /\ pc = NewProcess.pc /\ call = NewProcess.call
  /\ bytes = NewProcess.bytes /\ calls = NewProcess.calls
  /\ files \in [Paths -> G1Files]

LEMMA NewProcessOK == Fresh => IInv
  <1> SUFFICES ASSUME Fresh PROVE IInv
    OBVIOUS
  <1>1. /\ lock = NoThread /\ points = 0 /\ srsPath = NoPath /\ init = "unset"
        /\ pc = [t \in Threads |-> "idle"] /\ call = [t \in Threads |-> NoCall]
        /\ calls = 0
    BY DEF Fresh, NewProcess
  <1>2. lowMem = FALSE /\ crs = [points |-> 0, real |-> TRUE]
    BY DEF Fresh, NewProcess
  <1>3. bytes = [t \in Threads |-> TRUE]
    BY DEF Fresh, NewProcess
  <1>4. \A t \in Threads : ThreadOK(t)
    BY <1>1, ThreadsAssumption DEF ThreadOK, At, Held, Loading
  <1>5. crs \in G1Files /\ crs.real
    BY <1>2 DEF G1Files
  <1>6. lowMem \in BOOLEAN /\ bytes \in [Threads -> BOOLEAN]
    BY <1>2, <1>3
  <1>7. \A t \in Threads : call[t] = NoCall <=> At(t, "idle")
    BY <1>1 DEF At
  <1>8. TypeOK
    BY <1>1, <1>5, <1>6, <1>7, CallsAssumption DEF Fresh, TypeOK
  <1>9. pc \in [Threads -> Places]
    BY <1>1 DEF Places
  <1> QED  BY <1>4, <1>5, <1>8, <1>9 DEF IInv, LoadedIsReal

LEMMA InitIInv == Init => IInv
  <1>1. ASSUME Init PROVE files \in [Paths -> G1Files]
    BY <1>1 DEF Init
  <1> QED  BY <1>1, NewProcessOK DEF Init, Fresh

LEMMA NextIInv == IInv /\ [Next]_vars => IInv'
  <1> SUFFICES ASSUME IInv, [Next]_vars PROVE IInv'
    OBVIOUS
  <1>1. ASSUME NEW t \in Threads, Step(t) PROVE IInv'
    BY <1>1, InitKeepsIInv, EnsureKeepsIInv, LoadKeepsIInv, Zenon DEF Step
  <1>2. ASSUME NEW t \in Threads, NEW c \in Calls, Begin(t, c) PROVE IInv'
    BY <1>2, BeginKeepsIInv
  <1>3. CASE Restart
    <2>1. Fresh'
      BY <1>3 DEF Restart, IInv, TypeOK, Fresh
    <2> QED  BY <2>1, NewProcessOK, PTL
  <1>4. ASSUME NEW path \in Paths, ChangeFile(path) PROVE IInv'
    <2>1. files' \in [Paths -> G1Files] /\ UNCHANGED process
      BY <1>4 DEF ChangeFile, IInv, TypeOK
    <2> QED  BY <2>1 DEF process, IInv, TypeOK, ThreadOK, At, LoadedIsReal
  <1>5. CASE UNCHANGED vars
    BY <1>5 DEF vars, process, IInv, TypeOK, ThreadOK, At, LoadedIsReal
  <1> QED  BY <1>1, <1>2, <1>3, <1>4, <1>5 DEF Next

\* The inductive invariant holds: places, calls, lock, CRS and memory mode agree
\* in every reachable state, through panics, restarts and damaged files.
THEOREM Inductive == Spec => []IInv
  BY InitIInv, NextIInv, PTL DEF Spec

\* Every variable keeps its type, and a thread is idle exactly between calls.
THEOREM TypeCorrect == Spec => []TypeOK
  BY Inductive, PTL DEF IInv

\* Whoever proves does so in the memory mode it asked for, whatever the calls
\* of other threads set (configure_memory, under BB_LOCK).
THEOREM ModeMatchesHolds == Spec => []ModeMatches
  <1>1. IInv => ModeMatches
    BY DEF IInv, ThreadOK, ModeMatches, At
  <1> QED  BY <1>1, Inductive, PTL

\* A CRS of a pinned size is the real one, whatever files and network hold.
THEOREM LoadedIsRealHolds == Spec => []LoadedIsReal
  BY Inductive, PTL DEF IInv

-----------------------------------------------------------------------------
\* The CRS that bb holds, if srs_init_srs never panics after it took effect.

\* One thread is under the lock.
LEMMA OneHolder ==
  ASSUME IInv, NEW t \in Threads, NEW u \in Threads, pc[t] \in Held, pc[u] \in Held
  PROVE  t = u
  BY DEF IInv, ThreadOK

\* A step that leaves the CRS and its record alone, reaches the use of the CRS
\* only if it is large enough, and init_crs's success only if it is canonical.
LEMMA CrsKept ==
  ASSUME CrsOK, NEW t \in Threads,
         UNCHANGED <<points, crs>>, pc[t] # "record", pc'[t] # "record",
         \A u \in Threads \ {t} : pc'[u] = pc[u] /\ call'[u] = call[u],
         pc'[t] = "use" => crs.points >= Need(call'[t]) \/ call'[t].op \notin {"prove", "verify"},
         init' = "ok" => init = "ok" \/ crs.points >= CanonicalPoints
  PROVE  CrsOK'
  <1> USE DEF CrsOK, At
  <1>1. \A u \in Threads : pc'[u] = "record" <=> pc[u] = "record" /\ u # t
    OBVIOUS
  <1>2. \A u \in Threads : pc'[u] = "record" => crs'.points = Need(call'[u])
    BY <1>1
  <1>3. (\A u \in Threads : pc'[u] # "record") => crs'.points = points'
    BY <1>1
  <1>4. EnoughPoints'
    BY DEF EnoughPoints, Need
  <1>5. InitReady'
    BY DEF InitReady
  <1> QED  BY <1>2, <1>3, <1>4, <1>5 DEF Need

\* A call that ends with the CRS and its record untouched; if it is init_crs and
\* succeeds, the CRS is canonical.
LEMMA EndKeepsCrs ==
  ASSUME IInv, CrsOK, NEW t \in Threads, NEW ok \in BOOLEAN, Return(t, ok),
         UNCHANGED <<points, lowMem, crs>>, pc[t] # "record",
         call[t].op = "init" /\ ok => init = "ok" \/ crs.points >= CanonicalPoints
  PROVE  CrsOK'
  <1>1. pc'[t] = "idle" /\ \A u \in Threads \ {t} : pc'[u] = pc[u] /\ call'[u] = call[u]
    BY ReturnKeeps
  <1>2. init' = "ok" => init = "ok" \/ crs.points >= CanonicalPoints
    BY DEF Return
  <1> QED  BY <1>1, <1>2, CrsKept

\* A step along the code that reaches neither the record nor the use.
LEMMA GotoKeepsCrs ==
  ASSUME IInv, CrsOK, NEW t \in Threads, NEW place \in Places \ {"record", "use"},
         Goto(t, place), UNCHANGED <<points, crs, call>>, pc[t] # "record",
         init' = "ok" => init = "ok"
  PROVE  CrsOK'
  <1>1. pc'[t] = place /\ \A u \in Threads \ {t} : pc'[u] = pc[u] /\ call'[u] = call[u]
    BY DEF Goto, IInv
  <1> QED  BY <1>1, CrsKept

LEMMA StepKeepsCrs ==
  ASSUME "after" \notin LoadPanics, IInv, CrsOK, NEW t \in Threads, Step(t)
  PROVE  CrsOK'
  <1> USE DEF At
  <1>1. CASE SetSrsPath(t)
    <2>1. call[t].op # "init" /\ pc[t] # "record"
      BY <1>1 DEF SetSrsPath, IInv, ThreadOK
    <2> QED  BY <1>1, <2>1, EndKeepsCrs DEF SetSrsPath
  <1>2. CASE EnterInit(t) \/ SetInitPath(t) \/ ConfigureMemory(t) \/ CacheG1(t)
    BY <1>2, GotoKeepsCrs
       DEF EnterInit, SetInitPath, ConfigureMemory, CacheG1, Places, Held, Loading
  <1>3. CASE JoinInit(t)
    BY <1>3, EndKeepsCrs DEF JoinInit
  <1>4. CASE Lock(t)
    <2>1. CASE call[t].op = "verifyRaw"
      <3>1. /\ pc'[t] = "use" /\ call'[t].op = "verifyRaw" /\ pc[t] # "record"
            /\ \A u \in Threads \ {t} : pc'[u] = pc[u] /\ call'[u] = call[u]
        BY <1>4, <2>1 DEF Lock, Goto, IInv
      <3> QED  BY <1>4, <3>1, CrsKept DEF Lock
    <2>2. CASE call[t].op # "verifyRaw"
      <3>1. PICK place \in {"configure", "ensure"} : Goto(t, place)
        BY <1>4, <2>2 DEF Lock
      <3>2. place \in Places \ {"record", "use"}
        BY DEF Places, Held
      <3> QED  BY <1>4, <3>1, <3>2, GotoKeepsCrs DEF Lock
    <2> QED  BY <2>1, <2>2
  <1>5. CASE EnsureSrs(t)
    <2>1. /\ call[t] \in Calls /\ pc[t] \in Held /\ pc[t] # "record"
          /\ UNCHANGED <<points, lowMem, crs>>
      BY <1>5, Calling DEF EnsureSrs, Held
    <2>2. crs.points = points
      BY <2>1, OneHolder DEF CrsOK, Held, Loading
    <2>3. CASE Return(t, FALSE)
      BY <2>1, <2>3, EndKeepsCrs
    <2>4. CASE points = 0 /\ Goto(t, "read") /\ UNCHANGED <<lock, init, call, bytes>>
      BY <2>1, <2>4, GotoKeepsCrs DEF Places, Held, Loading
    <2>5. CASE Need(call[t]) <= points /\ Ensured(t)
      <3>1. points \in Nat /\ (call[t].op # "setPath" => Need(call[t]) \in Nat)
        <4>1. points \in Nat
          BY SizeFacts DEF IInv, TypeOK
        <4>2. call[t].op # "setPath" => Need(call[t]) \in Nat
          BY <2>1, NeedFacts, SizeFacts
        <4> QED  BY <4>1, <4>2
      <3>2. call[t].op # "setPath"
        BY <1>5 DEF EnsureSrs, IInv, ThreadOK
      <3>3. CASE call[t].op \in {"preinit", "init"}
        <4>1. call[t].op = "init" => crs.points >= CanonicalPoints
          BY <2>1, <2>2, <2>5, <3>1, <3>2, NeedFacts
        <4> QED  BY <2>1, <2>5, <3>3, <4>1, EndKeepsCrs DEF Ensured
      <3>4. CASE call[t].op \notin {"preinit", "init"}
        <4>1. /\ pc'[t] = "use" /\ call' = call /\ init' = init
              /\ \A u \in Threads \ {t} : pc'[u] = pc[u]
          BY <2>5, <3>4 DEF Ensured, Goto, IInv
        <4>2. crs.points >= Need(call'[t])
          BY <2>2, <2>5, <3>1, <3>2, <4>1
        <4> QED  BY <2>1, <4>1, <4>2, CrsKept
      <3> QED  BY <3>3, <3>4
    <2> QED  BY <1>5, <2>3, <2>4, <2>5 DEF EnsureSrs
  <1>6. CASE ReadLocal(t) \/ Download(t)
    <2>1. CASE Return(t, FALSE)
      BY <1>6, <2>1, EndKeepsCrs DEF ReadLocal, Download
    <2>2. CASE /\ Goto(t, "load") \/ Goto(t, "download") \/ Goto(t, "cache")
               /\ UNCHANGED <<init, call>>
      BY <1>6, <2>2, GotoKeepsCrs DEF ReadLocal, Download, Places, Held, Loading
    <2> QED  BY <1>6, <2>1, <2>2 DEF ReadLocal, Download
  <1>7. CASE LoadCrs(t)
    <2>1. CASE Return(t, FALSE) /\ UNCHANGED crs
      BY <1>7, <2>1, EndKeepsCrs DEF LoadCrs
    <2>2. CASE crs' = Loaded(t) /\ Goto(t, "record") /\ UNCHANGED <<lock, init, call, bytes>>
      <3>1. pc[t] = "load" /\ pc[t] \in Held /\ points = 0 /\ points' = points
        BY <1>7 DEF LoadCrs, IInv, ThreadOK, Held, Loading
      <3>2. \A u \in Threads \ {t} : pc[u] \notin Held
        BY <3>1, OneHolder
      <3>3. crs.points = 0
        BY <3>1, <3>2 DEF CrsOK, Held, Loading
      <3>4. /\ pc'[t] = "record" /\ crs'.points = Need(call'[t])
            /\ \A u \in Threads \ {t} : pc'[u] = pc[u] /\ pc'[u] \notin {"record", "use"}
        BY <2>2, <3>2, <3>3 DEF Loaded, Goto, IInv, Held, Loading
      <3>5. init' # "ok"
        BY <2>2, <3>3, SizesAssumption DEF CrsOK, InitReady
      <3> QED  BY <3>4, <3>5 DEF CrsOK, EnoughPoints, InitReady
    <2> QED  BY <1>7, <2>1, <2>2 DEF LoadCrs
  <1>8. CASE LoadPanicked(t)
    BY <1>8, EndKeepsCrs DEF LoadPanicked, Fail
  <1>9. CASE RecordPoints(t)
    <2>1. /\ pc[t] = "record" /\ pc[t] \in Held /\ points = 0 /\ call[t] \in Calls
          /\ call[t].op \in {"prove", "verify", "preinit", "init"}
      BY <1>9, Calling DEF RecordPoints, IInv, ThreadOK, Held, Loading
    <2>2. \A u \in Threads \ {t} : pc[u] \notin Held
      BY <2>1, OneHolder
    <2>3. crs' = crs /\ points' = Need(call[t]) /\ crs.points = Need(call[t])
      BY <1>9, <2>1 DEF RecordPoints, CrsOK
    <2>4. points' \in Nat /\ CanonicalPoints \in Nat
      BY <2>1, <2>3, NeedFacts, SizeFacts
    <2>5. \A u \in Threads \ {t} : pc'[u] \notin {"record", "use"}
      BY <1>9, <2>2 DEF RecordPoints, Ensured, Return, Goto, IInv, Held, Loading
    <2>6. \/ pc'[t] = "idle" /\ init' \in {init, IF call[t].op = "init" THEN "ok" ELSE init}
          \/ pc'[t] = "use" /\ call' = call /\ init' = init
      BY <1>9 DEF RecordPoints, Ensured, Return, Goto, IInv
    <2>7. init' = "ok" => crs.points >= CanonicalPoints
      BY <2>1, <2>3, <2>4, <2>6, NeedFacts DEF CrsOK, InitReady
    <2>8. pc'[t] = "use" => crs'.points >= Need(call'[t])
      BY <2>3, <2>4, <2>6
    <2> QED  BY <2>3, <2>5, <2>6, <2>7, <2>8 DEF CrsOK, EnoughPoints, InitReady
  <1>10. CASE UseCrs(t)
    <2>1. call[t].op # "init" /\ pc[t] # "record"
      BY <1>10 DEF UseCrs, IInv, ThreadOK
    <2> QED  BY <1>10, <2>1, EndKeepsCrs DEF UseCrs
  <1> QED
    BY <1>1, <1>2, <1>3, <1>4, <1>5, <1>6, <1>7, <1>8, <1>9, <1>10 DEF Step

LEMMA CrsOKNext ==
  ASSUME "after" \notin LoadPanics
  PROVE  IInv /\ CrsOK /\ [Next]_vars => CrsOK'
  <1> SUFFICES ASSUME IInv, CrsOK, [Next]_vars PROVE CrsOK'
    OBVIOUS
  <1>1. ASSUME NEW t \in Threads, Step(t) PROVE CrsOK'
    BY <1>1, StepKeepsCrs
  <1>2. ASSUME NEW t \in Threads, NEW c \in Calls, Begin(t, c) PROVE CrsOK'
    <2>1. /\ UNCHANGED <<points, crs, init>> /\ pc[t] = "idle"
          /\ pc'[t] \notin {"record", "use"}
          /\ \A u \in Threads \ {t} : pc'[u] = pc[u] /\ call'[u] = call[u]
      BY <1>2 DEF Begin, Goto, Entry, At, IInv, TypeOK
    <2> QED  BY <2>1, CrsKept
  <1>3. CASE Restart
    <2>1. \A u \in Threads : pc'[u] = "idle"
      BY <1>3 DEF Restart, NewProcess
    <2>2. points' = 0 /\ crs'.points = 0 /\ init' = "unset"
      BY <1>3 DEF Restart, NewProcess
    <2> QED  BY <2>1, <2>2 DEF CrsOK, EnoughPoints, InitReady, At
  <1>4. CASE UNCHANGED process
    BY <1>4 DEF process, CrsOK, EnoughPoints, InitReady, At
  <1> QED  BY <1>1, <1>2, <1>3, <1>4 DEF Next, ChangeFile, vars

LEMMA CrsOKInit == Init => CrsOK
  <1> SUFFICES ASSUME Init PROVE CrsOK
    OBVIOUS
  <1>1. /\ \A t \in Threads : pc[t] = "idle"
        /\ points = 0 /\ crs.points = 0 /\ init = "unset"
    BY DEF Init, NewProcess
  <1> QED  BY <1>1 DEF CrsOK, EnoughPoints, InitReady, At

\* Unless srs_init_srs panics after it took effect, the recorded size is that
\* of the CRS whenever no thread is between the load and the record.
THEOREM CrsOKHolds ==
  ASSUME "after" \notin LoadPanics
  PROVE  Spec => []CrsOK
  BY Inductive, CrsOKInit, CrsOKNext, PTL DEF Spec

\* Then a circuit never runs with fewer points than it needs (ensure_srs_for).
THEOREM EnoughPointsHolds ==
  ASSUME "after" \notin LoadPanics
  PROVE  Spec => []EnoughPoints
  BY CrsOKHolds, PTL DEF CrsOK

\* And once init_crs has succeeded, verify_combined has a canonical CRS.
THEOREM InitReadyHolds ==
  ASSUME "after" \notin LoadPanics
  PROVE  Spec => []InitReady
  BY CrsOKHolds, PTL DEF CrsOK

\* And what is recorded of the CRS is true of it: the panic after the effect is
\* the only way to the state the comment on BB_LOCK excludes.
THEOREM RecordedIsLoadedHolds ==
  ASSUME "after" \notin LoadPanics
  PROVE  Spec => []RecordedIsLoaded
  <1>1. IInv /\ CrsOK => RecordedIsLoaded
    <2> SUFFICES ASSUME IInv, CrsOK, points # 0 PROVE crs.points >= points
      BY DEF RecordedIsLoaded
    <2>1. \A t \in Threads : ~At(t, "record")
      BY DEF IInv, ThreadOK, At, Loading
    <2>2. crs.points = points /\ points \in Nat
      BY <2>1, SizeFacts DEF CrsOK, IInv, TypeOK
    <2> QED  BY <2>2
  <1> QED  BY <1>1, Inductive, CrsOKHolds, PTL

-----------------------------------------------------------------------------
\* The order of calls.

\* What is recorded serves the canonical circuits.
RecordCanonical == points # 0 => points >= CanonicalPoints

\* If preinit_srs is called with no less than the canonical size, no call that
\* came first makes ensure_srs refuse a canonical circuit (ensure_srs_for
\* reserves CANONICAL_SRS_POINTS).
THEOREM CanonicalServedHolds ==
  ASSUME \A n \in PreinitSizes : n >= CanonicalPoints
  PROVE  Spec => []CanonicalServed
  <1>1. Init => RecordCanonical
    BY DEF Init, NewProcess, RecordCanonical
  <1>2. IInv /\ RecordCanonical /\ [Next]_vars => RecordCanonical'
    <2> SUFFICES ASSUME IInv, RecordCanonical, [Next]_vars, points' # points, points' # 0
                 PROVE  points' >= CanonicalPoints
      BY DEF RecordCanonical
    <2>1. PICK t \in Threads : RecordPoints(t)
      BY DEF Next, Step, vars, process, Restart, NewProcess, ChangeFile, Begin, SetSrsPath,
             EnterInit, JoinInit, SetInitPath, Lock, ConfigureMemory, EnsureSrs, ReadLocal,
             Download, CacheG1, LoadCrs, LoadPanicked, Fail, UseCrs
    <2>2. /\ call[t] \in Calls /\ points' = Need(call[t])
          /\ call[t].op \in {"prove", "verify", "preinit", "init"}
      BY <2>1, Calling DEF RecordPoints, IInv, ThreadOK, At, Loading
    <2>3. CanonicalPoints >= CanonicalPoints
      BY SizeFacts
    <2> QED  BY <2>2, <2>3, NeedFacts
  <1>3. IInv /\ RecordCanonical => CanonicalServed
    <2> SUFFICES ASSUME IInv, RecordCanonical, NEW t \in Threads, At(t, "ensure"),
                        points # 0, call[t].size <= CanonicalPoints
                 PROVE  Need(call[t]) <= points
      BY DEF CanonicalServed
    <2>1. call[t] \in Calls /\ CallOK(call[t]) /\ call[t].op # "setPath"
      BY Calling, CallFacts DEF At, IInv, ThreadOK
    <2>2. call[t].size \in Nat /\ points \in Nat /\ CanonicalPoints \in Nat
      BY <2>1, SizeFacts DEF CallOK, IInv, TypeOK
    <2> QED  BY <2>2 DEF Need, RecordCanonical
  <1> QED  BY <1>1, <1>2, <1>3, Inductive, PTL DEF Spec
=============================================================================
