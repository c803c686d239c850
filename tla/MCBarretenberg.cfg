SPECIFICATION Spec
CONSTANTS
  Threads = {t1, t2}
  Sizes = {1, 2, 3}
  CanonicalPoints = 2
  PreinitSizes = {2, 3}
  Pinned = {1, 2}
  Paths = {default, bundled}
  DefaultPath = default
  InitPaths = {NoPath, bundled}
  NoPath = NoPath
  WithNetwork = TRUE
  FilesChange = TRUE
  LoadPanics = {"before"}
  NoThread = NoThread
  MaxCalls = 3
INVARIANTS
  TypeOK
  ModeMatches
  EnoughPoints
  InitReady
  LoadedIsReal
  CanonicalServed
