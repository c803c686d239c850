SPECIFICATION Spec
CONSTANTS
  Threads = {t1}
  Sizes = {1, 2}
  CanonicalPoints = 2
  PreinitSizes = {1, 2}
  Pinned = {1, 2}
  Paths = {default}
  DefaultPath = default
  InitPaths = {NoPath}
  NoPath = NoPath
  WithNetwork = TRUE
  FilesChange = FALSE
  LoadPanics = {"after"}
  NoThread = NoThread
  MaxCalls = 2
INVARIANTS
  RecordedIsLoaded
