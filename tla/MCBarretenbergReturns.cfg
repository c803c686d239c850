SPECIFICATION FairSpec
CONSTANTS
  Threads = {t1, t2}
  Sizes = {1}
  CanonicalPoints = 1
  PreinitSizes = {1}
  Pinned = {1}
  Paths = {default, bundled}
  DefaultPath = default
  InitPaths = {NoPath, bundled}
  NoPath = NoPath
  WithNetwork = FALSE
  FilesChange = TRUE
  LoadPanics = {"before", "after"}
  NoThread = NoThread
  MaxCalls = 3
PROPERTIES
  EveryCallReturns
