CONSTANTS
  Cpus = {c1}
  Terminals = {t1, t2}
  Limits = {0, 1, 2}
  MaxLimit = 2
  PROBES = 2
  None = None
SPECIFICATION MFairSpec
INVARIANTS WakeSafeWhileLoaded NothingOutlivesModule NodesIntact
PROPERTIES UnloadOfParkedThread RoundEndsInModule
CHECK_DEADLOCK FALSE
