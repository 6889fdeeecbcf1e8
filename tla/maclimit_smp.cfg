CONSTANTS
  Cpus = {c1, c2}
  Terminals = {t1, t2}
  Limits = {1}
  MaxLimit = 1
  PROBES = 1
  None = None
SPECIFICATION Spec
SYMMETRY Symmetry
INVARIANTS TypeOK  OversleepsOnlyByEarlyWake
PROPERTIES NoChangeUnderReader EvictOnlySilent ImplementsTable
