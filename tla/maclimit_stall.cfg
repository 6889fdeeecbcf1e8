CONSTANTS
  Cpus = {c1}
  Terminals = {t1, t2}
  Limits = {1}
  MaxLimit = 1
  PROBES = 1
  None = None
SPECIFICATION FairSpec
PROPERTIES RequestServed
