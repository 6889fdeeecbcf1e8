CONSTANTS
  N = 2
  Gens = {g1, g2}
  Enables = {0, 1}
  Loops = {1}
  Faulty = {}
  NULL = NULL
  ERR = ERR
SPECIFICATION Spec
INVARIANTS TestIsCounted
CHECK_DEADLOCK FALSE
