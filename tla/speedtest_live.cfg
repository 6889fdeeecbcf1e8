CONSTANTS
  N = 1
  Gens = {g1}
  Enables = {0, 1}
  Loops = {1}
  Faulty = {}
  PERIOD = 1
  LINGER = 2
  NULL = NULL
  ERR = ERR
SPECIFICATION DFairSpec
PROPERTIES UnloadReturns CommandReturns TestEnds
CHECK_DEADLOCK FALSE
