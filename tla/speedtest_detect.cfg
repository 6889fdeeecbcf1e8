CONSTANTS
  N = 2
  Gens = {g1}
  Enables = {1}
  Loops = {0, 1}
  Faulty = {"kmalloc", "make_probe"}
  PERIOD = 1
  LINGER = 2
  NULL = NULL
  ERR = ERR
SPECIFICATION DSpec
INVARIANTS ReadinessIsHeard ProbingGoesOn TimerInitSafe TestHasTheWire UnloadStops
CHECK_DEADLOCK FALSE
