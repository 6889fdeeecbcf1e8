CONSTANTS
  N = 2
  Gens = {g1, g2}
  Enables = {1}
  Loops = {1}
  Faulty = {}
  NULL = NULL
  ERR = ERR
SPECIFICATION Spec
PROPERTIES CommandStartsTest
CHECK_DEADLOCK FALSE
