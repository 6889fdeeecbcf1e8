CONSTANTS
  N = 2
  Gens = {g1, g2}
  Enables = {0, 1}
  Loops = {1}
  Faulty = {"kthread_create", "make_speedtest_pkt"}
  NULL = NULL
  ERR = ERR
SPECIFICATION Spec
SYMMETRY Interchangeable
INVARIANTS TypeOK OneThreadPerSlot  QuietAtRest
CHECK_DEADLOCK FALSE
