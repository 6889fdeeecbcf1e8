---------------------------- MODULE MCSpeedTest ----------------------------
(* Model checking of SpeedTest: the names of threads are interchangeable.  *)
EXTENDS SpeedTest, TLC

Interchangeable == Permutations(Gens)
=============================================================================
