-------------------------- MODULE MCMacLimitTable --------------------------
(* MacLimitTable for TLC.                                                  *)
EXTENDS MacLimitTable, TLC

Symmetry == Permutations(Cpus) \cup Permutations(Terminals)
=============================================================================
