------------------------------- MODULE MCNetwork -------------------------------
EXTENDS Network, TLC

Symmetry ==
  Permutations(Procs) \union Permutations(Names) \union Permutations(Addrs)
===============================================================================
