------------------------------ MODULE MCDelivery ------------------------------
EXTENDS Delivery, TLC

CONSTANT h1

(* All runs of stage are those of one host. *)
OneHost == [s \in Stagers |-> h1]

Symmetry ==
  Permutations(Packagers) \union Permutations(Stagers) \union Permutations(Dirs)
===============================================================================
