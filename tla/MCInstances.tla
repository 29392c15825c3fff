--------------------------- MODULE MCInstances ---------------------------
(* Small instances of Instances for TLC: the copies are interchangeable. *)
EXTENDS Instances, TLC

Symmetry == Permutations(Apps)
==========================================================================
