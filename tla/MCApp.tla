------------------------------ MODULE MCApp ------------------------------
(* Small instances of App for TLC. *)
EXTENDS App, TLC

Symmetry == Permutations(Ids) \cup Permutations(Passwords \ Short) \cup Permutations(Secrets)
==========================================================================
