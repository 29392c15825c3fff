------------------------------- MODULE MCUi -------------------------------
(* Small instances of Ui for TLC. *)
EXTENDS Ui, TLC

Symmetry == Permutations(Ids) \cup Permutations(Passwords \ Short) \cup Permutations(Secrets)
==========================================================================
