------------------------- MODULE MCVaultFormat -------------------------
(* Small instances of VaultFormat for TLC. *)
EXTENDS VaultFormat, TLC

Symmetry == Permutations(Passwords) \cup Permutations(Slots)
==========================================================================
