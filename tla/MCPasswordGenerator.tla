----------------------- MODULE MCPasswordGenerator -----------------------
(* Small instances of PasswordGenerator for TLC: every choice of classes. *)
EXTENDS PasswordGenerator

MCAsked == SUBSET Classes
==========================================================================
