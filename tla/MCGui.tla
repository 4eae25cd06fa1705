------------------------------- MODULE MCGui -------------------------------
(* Instances of Gui for TLC. *)
EXTENDS Gui
=============================================================================
