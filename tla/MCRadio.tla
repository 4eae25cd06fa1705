------------------------------ MODULE MCRadio ------------------------------
(* Instances of Radio for TLC. *)
EXTENDS Radio

CONSTANTS t1, t2
=============================================================================
