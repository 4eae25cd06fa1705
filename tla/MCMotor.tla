------------------------------ MODULE MCMotor ------------------------------
(* Instances of Motor for TLC. *)
EXTENDS Motor

CONSTANTS t1, t2
=============================================================================
