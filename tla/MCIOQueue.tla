----------------------------- MODULE MCIOQueue -----------------------------
(* Instances of IOQueue for TLC. *)
EXTENDS IOQueue

CONSTANTS a, b
=============================================================================
