-------------------------- MODULE MCVirtualTimers --------------------------
(* Instances of VirtualTimers for TLC. *)
EXTENDS VirtualTimers

CONSTANTS v1, v2, v3
=============================================================================
