---------------------------- MODULE MCScheduler ----------------------------
(* Instances of Scheduler for TLC: three threads of equal priority, one    *)
(* above and one below them.                                               *)
EXTENDS Scheduler, TLC

CONSTANTS low, mid, mate, pal, high

Priorities ==
  Idle :> 0 @@ low :> 1 @@ mid :> 2 @@ mate :> 2 @@ pal :> 2 @@ high :> 3
=============================================================================
