----------------------------- MODULE TimerSpec -----------------------------
(***************************************************************************)
(* What the kernel's virtual timers promise: a timer set for n ticks is    *)
(* called back in the n-th tick from there, before the tick after it, once *)
(* and only if nobody resets it first.  VirtualTimers implements this with *)
(* a delta list; Motor uses its two timers by these rules.                 *)
(***************************************************************************)
EXTENDS Integers

CONSTANTS
  Timers,   \* the timers
  Ticks     \* the run times a timer may be set for

VARIABLE
  left      \* ticks left of each timer; 0: due in this tick; -1: not armed

Armed(t) == left[t] # -1

Init == left = [t \in Timers |-> -1]

(* chVTSet: only a timer that is not armed may be set. *)
Set(t, n) ==
  /\ ~Armed(t)
  /\ left' = [left EXCEPT ![t] = n]

(* chVTReset *)
Reset(t) ==
  /\ Armed(t)
  /\ left' = [left EXCEPT ![t] = -1]

(* Time passes only when no callback is due. *)
Tick ==
  /\ \A t \in Timers : left[t] # 0
  /\ left' = [t \in Timers |-> IF Armed(t) THEN left[t] - 1 ELSE -1]

(* The callback of a timer whose time has come. *)
Fire(t) ==
  /\ left[t] = 0
  /\ left' = [left EXCEPT ![t] = -1]

Next ==
  \/ Tick
  \/ \E t \in Timers : \/ Reset(t) \/ Fire(t)
                       \/ \E n \in Ticks : Set(t, n)

Spec == Init /\ [][Next]_left
=============================================================================
