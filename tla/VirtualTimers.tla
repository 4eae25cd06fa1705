--------------------------- MODULE VirtualTimers ---------------------------
(***************************************************************************)
(* The kernel's virtual timers (chvt.h, chvt.c): a doubly linked list that *)
(* ends in its header, in which each timer holds the ticks between its     *)
(* deadline and the one before it.                                         *)
(*                                                                         *)
(* Every action is one region under the system lock.  chVTDoTickI gives    *)
(* the lock up around each callback, so that the callback, and any         *)
(* interrupt above the tick's priority, may set and reset timers in the    *)
(* middle of a tick.                                                       *)
(***************************************************************************)
EXTENDS Integers, FiniteSets

CONSTANTS
  Timers,    \* the VirtualTimer structures
  Header,    \* &vtlist
  MaxTime    \* the largest systime_t, TIME_INFINITE

ASSUME TimersAssumption == IsFiniteSet(Timers) /\ Header \notin Timers
ASSUME MaxTimeAssumption == MaxTime \in Nat \ {0}

VARIABLES
  next, prev,   \* vt_next and vt_prev of the timers and of the header
  time,         \* vt_time, a difference; the header's stays MaxTime
  func,         \* whether vt_func is not NULL
  systime,      \* vtlist.vt_systime
  ticking       \* chVTDoTickI is in its loop

vars == <<next, prev, time, func, systime, ticking>>

Nodes == Timers \cup {Header}

(* Following vt_next from the header: the node reached after k timers, and *)
(* the sum of the differences on the way to it.                            *)
Reached ==
  LET f[k \in 0 .. Cardinality(Timers)] ==
        IF k = 0 THEN next[Header] ELSE next[f[k - 1]]
  IN f

Passed ==
  LET f[k \in 0 .. Cardinality(Timers)] ==
        IF k = 0 THEN 0 ELSE f[k - 1] + time[Reached[k - 1]]
  IN f

----------------------------------------------------------------------------
(* _vt_init, on timers that have not been used. *)
Init ==
  /\ next = [v \in Nodes |-> v]
  /\ prev = [v \in Nodes |-> v]
  /\ time = [v \in Nodes |-> IF v = Header THEN MaxTime ELSE 0]
  /\ func = [v \in Timers |-> FALSE]
  /\ systime = 0
  /\ ticking = FALSE

(* The number of timers the loop of chVTSetI passes: it stops at the first *)
(* one whose difference is not below the time that remains.                *)
Stop(n) ==
  CHOOSE k \in 0 .. Cardinality(Timers) :
    /\ time[Reached[k]] >= n - Passed[k]
    /\ \A j \in 0 .. k - 1 : time[Reached[j]] < n - Passed[j]

(* Mutant: the header's time is reduced too and not restored. *)
VTSetINoRestore(v, n) ==
  LET k == Stop(n)
      p == Reached[k]
      rest == n - Passed[k]
  IN /\ ~func[v]
     /\ next' = [next EXCEPT ![v] = p, ![prev[p]] = v]
     /\ prev' = [prev EXCEPT ![v] = prev[p], ![p] = v]
     /\ time' = [time EXCEPT ![v] = rest, ![p] = @ - rest]
     /\ func' = [func EXCEPT ![v] = TRUE]
     /\ UNCHANGED <<systime, ticking>>

(* Mutant: the write to vt_prev->vt_next is forgotten. *)
VTSetIHalfLinked(v, n) ==
  LET k == Stop(n)
      p == Reached[k]
      rest == n - Passed[k]
  IN /\ ~func[v]
     /\ next' = [next EXCEPT ![v] = p]
     /\ prev' = [prev EXCEPT ![v] = prev[p], ![p] = v]
     /\ time' = [time EXCEPT ![v] = rest,
                             ![p] = IF p = Header THEN @ ELSE @ - rest]
     /\ func' = [func EXCEPT ![v] = TRUE]
     /\ UNCHANGED <<systime, ticking>>

(* chVTSetI, on a timer that is not armed. *)
VTSetI(v, n) ==
  LET k == Stop(n)
      p == Reached[k]
      rest == n - Passed[k]
  IN /\ ~func[v]
     /\ next' = [next EXCEPT ![v] = p, ![prev[p]] = v]
     /\ prev' = [prev EXCEPT ![v] = prev[p], ![p] = v]
     /\ time' = [time EXCEPT ![v] = rest,
                             ![p] = IF p = Header THEN @ ELSE @ - rest]
     /\ func' = [func EXCEPT ![v] = TRUE]
     /\ UNCHANGED <<systime, ticking>>

(* Mutant: the timer after the removed one does not get its difference. *)
VTResetINoAdd(v) ==
  /\ func[v]
  /\ next' = [next EXCEPT ![prev[v]] = next[v]]
  /\ prev' = [prev EXCEPT ![next[v]] = prev[v]]
  /\ func' = [func EXCEPT ![v] = FALSE]
  /\ UNCHANGED <<time, systime, ticking>>

(* chVTReset: chVTResetI if the timer is armed. *)
VTResetI(v) ==
  LET p == next[v] IN
  /\ func[v]
  /\ time' = [time EXCEPT ![p] = IF p = Header THEN @ ELSE @ + time[v]]
  /\ next' = [next EXCEPT ![prev[v]] = p]
  /\ prev' = [prev EXCEPT ![p] = prev[v]]
  /\ func' = [func EXCEPT ![v] = FALSE]
  /\ UNCHANGED <<systime, ticking>>

(* chVTDoTickI up to its loop. *)
VTDoTickI ==
  LET p == next[Header] IN
  /\ ~ticking
  /\ systime' = (systime + 1) % (MaxTime + 1)
  /\ time' = [time EXCEPT ![p] = IF p = Header THEN @ ELSE @ - 1]
  /\ ticking' = (p # Header)
  /\ UNCHANGED <<next, prev, func>>

(* One round of the loop: the first timer is unlinked and called back. *)
FireI(v) ==
  /\ ticking
  /\ v = next[Header] /\ time[v] = 0
  /\ func' = [func EXCEPT ![v] = FALSE]
  /\ prev' = [prev EXCEPT ![next[v]] = Header]
  /\ next' = [next EXCEPT ![Header] = next[v]]
  /\ UNCHANGED <<time, systime, ticking>>

(* The loop ends. *)
EndTickI ==
  /\ ticking
  /\ time[next[Header]] # 0
  /\ ticking' = FALSE
  /\ UNCHANGED <<next, prev, time, func, systime>>

(* Mutant: an empty window in place of a whole turn. *)
TimeIsWithinClosed(start, end) ==
  IF end >= start THEN systime >= start /\ systime < end
                  ELSE systime >= start \/ systime < end

(* chTimeIsWithin *)
TimeIsWithin(start, end) ==
  IF end > start THEN systime >= start /\ systime < end
                 ELSE systime >= start \/ systime < end

Loop == EndTickI \/ \E v \in Timers : FireI(v)

Next ==
  \/ \E v \in Timers : \/ \E n \in 1 .. MaxTime : VTSetI(v, n)
                       \/ VTResetI(v)
  \/ VTDoTickI
  \/ Loop

Spec == Init /\ [][Next]_vars

(* The tick interrupt keeps coming and its handler runs to its end. *)
FairSpec == Spec /\ WF_vars(VTDoTickI) /\ WF_vars(Loop)

----------------------------------------------------------------------------
TypeOK ==
  /\ next \in [Nodes -> Nodes]
  /\ prev \in [Nodes -> Nodes]
  /\ time \in [Nodes -> 0 .. MaxTime]
  /\ func \in [Timers -> BOOLEAN]
  /\ systime \in 0 .. MaxTime
  /\ ticking \in BOOLEAN

(* The list holds the armed timers, each once, ends in the header whose    *)
(* time "Must be initialized to -1" (chvt.h) and stays so, and reads the   *)
(* same backwards; no time is outside systime_t.                           *)
ListOK ==
  LET n == Cardinality({v \in Timers : func[v]}) IN
  /\ TypeOK
  /\ {Reached[k] : k \in 0 .. n - 1} = {v \in Timers : func[v]}
  /\ Reached[n] = Header /\ time[Header] = MaxTime
  /\ \A v \in {Header} \cup {u \in Timers : func[u]} : prev[next[v]] = v

(* chTimeIsWithin is right about a window that wraps around the end of     *)
(* systime_t, and true when start = end.                                   *)
WindowWraps ==
  \A start, end \in 0 .. MaxTime :
    TimeIsWithin(start, end) <=>
      \/ start = end
      \/ (systime - start) % (MaxTime + 1) < (end - start) % (MaxTime + 1)

(* The ticks a timer has left: the differences up to it and its own. *)
Left(v) ==
  IF func[v]
    THEN LET k == CHOOSE k \in 0 .. Cardinality(Timers) :
                    Reached[k] = v /\ \A j \in 0 .. k - 1 : Reached[j] # v
         IN Passed[k] + time[v]
    ELSE -1

Abstract == INSTANCE TimerSpec WITH Ticks <- 1 .. MaxTime,
                                    left <- [v \in Timers |-> Left(v)]

(* The delta list keeps the promise of TimerSpec: whatever is set and      *)
(* reset in between, a timer fires in the very tick it was set for.        *)
FiresOnTime == Abstract!Spec

(* A timer that is set fires or is reset. *)
NoTimerForgotten == \A v \in Timers : func[v] ~> ~func[v]
=============================================================================
