----------------------------- MODULE I2CDriver -----------------------------
(***************************************************************************)
(* A transfer on the I2C bus: i2cAcquireBus, i2cMasterTransmitTimeout,     *)
(* i2cReleaseBus (i2c.c) and i2c_lld_master_transmit_timeout with its      *)
(* interrupts and its safety timer (i2c_lld.c).                            *)
(*                                                                         *)
(* The safety timer vt is a local variable of the transfer: armed is the   *)
(* set of threads whose timer is in the kernel's list.  Which of several   *)
(* waiting threads gets the bus is left open (see Scheduler).              *)
(*                                                                         *)
(* The assertions of the driver are compiled out (chconf.h): a transfer    *)
(* starts whatever the state is.  A timeout that aborts one disables the   *)
(* peripheral, and nothing but i2cStart enables it again.                  *)
(***************************************************************************)
EXTENDS Integers, FiniteSets

CONSTANTS Threads, None

ASSUME BusAssumption == None \notin Threads

VARIABLES
  state,    \* i2cp->state
  thread,   \* i2cp->thread, the thread that sleeps until the transfer ends
  owner,    \* the owner of i2cp->mutex
  armed,    \* the threads whose safety timer is armed
  at,       \* where each thread is in its transfer
  rdymsg,   \* p_rdymsg of each thread
  pe        \* PE of CR1: the peripheral is enabled or not

bus == <<state, thread, owner, armed, at, rdymsg, pe>>

Messages == {"RDY_OK", "RDY_RESET", "RDY_TIMEOUT"}

BusInit ==
  /\ state = "STOP" /\ thread = None /\ owner = None /\ armed = {}
  /\ at = [t \in Threads |-> "out"]
  /\ rdymsg = [t \in Threads |-> "RDY_OK"]
  /\ pe = "off"

(* i2cStart *)
Start ==
  /\ state' = "READY" /\ pe' = "on"
  /\ UNCHANGED <<thread, owner, armed, at, rdymsg>>

(* i2cAcquireBus *)
Acquire(t) ==
  /\ at[t] = "out"
  /\ owner' = IF owner = None THEN t ELSE owner
  /\ at' = [at EXCEPT ![t] = IF owner = None THEN "held" ELSE "wait"]
  /\ UNCHANGED <<state, thread, armed, rdymsg, pe>>

(* i2cMasterTransmitTimeout up to the wait for the bus: the state is not   *)
(* looked at, the safety timer is armed.                                   *)
Transmit(t) ==
  /\ at[t] = "held"
  /\ state' = "ACTIVE_TX"
  /\ armed' = armed \cup {t}
  /\ at' = [at EXCEPT ![t] = "poll"]
  /\ UNCHANGED <<thread, owner, rdymsg, pe>>

(* The bus is no longer busy and there is time left: the transfer starts   *)
(* and the thread sleeps.                                                  *)
Go(t) ==
  /\ at[t] = "poll" /\ t \in armed
  /\ thread' = t
  /\ at' = [at EXCEPT ![t] = "sleep"]
  /\ UNCHANGED <<state, owner, armed, rdymsg, pe>>

(* The timer went off while the thread waited for the bus. *)
BusyTimeout(t) ==
  /\ at[t] = "poll" /\ t \notin armed
  /\ state' = "LOCKED"
  /\ rdymsg' = [rdymsg EXCEPT ![t] = "RDY_TIMEOUT"]
  /\ at' = [at EXCEPT ![t] = "done"]
  /\ UNCHANGED <<thread, owner, armed, pe>>

(* wakeup_isr: the thread that sleeps gets msg. *)
WakeUp(msg) ==
  /\ thread' = None
  /\ at' = [t \in Threads |-> IF t = thread THEN "woken" ELSE at[t]]
  /\ rdymsg' = [t \in Threads |-> IF t = thread THEN msg ELSE rdymsg[t]]

(* The end of the transfer, or an error on the bus: a peripheral that is   *)
(* disabled does not interrupt.                                            *)
Interrupt(msg) ==
  /\ thread # None /\ pe = "on"
  /\ WakeUp(msg)
  /\ UNCHANGED <<state, owner, armed, pe>>

(* Mutant: the timeout does not wake the thread. *)
SafetyTimeoutSilent(t) ==
  /\ t \in armed
  /\ armed' = armed \ {t}
  /\ UNCHANGED <<state, thread, owner, at, rdymsg, pe>>

(* i2c_lld_safety_timeout of the timer of t: it aborts the transfer of     *)
(* whoever sleeps, i2c_lld_abort_operation, and wakes him.                 *)
SafetyTimeout(t) ==
  /\ t \in armed
  /\ armed' = armed \ {t}
  /\ pe' = IF thread # None THEN "off" ELSE pe
  /\ WakeUp("RDY_TIMEOUT")
  /\ UNCHANGED <<state, owner>>

(* Mutant: the timer is left alone. *)
FinishTimerLeft(t) ==
  /\ at[t] = "woken"
  /\ state' = IF rdymsg[t] = "RDY_TIMEOUT" THEN "LOCKED" ELSE "READY"
  /\ at' = [at EXCEPT ![t] = "done"]
  /\ UNCHANGED <<thread, owner, armed, rdymsg, pe>>

(* Mutant: i2cMasterTransmitTimeout does not look at the result. *)
FinishReady(t) ==
  /\ at[t] = "woken"
  /\ armed' = armed \ {t}
  /\ state' = "READY"
  /\ at' = [at EXCEPT ![t] = "done"]
  /\ UNCHANGED <<thread, owner, rdymsg, pe>>

(* The thread runs again: the timer is stopped, the state set. *)
Finish(t) ==
  /\ at[t] = "woken"
  /\ armed' = armed \ {t}
  /\ state' = IF rdymsg[t] = "RDY_TIMEOUT" THEN "LOCKED" ELSE "READY"
  /\ at' = [at EXCEPT ![t] = "done"]
  /\ UNCHANGED <<thread, owner, rdymsg, pe>>

(* The result is returned, and nobody reads p_rdymsg any more; then        *)
(* i2cReleaseBus: the bus goes to a waiting thread.                        *)
Release(t) ==
  LET waiting == {u \in Threads : at[u] = "wait"} IN
  /\ at[t] = "done"
  /\ \E next \in IF waiting = {} THEN {None} ELSE waiting :
       /\ owner' = next
       /\ at' = [u \in Threads |-> IF u = t THEN "out"
                                   ELSE IF u = next THEN "held" ELSE at[u]]
  /\ rdymsg' = [rdymsg EXCEPT ![t] = "RDY_OK"]
  /\ UNCHANGED <<state, thread, armed, pe>>

BusStep(t) ==
  Transmit(t) \/ Go(t) \/ BusyTimeout(t) \/ Finish(t) \/ Release(t)

BusInterrupt ==
  \/ \E msg \in {"RDY_OK", "RDY_RESET"} : Interrupt(msg)
  \/ \E t \in Threads : SafetyTimeout(t)

(* The driver by itself: every sequence of transfers, after i2cStart. *)
BusNext ==
  \/ state = "STOP" /\ Start
  \/ state # "STOP" /\ \E t \in Threads : Acquire(t) \/ BusStep(t)
  \/ BusInterrupt

BusSpec == BusInit /\ [][BusNext]_bus

----------------------------------------------------------------------------
BusTypeOK ==
  /\ state \in {"STOP", "READY", "ACTIVE_TX", "LOCKED"}
  /\ thread \in Threads \cup {None} /\ owner \in Threads \cup {None}
  /\ armed \subseteq Threads
  /\ at \in [Threads -> {"out", "wait", "held", "poll", "sleep", "woken",
                         "done"}]
  /\ rdymsg \in [Threads -> Messages]
  /\ pe \in {"on", "off"}

(* Only the owner of the bus is in a transfer, whatever way the last one   *)
(* ended, and the thread to be woken is the one that sleeps.               *)
OneTransfer ==
  /\ \A t \in Threads : owner = t <=> at[t] \notin {"out", "wait"}
  /\ \A t \in Threads : thread = t <=> at[t] = "sleep"

(* The safety timer lives on the stack of the transfer: it is never armed  *)
(* after the function that declares it has returned, and a thread never    *)
(* sleeps in a transfer without it or without the interrupt that removed   *)
(* it.                                                                     *)
TimerOnLiveStack ==
  /\ \A t \in armed : at[t] \in {"poll", "sleep", "woken"}
  /\ \A t \in Threads : at[t] = "sleep" => t \in armed

(* The state the next caller finds: never another transfer's, and READY    *)
(* only if the peripheral can carry out a transfer.  A timeout leaves      *)
(* LOCKED, and the driver, which "must be stopped and restarted"           *)
(* (i2c_lld.c), is used on as it is: i2cMasterTransmitTimeout then runs    *)
(* against its own assertion of READY, but in no other case.               *)
ReadyIsUsable ==
  /\ \A t \in Threads : at[t] = "held" => state \in {"READY", "LOCKED"}
  /\ state = "READY" => pe = "on"

(* A late timeout does not hit the transfer of another thread: a timer     *)
(* ends only the transfer it was armed for.                                *)
OwnTimeout ==
  [][\A t \in Threads :
       at[t] = "sleep" /\ at'[t] = "woken" /\ rdymsg'[t] = "RDY_TIMEOUT"
         => t \in armed /\ t \notin armed']_bus
=============================================================================
