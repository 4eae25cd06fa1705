----------------------------- MODULE BootProofs -----------------------------
(***************************************************************************)
(* Proofs about the two drivers under the services, and about Boot, the    *)
(* firmware that uses them.                                                *)
(*                                                                         *)
(* I2CDriver, for any number of threads that share the bus: the inductive  *)
(* invariant says which thread sleeps, which follows from who owns the     *)
(* bus, and whose timer is armed, which follows from where its transfer    *)
(* is.  A second one relates the driver's state to them and to the         *)
(* peripheral: after an abort every transfer ends with RDY_TIMEOUT.        *)
(*                                                                         *)
(* Sonar, for every even buffer depth and every sequence of the calls      *)
(* sonarStart and sonarStop: the conversion group is in place whenever an  *)
(* interrupt may go through it, and between the calls the ADC does what    *)
(* was asked for last, unless the conversion was started while it ran.     *)
(*                                                                         *)
(* Boot: every step of the firmware is one of the driver or the service by *)
(* itself, so that what is shown of them holds of the whole; the wifly     *)
(* thread uses nothing that main has not set up, and is not forgotten in   *)
(* the SPI driver.  The argument for the second: until the heading service *)
(* is set up main is awake or sleeps in chMsgSend only; being the more     *)
(* urgent thread it leaves the wifly thread no step but the two that serve *)
(* its message.  For the third: the wifly thread starts an SPI transfer    *)
(* only while main sleeps in one, for good from then on, or is done.       *)
(***************************************************************************)
EXTENDS Boot, TLAPS

BusInv == BusTypeOK /\ OneTransfer /\ TimerOnLiveStack

(* i2cStart and i2cObjectInit leave a bus nobody uses. *)
LEMMA InitBus == BusInit => BusInv
BY BusAssumption
   DEF BusInit, BusInv, BusTypeOK, OneTransfer, TimerOnLiveStack, Messages

(* Whoever is past i2cAcquireBus owns the bus; all others are outside. *)
LEMMA Exclusive ==
  ASSUME BusInv, NEW t \in Threads, at[t] \notin {"out", "wait"}
  PROVE  /\ owner = t
         /\ \A u \in Threads : u # t => /\ at[u] \in {"out", "wait"}
                                        /\ u \notin armed /\ u # thread
<1>1. owner = t
  BY DEF BusInv, OneTransfer
<1>2. ASSUME NEW u \in Threads, u # t
      PROVE  at[u] \in {"out", "wait"}
  BY <1>1, <1>2 DEF BusInv, OneTransfer
<1>3. ASSUME NEW u \in Threads, u # t
      PROVE  u \notin armed /\ u # thread
  BY <1>2, <1>3 DEF BusInv, OneTransfer, TimerOnLiveStack
<1> QED
  BY <1>1, <1>2, <1>3

(* wakeup_isr leaves the bus with its owner: the thread that slept goes on *)
(* inside its transfer and nobody sleeps, whatever timer is left armed.    *)
LEMMA WakeUpKeeps ==
  ASSUME BusInv, NEW msg \in Messages, WakeUp(msg),
         owner' = owner, state' = state, armed' \subseteq armed,
         pe' \in {"on", "off"}
  PROVE  BusInv'
<1>1. BusTypeOK'
  BY DEF BusInv, BusTypeOK, WakeUp
<1>2. \A t \in Threads : at'[t] = IF t = thread THEN "woken" ELSE at[t]
  BY DEF WakeUp
<1>3. OneTransfer'
  BY <1>2, BusAssumption DEF BusInv, OneTransfer, WakeUp
<1>4. TimerOnLiveStack'
  BY <1>2 DEF BusInv, BusTypeOK, OneTransfer, TimerOnLiveStack
<1> QED
  BY <1>1, <1>3, <1>4 DEF BusInv

(* A thread outside takes the bus or queues up for it. *)
LEMMA AcquireKeeps ==
  ASSUME BusInv, NEW t \in Threads, Acquire(t)
  PROVE  BusInv'
<1>1. BusTypeOK'
  BY DEF BusInv, BusTypeOK, Acquire
<1>2. \A u \in Threads : at'[u] = IF u # t THEN at[u]
                                  ELSE IF owner = None THEN "held" ELSE "wait"
  BY DEF BusInv, BusTypeOK, Acquire
<1>3. OneTransfer'
  BY <1>2, BusAssumption DEF BusInv, OneTransfer, Acquire
<1>4. TimerOnLiveStack'
  BY <1>2 DEF BusInv, BusTypeOK, TimerOnLiveStack, Acquire
<1> QED
  BY <1>1, <1>3, <1>4 DEF BusInv

(* The steps of a transfer: its owner is the only thread they touch. *)
LEMMA BusStepKeeps ==
  ASSUME BusInv, NEW t \in Threads, BusStep(t)
  PROVE  BusInv'
<1>1. at[t] \notin {"out", "wait"}
  BY DEF BusStep, Transmit, Go, BusyTimeout, Finish, Release
<1>2. /\ owner = t
      /\ \A u \in Threads : u # t => /\ at[u] \in {"out", "wait"}
                                     /\ u \notin armed /\ u # thread
  BY <1>1, Exclusive
<1>3. CASE Transmit(t)
  <2>1. BusTypeOK'
    BY <1>3 DEF BusInv, BusTypeOK, Transmit
  <2>2. OneTransfer'
    BY <1>2, <1>3 DEF BusInv, BusTypeOK, OneTransfer, Transmit
  <2>3. TimerOnLiveStack'
    BY <1>2, <1>3 DEF BusInv, BusTypeOK, TimerOnLiveStack, Transmit
  <2> QED
    BY <2>1, <2>2, <2>3 DEF BusInv
<1>4. CASE Go(t)
  <2>1. BusTypeOK'
    BY <1>4 DEF BusInv, BusTypeOK, Go
  <2>2. OneTransfer'
    BY <1>2, <1>4 DEF BusInv, BusTypeOK, OneTransfer, Go
  <2>3. TimerOnLiveStack'
    BY <1>2, <1>4 DEF BusInv, BusTypeOK, TimerOnLiveStack, Go
  <2> QED
    BY <2>1, <2>2, <2>3 DEF BusInv
<1>5. CASE BusyTimeout(t)
  <2>1. BusTypeOK'
    BY <1>5 DEF BusInv, BusTypeOK, BusyTimeout, Messages
  <2>2. OneTransfer'
    BY <1>2, <1>5 DEF BusInv, BusTypeOK, OneTransfer, BusyTimeout
  <2>3. TimerOnLiveStack'
    BY <1>2, <1>5 DEF BusInv, BusTypeOK, TimerOnLiveStack, BusyTimeout
  <2> QED
    BY <2>1, <2>2, <2>3 DEF BusInv
<1>6. CASE Finish(t)
  <2>1. BusTypeOK'
    BY <1>6 DEF BusInv, BusTypeOK, Finish
  <2>2. OneTransfer'
    BY <1>2, <1>6 DEF BusInv, BusTypeOK, OneTransfer, Finish
  <2>3. TimerOnLiveStack'
    BY <1>2, <1>6 DEF BusInv, BusTypeOK, TimerOnLiveStack, Finish
  <2> QED
    BY <2>1, <2>2, <2>3 DEF BusInv
<1>7. CASE Release(t)
  <2>1. PICK next \in {u \in Threads : at[u] = "wait"} \cup {None} :
          /\ owner' = next
          /\ at' = [u \in Threads |-> IF u = t THEN "out"
                                      ELSE IF u = next THEN "held" ELSE at[u]]
    BY <1>7 DEF Release
  <2>2. at[t] = "done" /\ UNCHANGED <<state, thread, armed, pe>>
        /\ rdymsg' = [rdymsg EXCEPT ![t] = "RDY_OK"]
    BY <1>7 DEF Release
  <2>3. BusTypeOK'
    BY <2>1, <2>2 DEF BusInv, BusTypeOK, Messages
  <2>4. \A u \in Threads : at'[u] = IF u = t THEN "out"
                                    ELSE IF u = next THEN "held" ELSE at[u]
    BY <2>1
  <2>5. next # t /\ t \notin armed /\ t # thread
    BY <2>1, <2>2, BusAssumption
       DEF BusInv, OneTransfer, TimerOnLiveStack
  <2>6. OneTransfer'
    BY <1>2, <2>1, <2>2, <2>4, <2>5, BusAssumption DEF OneTransfer
  <2>7. TimerOnLiveStack'
    BY <1>2, <2>2, <2>4, <2>5 DEF BusInv, BusTypeOK, TimerOnLiveStack
  <2> QED
    BY <2>3, <2>6, <2>7 DEF BusInv
<1> QED
  BY <1>3, <1>4, <1>5, <1>6, <1>7 DEF BusStep

(* Every step of the driver keeps the invariant. *)
LEMMA NextBus == BusInv /\ [BusNext]_bus => BusInv'
<1> SUFFICES ASSUME BusInv, [BusNext]_bus
             PROVE  BusInv'
  OBVIOUS
<1>1. CASE UNCHANGED bus
  BY <1>1 DEF bus, BusInv, BusTypeOK, OneTransfer, TimerOnLiveStack
<1>2. CASE Start
  BY <1>2 DEF Start, BusInv, BusTypeOK, OneTransfer, TimerOnLiveStack
<1>3. ASSUME NEW msg \in {"RDY_OK", "RDY_RESET"}, Interrupt(msg)
      PROVE  BusInv'
  BY <1>3, WakeUpKeeps DEF Interrupt, Messages, BusInv, BusTypeOK
<1>4. ASSUME NEW t \in Threads, SafetyTimeout(t)
      PROVE  BusInv'
  <2>1. armed' \subseteq armed /\ UNCHANGED <<state, owner>>
    BY <1>4 DEF SafetyTimeout
  <2>2. WakeUp("RDY_TIMEOUT") /\ pe' \in {"on", "off"}
    BY <1>4 DEF SafetyTimeout, BusInv, BusTypeOK
  <2> QED
    BY <2>1, <2>2, WakeUpKeeps DEF Messages
<1> QED
  BY <1>1, <1>2, <1>3, <1>4, AcquireKeeps, BusStepKeeps
     DEF BusNext, BusInterrupt

(* The driver's state is well typed, and together with the next two        *)
(* theorems inductive.                                                     *)
THEOREM BusInvariant == BusSpec => []BusInv
BY InitBus, NextBus, PTL DEF BusSpec

(* Whatever way a transfer ends, only the owner of the mutex is ever in    *)
(* one, and i2cp->thread is the thread that sleeps in it.                  *)
THEOREM OneTransferAlways == BusSpec => []OneTransfer
<1>1. BusInv => OneTransfer
  BY DEF BusInv
<1> QED
  BY <1>1, BusInvariant, PTL

(* The safety timer of i2c_lld_master_transmit_timeout, a local variable,  *)
(* is out of the kernel's list when the function has returned.             *)
THEOREM TimerNeverDangles == BusSpec => []TimerOnLiveStack
<1>1. BusInv => TimerOnLiveStack
  BY DEF BusInv
<1> QED
  BY <1>1, BusInvariant, PTL

(* i2c_lld_safety_timeout wakes whoever sleeps on the driver: that is      *)
(* always the thread whose timer ran out.                                  *)
LEMMA TimeoutIsOwn ==
  ASSUME BusInv, BusNext, NEW u \in Threads,
         at[u] = "sleep", at'[u] = "woken", rdymsg'[u] = "RDY_TIMEOUT"
  PROVE  u \in armed /\ u \notin armed'
<1>1. /\ owner = u
      /\ \A t \in Threads : t # u => at[t] \in {"out", "wait"} /\ t \notin armed
  BY Exclusive
<1>2. CASE Start
  BY <1>2 DEF Start
<1>3. ASSUME NEW msg \in {"RDY_OK", "RDY_RESET"}, Interrupt(msg)
      PROVE  FALSE
  <2>1. thread = u
    BY DEF BusInv, OneTransfer
  <2>2. rdymsg'[u] = msg
    BY <1>3, <2>1 DEF Interrupt, WakeUp
  <2> QED
    BY <2>2
<1>4. ASSUME NEW t \in Threads, SafetyTimeout(t)
      PROVE  u \in armed /\ u \notin armed'
  <2>1. t \in armed /\ armed' = armed \ {t}
    BY <1>4 DEF SafetyTimeout
  <2> QED
    BY <1>1, <2>1
<1>5. ASSUME NEW t \in Threads, Acquire(t)
      PROVE  FALSE
  BY <1>5 DEF Acquire, BusInv, BusTypeOK
<1>6. ASSUME NEW t \in Threads, BusStep(t)
      PROVE  FALSE
  <2>1. at[t] \notin {"out", "wait"}
    BY <1>6 DEF BusStep, Transmit, Go, BusyTimeout, Finish, Release
  <2>2. t = u
    BY <1>1, <2>1
  <2> QED
    BY <1>6, <2>2 DEF BusStep, Transmit, Go, BusyTimeout, Finish, Release
<1> QED
  BY <1>2, <1>3, <1>4, <1>5, <1>6 DEF BusNext, BusInterrupt

(* A late safety timeout never ends the transfer of another thread. *)
THEOREM TimeoutsAreOwn == BusSpec => OwnTimeout
<1>1. BusInv /\ [BusNext]_bus =>
        [\A t \in Threads :
           at[t] = "sleep" /\ at'[t] = "woken" /\ rdymsg'[t] = "RDY_TIMEOUT"
             => t \in armed /\ t \notin armed']_bus
  BY TimeoutIsOwn
<1> QED
  BY <1>1, BusInvariant, PTL DEF BusSpec, OwnTimeout

(* The driver's state is that of its transfers, and the peripheral works   *)
(* whenever one ended without a timeout.                                   *)
StateInv ==
  /\ ReadyIsUsable
  /\ state = "STOP" => \A t \in Threads : at[t] = "out"
  /\ state = "ACTIVE_TX" <=> \E t \in Threads : at[t] \in {"poll", "sleep", "woken"}
  /\ pe = "off" => \A t \in Threads : at[t] = "woken" => rdymsg[t] = "RDY_TIMEOUT"

(* The interrupts leave the state alone; the one that disables the         *)
(* peripheral tells the thread it wakes.                                   *)
LEMMA BusInterruptState ==
  ASSUME BusInv, StateInv, BusInterrupt
  PROVE  StateInv'
<1>1. \A t \in Threads : thread = t <=> at[t] = "sleep"
  BY DEF BusInv, OneTransfer
<1>2. ASSUME NEW msg \in {"RDY_OK", "RDY_RESET"}, Interrupt(msg)
      PROVE  StateInv'
  <2>1. WakeUp(msg) /\ state' = state /\ pe' = "on"
    BY <1>2 DEF Interrupt
  <2>2. \A t \in Threads : at'[t] = IF t = thread THEN "woken" ELSE at[t]
    BY <2>1 DEF WakeUp
  <2> QED
    BY <1>1, <2>1, <2>2 DEF StateInv, ReadyIsUsable
<1>3. ASSUME NEW u \in Threads, SafetyTimeout(u)
      PROVE  StateInv'
  <2>1. WakeUp("RDY_TIMEOUT") /\ state' = state
        /\ pe' = IF thread # None THEN "off" ELSE pe
    BY <1>3 DEF SafetyTimeout
  <2>2. \A t \in Threads : at'[t] = IF t = thread THEN "woken" ELSE at[t]
    BY <2>1 DEF WakeUp
  <2>3. \A t \in Threads :
          rdymsg'[t] = IF t = thread THEN "RDY_TIMEOUT" ELSE rdymsg[t]
    BY <2>1 DEF WakeUp
  <2>4. CASE thread = None
    <3>1. \A t \in Threads : at'[t] = at[t] /\ rdymsg'[t] = rdymsg[t]
      BY <2>2, <2>3, <2>4, BusAssumption
    <3> QED
      BY <2>1, <2>4, <3>1 DEF StateInv, ReadyIsUsable
  <2>5. CASE thread # None
    <3>1. thread \in Threads
      BY <2>5 DEF BusInv, BusTypeOK
    <3>2. at[thread] = "sleep"
      BY <1>1, <3>1
    <3>3. \A t \in Threads : t # thread => at[t] \in {"out", "wait"}
      BY <3>1, <3>2, Exclusive
    <3>4. state = "ACTIVE_TX"
      BY <3>1, <3>2 DEF StateInv
    <3> QED
      BY <2>1, <2>2, <2>3, <3>1, <3>3, <3>4 DEF StateInv, ReadyIsUsable
  <2> QED
    BY <2>4, <2>5
<1> QED
  BY <1>2, <1>3 DEF BusInterrupt

(* The steps of the transfer that owns the bus. *)
LEMMA BusStepState ==
  ASSUME BusInv, StateInv, NEW t \in Threads, BusStep(t)
  PROVE  StateInv'
<1>1. at[t] \notin {"out", "wait"}
  BY DEF BusStep, Transmit, Go, BusyTimeout, Finish, Release
<1>2. \A u \in Threads : u # t => at[u] \in {"out", "wait"}
  BY <1>1, Exclusive
<1>3. at \in [Threads -> {"out", "wait", "held", "poll", "sleep", "woken", "done"}]
      /\ rdymsg \in [Threads -> Messages] /\ pe \in {"on", "off"}
  BY DEF BusInv, BusTypeOK
<1>4. state # "STOP"
  BY <1>1 DEF StateInv
<1>5. CASE Transmit(t)
  <2>1. state' = "ACTIVE_TX" /\ pe' = pe /\ rdymsg' = rdymsg
        /\ at' = [at EXCEPT ![t] = "poll"]
    BY <1>5 DEF Transmit
  <2> QED
    BY <1>2, <1>3, <2>1 DEF StateInv, ReadyIsUsable
<1>6. CASE Go(t)
  <2>1. UNCHANGED <<state, rdymsg, pe>> /\ at[t] = "poll"
        /\ at' = [at EXCEPT ![t] = "sleep"]
    BY <1>6 DEF Go
  <2> QED
    BY <1>2, <1>3, <2>1 DEF StateInv, ReadyIsUsable
<1>7. CASE BusyTimeout(t)
  <2>1. state' = "LOCKED" /\ pe' = pe /\ at' = [at EXCEPT ![t] = "done"]
    BY <1>7 DEF BusyTimeout
  <2> QED
    BY <1>2, <1>3, <2>1 DEF StateInv, ReadyIsUsable
<1>8. CASE Finish(t)
  <2>1. pe' = pe /\ at[t] = "woken" /\ at' = [at EXCEPT ![t] = "done"]
        /\ state' = IF rdymsg[t] = "RDY_TIMEOUT" THEN "LOCKED" ELSE "READY"
    BY <1>8 DEF Finish
  <2>2. pe = "off" => rdymsg[t] = "RDY_TIMEOUT"
    BY <2>1 DEF StateInv
  <2> QED
    BY <1>2, <1>3, <2>1, <2>2 DEF StateInv, ReadyIsUsable
<1>9. CASE Release(t)
  <2>1. PICK next :
          at' = [u \in Threads |-> IF u = t THEN "out"
                                   ELSE IF u = next THEN "held" ELSE at[u]]
    BY <1>9 DEF Release
  <2>2. UNCHANGED <<state, pe>> /\ at[t] = "done"
    BY <1>9 DEF Release
  <2>3. \A u \in Threads : at'[u] \in {"out", "wait", "held"}
    BY <1>2, <2>1
  <2>4. state \in {"READY", "LOCKED"}
    BY <1>2, <1>4, <2>2 DEF StateInv, BusInv, BusTypeOK
  <2> QED
    BY <2>2, <2>3, <2>4 DEF StateInv, ReadyIsUsable
<1> QED
  BY <1>5, <1>6, <1>7, <1>8, <1>9 DEF BusStep

(* Every step of the driver keeps the second invariant. *)
LEMMA NextState == BusInv /\ StateInv /\ [BusNext]_bus => StateInv'
<1> SUFFICES ASSUME BusInv, StateInv, [BusNext]_bus
             PROVE  StateInv'
  OBVIOUS
<1>1. CASE UNCHANGED bus
  BY <1>1 DEF bus, StateInv, ReadyIsUsable
<1>2. CASE state = "STOP" /\ Start
  BY <1>2 DEF Start, StateInv, ReadyIsUsable
<1>3. ASSUME NEW t \in Threads, state # "STOP", Acquire(t)
      PROVE  StateInv'
  <2>1. UNCHANGED <<state, rdymsg, pe>>
    BY <1>3 DEF Acquire
  <2>2. \A u \in Threads : at'[u] = IF u # t THEN at[u]
                                    ELSE IF owner = None THEN "held" ELSE "wait"
    BY <1>3 DEF BusInv, BusTypeOK, Acquire
  <2>3. at[t] = "out"
    BY <1>3 DEF Acquire
  <2>4. owner = None => \A u \in Threads : at[u] \in {"out", "wait"}
    BY BusAssumption DEF BusInv, OneTransfer
  <2>5. owner = None => state \in {"READY", "LOCKED"}
    BY <1>3, <2>4 DEF StateInv, BusInv, BusTypeOK
  <2> QED
    BY <1>3, <2>1, <2>2, <2>3, <2>5 DEF StateInv, ReadyIsUsable
<1> QED
  BY <1>1, <1>2, <1>3, BusInterruptState, BusStepState DEF BusNext

(* The state a caller of i2cMasterTransmitTimeout finds is READY or, after *)
(* a timeout nobody handled, LOCKED; and a driver that is READY has its    *)
(* peripheral enabled, for any number of threads that share it.            *)
THEOREM ReadyAlwaysUsable == BusSpec => []ReadyIsUsable
<1>1. BusInit => StateInv
  BY DEF BusInit, StateInv, ReadyIsUsable
<1>2. StateInv => ReadyIsUsable
  BY DEF StateInv
<1> QED
  BY <1>1, <1>2, NextState, BusInvariant, PTL DEF BusSpec

----------------------------------------------------------------------------
(* What holds inside the two unlocked functions: the group is in place     *)
(* from before the stream is enabled until after the ADC is off, and a     *)
(* driver that is READY has nothing running, so that a conversion that is  *)
(* not started twice starts from a quiet ADC.                              *)
Inside ==
  /\ sonar_at \in {"dma", "enable", "adc", "stopdma", "stopadc", "ready"} =>
       adc_state \in {"ADC_ACTIVE", "ADC_ERROR"}
  /\ adc_state \in {"ADC_ACTIVE", "ADC_ERROR"} => grpp = "set"
  /\ sonar_at \in {"group", "dma", "enable", "adc"} => sonar_en = "on"
  /\ sonar_at \in {"check", "stopdma", "stopadc", "ready"} => sonar_en = "off"
  /\ restarted = "yes" => adc_state \in {"ADC_ACTIVE", "ADC_ERROR"}
  /\ restarted = "no" /\ sonar_at \in {"dma", "enable", "adc"} =>
       adc = "off" /\ dma_flags = {}
  /\ restarted = "no" /\ sonar_at = "adc" => dma = "on"
  /\ sonar_at \in {"stopadc", "ready"} => dma = "off" /\ dma_flags = {}
  /\ sonar_at = "ready" => adc = "off"
  /\ adc_state = "ADC_ERROR" => hung = "yes"
  /\ adc_state \in {"ADC_STOP", "ADC_READY"} =>
       dma = "off" /\ adc = "off" /\ dma_flags = {}
  /\ adc_state = "ADC_STOP" => sonar_at = "out" /\ sonar_en = "off"

(* The inductive invariant. *)
SonarInv == SonarTypeOK /\ GroupBehindInterrupts /\ SonarAsAsked /\ Inside

(* The invariant holds when the service starts. *)
LEMMA SonarInitially == SonarInit => SonarInv
  BY DepthAssumption
  DEF SonarInit, SonarInv, SonarTypeOK, GroupBehindInterrupts, SonarAsAsked, Inside

(* Every piece of sonarStart and sonarStop keeps it. *)
LEMMA ThreadKeeps ==
  ASSUME SonarInv, hung = "no", adc_state # "ADC_STOP",
         SonarStart \/ SonarStop \/ SonarStep
  PROVE  SonarInv'
  <1> USE DEF SonarInv, SonarTypeOK, GroupBehindInterrupts, SonarAsAsked, Inside, From
  <1>1. CASE SonarStart BY <1>1 DEF SonarStart
  <1>2. CASE SonarStop BY <1>2 DEF SonarStop
  <1>3. CASE SetGroup BY <1>3 DEF SetGroup
  <1>4. CASE SetMode BY <1>4, DepthAssumption DEF SetMode
  <1>5. CASE EnableDma BY <1>5 DEF EnableDma
  <1>6. CASE StartAdc BY <1>6 DEF StartAdc
  <1>7. CASE StopCheck BY <1>7 DEF StopCheck
  <1>8. CASE StopDma BY <1>8 DEF StopDma
  <1>9. CASE StopAdc BY <1>9 DEF StopAdc
  <1>10. CASE Stopped BY <1>10 DEF Stopped
  <1> QED BY <1>1, <1>2, <1>3, <1>4, <1>5, <1>6, <1>7, <1>8, <1>9, <1>10 DEF SonarStep

(* So do the interrupts, wherever they fall. *)
LEMMA InterruptsKeep ==
  ASSUME SonarInv, hung = "no", SonarInterrupt
  PROVE  SonarInv'
  <1> USE DEF SonarInv, SonarTypeOK, GroupBehindInterrupts, SonarAsAsked, Inside
  <1>1. CASE Convert BY <1>1, DepthAssumption DEF Convert
  <1>2. CASE Overrun BY <1>2 DEF Overrun
  <1>3. CASE AdcInterrupt BY <1>3 DEF AdcInterrupt, ErrorCode
  <1>4. ASSUME NEW distance \in Distances, DmaInterrupt(distance)
        PROVE  SonarInv'
    <2>1. CASE "error" \in dma_flags BY <1>4, <2>1 DEF DmaInterrupt, ErrorCode
    <2>2. CASE "error" \notin dma_flags BY <1>4, <2>2 DEF DmaInterrupt
    <2> QED BY <2>1, <2>2
  <1>5. CASE DmaError BY <1>5 DEF DmaError
  <1> QED BY <1>1, <1>2, <1>3, <1>4, <1>5 DEF SonarInterrupt

(* Every step of the service keeps the invariant. *)
LEMMA SonarNextInv == SonarInv /\ [hung = "no" /\ SonarNext]_sonar => SonarInv'
<1> SUFFICES ASSUME SonarInv, [hung = "no" /\ SonarNext]_sonar PROVE SonarInv'
  OBVIOUS
<1>1. CASE AdcStart /\ adc_state = "ADC_STOP"
  BY <1>1
     DEF AdcStart, SonarInv, SonarTypeOK, GroupBehindInterrupts, SonarAsAsked, Inside
<1>2. CASE UNCHANGED sonar
  BY <1>2
     DEF sonar, SonarInv, SonarTypeOK, GroupBehindInterrupts, SonarAsAsked, Inside
<1> QED
  BY <1>1, <1>2, ThreadKeeps, InterruptsKeep DEF SonarNext

(* The invariant holds of the service for every even depth of the buffer. *)
THEOREM SonarInvariant == SonarSpec => []SonarInv
BY SonarInitially, SonarNextInv, PTL DEF SonarSpec

(* The handlers of the ADC and of its DMA stream never find the group      *)
(* gone while they can be called, although sonarStart and sonarStop call   *)
(* the driver without the lock it asks for.                                *)
THEOREM GroupAlwaysBehind == SonarSpec => []GroupBehindInterrupts
  BY SonarInvariant, PTL DEF SonarInv

(* After every sonarStop the sonar is quiet, also when it is called twice  *)
(* or after a conversion that was started while it ran; after a sonarStart *)
(* it runs, unless the conversion was started while it ran.                *)
THEOREM SonarObeys == SonarSpec => []SonarAsAsked
  BY SonarInvariant, PTL DEF SonarInv

----------------------------------------------------------------------------
(* The firmware. *)

MainLabels ==
  {"create", "assign", "send", "sent", "motor", "sonar", "memssetup",
   "magsetup", "mag", "transfer", "mems", "spi", "spidone", "idle"}

WiflyLabels ==
  {"none", "loop", "serve", "motor", "sonar", "sonarcall", "mag", "transfer",
   "mems", "spi", "spidone"}

(* The labels of main up to its first I2C transfer, in order. *)
Starting == {"create", "assign", "send", "sent"}
Early    == Starting \cup {"motor", "sonar", "memssetup", "magsetup", "mag"}

Labels == pc \in [Threads -> MainLabels \cup WiflyLabels]
            /\ pc[Main] \in MainLabels /\ pc[Wifly] \in WiflyLabels

(* What has been set up follows from where main is. *)
SetUp ==
  /\ wifly_tp = IF pc[Main] \in {"create", "assign"} THEN None ELSE Wifly
  /\ "motor" \in ready <=> pc[Main] \notin Starting \cup {"motor"}
  /\ "adc" \in ready <=> pc[Main] \notin Starting \cup {"motor", "sonar"}
  /\ "spi" \in ready <=>
       pc[Main] \notin Starting \cup {"motor", "sonar", "memssetup"}
  /\ "i2c" \in ready <=> pc[Main] \notin Early \ {"mag"}
  /\ adc_state = "ADC_STOP" <=> "adc" \notin ready
  /\ state = "STOP" <=> "i2c" \notin ready

(* The wifly thread does not exist, or waits for its turn, or serves the   *)
(* message of main.                                                        *)
Patient ==
  /\ pc[Main] = "create" <=> pc[Wifly] = "none"
  /\ pc[Main] \in Early => pc[Wifly] \in {"none", "loop", "serve"}
  /\ pc[Wifly] = "serve" => pc[Main] = "sent"

(* A thread is in an I2C transfer at one label only; it has an SPI         *)
(* transfer left while it does one; who is to be woken by the SPI driver   *)
(* sleeps.                                                                 *)
Sensors ==
  /\ \A t \in Threads : pc[t] # "transfer" => at[t] = "out"
  /\ \A t \in Threads : pc[t] \in {"mems", "spi", "spidone"} => left[t] > 0
  /\ \A t \in Threads : spi_thread = t => pc[t] = "spi"

(* The part of the invariant that is about Boot's own state. *)
OwnInv ==
  /\ left \in [Threads -> 0 .. 3] /\ ready \subseteq {"motor", "adc", "spi", "i2c"}
  /\ spi_state \in {"STOP", "READY", "ACTIVE"}
  /\ spi_thread \in Threads \cup {None}
  /\ Labels /\ SetUp /\ Patient /\ Sensors

BootInv == BusInv /\ SonarInv /\ OwnInv

----------------------------------------------------------------------------
(* The two threads. *)
LEMMA TwoThreads ==
  /\ Main \in Threads /\ Wifly \in Threads /\ Main # Wifly
  /\ \A t \in Threads : t = Main \/ t = Wifly
  /\ None \notin Threads
BY BootAssumption, BusAssumption

(* Main is awake until its first transfer, except in chMsgSend, and the    *)
(* wifly thread does not run while it is.                                  *)
LEMMA WiflyRunsLate ==
  ASSUME BootInv, Runs(Wifly)
  PROVE  /\ pc[Main] \notin Early \ {"sent"}
         /\ pc[Wifly] \notin {"none", "spi"}
<1>1. ASSUME pc[Main] \in Early \ {"sent"} PROVE FALSE
  <2>1. Awake(Main)
    BY <1>1, TwoThreads DEF BootInv, OwnInv, Sensors, Awake, Early, Starting
  <2>2. Prio(Main) <= Prio(Wifly)
    BY <2>1, TwoThreads DEF Runs
  <2> QED
    BY <2>2, TwoThreads DEF Prio, WiflyPrio, NORMALPRIO
<1>2. pc[Wifly] \notin {"none", "spi"}
  BY DEF Runs, Awake
<1> QED
  BY <1>1, <1>2

(* Every step of Boot is a step of the I2C driver or leaves it alone: a    *)
(* transfer comes after i2cStart, which is called once.                    *)
LEMMA BusSteps == BootInv /\ [Next]_vars => [BusNext]_bus
<1> SUFFICES ASSUME BootInv, [Next]_vars PROVE [BusNext]_bus
  OBVIOUS
<1>1. CASE UNCHANGED vars
  BY <1>1 DEF vars
<1>2. CASE Hang
  BY <1>2 DEF Hang, vars
<1>3. CASE SpiInterrupt \/ AdcEvent
  BY <1>3 DEF SpiInterrupt, AdcEvent
<1>4. CASE I2CInterrupt
  BY <1>4 DEF I2CInterrupt, BusNext
<1>5. ASSUME NEW t \in Threads, Step(t) PROVE [BusNext]_bus
  <2>1. CASE MagSetup
    <3>1. state = "STOP"
      BY <2>1 DEF MagSetup, BootInv, OwnInv, SetUp, Early
    <3> QED
      BY <2>1, <3>1 DEF MagSetup, BusNext
  <2>2. CASE Mag(t) \/ Transfer(t)
    <3>1. pc[t] \in {"mag", "transfer"}
      BY <2>2 DEF Mag, Transfer
    <3>2. pc[Main] \notin Early \ {"mag"}
      BY <3>1, TwoThreads DEF BootInv, OwnInv, Patient, Early, Starting
    <3>3. state # "STOP"
      BY <3>2 DEF BootInv, OwnInv, SetUp
    <3> QED
      BY <2>2, <3>3 DEF Mag, Transfer, BusNext
  <2>3. CASE Create \/ Assign \/ SendInit
    BY <2>3 DEF Create, Assign, SendInit
  <2>4. CASE Setup("motor", "motor", "sonar") \/ Setup("adc", "sonar", "memssetup")
               \/ Setup("spi", "memssetup", "magsetup")
    BY <2>4 DEF Setup
  <2>5. CASE Loop \/ Serve \/ Command \/ SonarCommand \/ SonarCall
    BY <2>5 DEF Loop, Serve, Command, SonarCommand, SonarCall
  <2>6. CASE Mems(t) \/ SpiDone(t)
    BY <2>6 DEF Mems, SpiDone
  <2> QED
    BY <1>5, <2>1, <2>2, <2>3, <2>4, <2>5, <2>6 DEF Step
<1> QED
  BY <1>1, <1>2, <1>3, <1>4, <1>5 DEF Next

(* Every step of Boot is a step of the sonar service or leaves it alone:   *)
(* sonarStart and sonarStop are called after sonarInit, which is called    *)
(* once, and nothing happens after an interrupt has hung the system.       *)
LEMMA SonarSteps ==
  BootInv /\ [Next]_vars => [hung = "no" /\ SonarNext]_sonar
<1> SUFFICES ASSUME BootInv, [Next]_vars
             PROVE  [hung = "no" /\ SonarNext]_sonar
  OBVIOUS
<1>1. CASE UNCHANGED vars
  BY <1>1 DEF vars, devices
<1>2. CASE Hang
  BY <1>2 DEF Hang, vars, devices
<1>3. CASE SpiInterrupt
  BY <1>3 DEF SpiInterrupt
<1>4. CASE hung = "no" /\ AdcEvent
  BY <1>4 DEF AdcEvent, SonarNext
<1>5. CASE I2CInterrupt
  BY <1>5 DEF I2CInterrupt, devices
<1>6. ASSUME NEW t \in Threads, hung = "no", Step(t)
      PROVE  [hung = "no" /\ SonarNext]_sonar
  <2>1. CASE MagSetup \/ Mag(t) \/ Transfer(t) \/ SpiDone(t)
    BY <2>1 DEF MagSetup, Mag, Transfer, SpiDone, devices
  <2>2. CASE Create \/ Assign \/ SendInit \/ Loop \/ Serve \/ Command
    BY <2>2 DEF Create, Assign, SendInit, Loop, Serve, Command, devices
  <2>3. CASE Mems(t)
    BY <2>3 DEF Mems
  <2>4. CASE Setup("motor", "motor", "sonar") \/ Setup("spi", "memssetup", "magsetup")
    BY <2>4 DEF Setup
  <2>5. CASE Setup("adc", "sonar", "memssetup")
    <3>1. adc_state = "ADC_STOP"
      BY <2>5 DEF Setup, BootInv, OwnInv, SetUp
    <3>2. AdcStart
      BY <2>5 DEF Setup
    <3> QED
      BY <1>6, <3>1, <3>2 DEF SonarNext
  <2>6. CASE SonarCommand \/ SonarCall
    <3>1. pc[Wifly] \in {"sonar", "sonarcall"}
      BY <2>6 DEF SonarCommand, SonarCall
    <3>2. pc[Main] \notin Early
      BY <3>1 DEF BootInv, OwnInv, Patient
    <3>3. adc_state # "ADC_STOP"
      BY <3>2 DEF BootInv, OwnInv, SetUp, Early
    <3>4. SonarStart \/ SonarStop \/ SonarStep
      BY <2>6 DEF SonarCommand, SonarCall
    <3> QED
      BY <1>6, <3>3, <3>4 DEF SonarNext
  <2> QED
    BY <1>6, <2>1, <2>2, <2>3, <2>4, <2>5, <2>6 DEF Step
<1> QED
  BY <1>1, <1>2, <1>3, <1>4, <1>5, <1>6 DEF Next

----------------------------------------------------------------------------
(* A thread goes on to another label, outside of its I2C transfers. *)
LEMMA GotoKeeps ==
  ASSUME BootInv, NEW t \in Threads, NEW label, Goto(t, label), Runs(t),
         IF t = Main THEN label \in MainLabels \ {"create"}
                     ELSE label \in WiflyLabels \ {"none"}
  PROVE  /\ Labels' /\ pc'[t] = label /\ pc[t] # "spi"
         /\ \A u \in Threads : u # t => pc'[u] = pc[u]
<1>1. pc' = [pc EXCEPT ![t] = label] /\ pc \in [Threads -> MainLabels \cup WiflyLabels]
      /\ pc[Main] \in MainLabels /\ pc[Wifly] \in WiflyLabels
  BY DEF Goto, BootInv, OwnInv, Labels
<1>2. label \in MainLabels \cup WiflyLabels
  OBVIOUS
<1>3. pc'[t] = label /\ \A u \in Threads : u # t => pc'[u] = pc[u]
  BY <1>1
<1>4. pc' \in [Threads -> MainLabels \cup WiflyLabels]
  BY <1>1, <1>2
<1>5. Labels'
  BY <1>1, <1>3, <1>4, TwoThreads DEF Labels
<1> QED
  BY <1>3, <1>5 DEF Runs, Awake

(* The steps of main up to its first transfer. *)
LEMMA StartKeeps ==
  ASSUME BootInv, Create \/ Assign \/ SendInit
  PROVE  OwnInv'
<1> USE TwoThreads
    DEF BootInv, OwnInv, SetUp, Patient, Sensors, Starting, Early, devices, spi,
        sonar, bus
<1>1. CASE Create
  <2>1. pc[Main] = "create" /\ pc' = [pc EXCEPT ![Main] = "assign", ![Wifly] = "loop"]
        /\ UNCHANGED <<bus, devices, left, wifly_tp, ready>>
    BY <1>1 DEF Create
  <2>2. Labels' /\ pc'[Main] = "assign" /\ pc'[Wifly] = "loop"
    BY <2>1 DEF Labels, MainLabels, WiflyLabels
  <2>3. at[Main] = "out" /\ at[Wifly] = "out" /\ spi_thread = None
    BY <2>1
  <2> QED
    BY <2>1, <2>2, <2>3
<1>2. CASE Assign
  <2>1. pc[Main] = "assign" /\ wifly_tp' = Wifly
        /\ UNCHANGED <<bus, devices, left, ready>>
    BY <1>2 DEF Assign
  <2>2. /\ Labels' /\ pc'[Main] = "send"
        /\ \A u \in Threads : u # Main => pc'[u] = pc[u]
    BY <1>2, GotoKeeps DEF Assign, MainLabels
  <2> QED
    BY <2>1, <2>2
<1>3. CASE SendInit
  <2>1. pc[Main] = "send" /\ UNCHANGED <<bus, devices, left, wifly_tp, ready>>
    BY <1>3 DEF SendInit
  <2>2. /\ Labels' /\ pc'[Main] = "sent"
        /\ \A u \in Threads : u # Main => pc'[u] = pc[u]
    BY <1>3, GotoKeeps DEF SendInit, MainLabels
  <2> QED
    BY <2>1, <2>2
<1> QED
  BY <1>1, <1>2, <1>3

(* The services are set up one after the other. *)
LEMMA SetupKeeps ==
  ASSUME BootInv,
         \/ Setup("motor", "motor", "sonar") \/ Setup("adc", "sonar", "memssetup")
         \/ Setup("spi", "memssetup", "magsetup") \/ MagSetup
  PROVE  OwnInv'
<1> USE TwoThreads
    DEF BootInv, OwnInv, SetUp, Patient, Sensors, Starting, Early, devices, spi,
        sonar, bus
<1>1. CASE Setup("motor", "motor", "sonar")
  <2>1. pc[Main] = "motor" /\ ready' = ready \cup {"motor"} /\ spi_state' = spi_state
        /\ UNCHANGED <<bus, spi_thread, left, wifly_tp, sonar>>
    BY <1>1 DEF Setup
  <2>2. /\ Labels' /\ pc'[Main] = "sonar"
        /\ \A u \in Threads : u # Main => pc'[u] = pc[u]
    BY <1>1, GotoKeeps DEF Setup, MainLabels
  <2> QED
    BY <2>1, <2>2
<1>2. CASE Setup("adc", "sonar", "memssetup")
  <2>1. pc[Main] = "sonar" /\ ready' = ready \cup {"adc"} /\ spi_state' = spi_state
        /\ adc_state' = "ADC_READY"
        /\ UNCHANGED <<bus, spi_thread, left, wifly_tp>>
    BY <1>2 DEF Setup, AdcStart
  <2>2. /\ Labels' /\ pc'[Main] = "memssetup"
        /\ \A u \in Threads : u # Main => pc'[u] = pc[u]
    BY <1>2, GotoKeeps DEF Setup, MainLabels
  <2> QED
    BY <2>1, <2>2
<1>3. CASE Setup("spi", "memssetup", "magsetup")
  <2>1. pc[Main] = "memssetup" /\ ready' = ready \cup {"spi"} /\ spi_state' = "READY"
        /\ UNCHANGED <<bus, spi_thread, left, wifly_tp, sonar>>
    BY <1>3 DEF Setup
  <2>2. /\ Labels' /\ pc'[Main] = "magsetup"
        /\ \A u \in Threads : u # Main => pc'[u] = pc[u]
    BY <1>3, GotoKeeps DEF Setup, MainLabels
  <2> QED
    BY <2>1, <2>2
<1>4. CASE MagSetup
  <2>1. pc[Main] = "magsetup" /\ ready' = ready \cup {"i2c"} /\ at' = at
        /\ state' = "READY"
        /\ UNCHANGED <<devices, left, wifly_tp>>
    BY <1>4 DEF MagSetup, Start
  <2>2. /\ Labels' /\ pc'[Main] = "mag"
        /\ \A u \in Threads : u # Main => pc'[u] = pc[u]
    BY <1>4, GotoKeeps DEF MagSetup, MainLabels
  <2> QED
    BY <2>1, <2>2
<1> QED
  BY <1>1, <1>2, <1>3, <1>4

(* The calls of the sonar service never turn the ADC off for good, and its *)
(* interrupts neither.                                                     *)
LEMMA AdcStaysStarted ==
  /\ adc_state # "ADC_STOP" /\ (SonarStart \/ SonarStop \/ SonarStep)
       => adc_state' # "ADC_STOP"
  /\ BootInv /\ SonarInterrupt => (adc_state' = "ADC_STOP" <=> adc_state = "ADC_STOP")
<1>1. ASSUME adc_state # "ADC_STOP", SonarStart \/ SonarStop \/ SonarStep
      PROVE  adc_state' # "ADC_STOP"
  BY <1>1 DEF SonarStart, SonarStop, SonarStep, SetGroup, SetMode, EnableDma,
              StartAdc, StopCheck, StopDma, StopAdc, Stopped
<1>2. ASSUME BootInv, SonarInterrupt
      PROVE  adc_state' = "ADC_STOP" <=> adc_state = "ADC_STOP"
  <2>1. adc = "on" \/ dma_flags # {} => adc_state # "ADC_STOP"
    BY <1>2 DEF BootInv, SonarInv, Inside
  <2> QED
    BY <1>2, <2>1 DEF SonarInterrupt, Convert, Overrun, AdcInterrupt, DmaInterrupt,
                      DmaError, ErrorCode
<1> QED
  BY <1>1, <1>2

(* The command loop of the wifly thread. *)
LEMMA LoopKeeps ==
  ASSUME BootInv, Loop \/ Serve \/ Command \/ SonarCommand \/ SonarCall
  PROVE  OwnInv'
<1> USE TwoThreads
    DEF BootInv, OwnInv, SetUp, Patient, Sensors, Starting, Early, devices, spi,
        sonar, bus
<1>1. pc[Main] \notin Early \ {"sent"} /\ Runs(Wifly)
  BY WiflyRunsLate DEF Loop, Serve, Command, SonarCommand, SonarCall
<1>2. CASE Loop
  <2>1. pc[Wifly] = "loop" /\ UNCHANGED <<bus, devices, left, wifly_tp, ready>>
    BY <1>2 DEF Loop
  <2>2. PICK label \in {"serve", "motor", "sonar", "mag"} :
          /\ Goto(Wifly, label)
          /\ label = "serve" <=> pc[Main] = "sent"
    BY <1>2 DEF Loop
  <2>3. /\ Labels' /\ pc'[Wifly] = label
        /\ \A u \in Threads : u # Wifly => pc'[u] = pc[u]
    BY <1>1, <2>2, GotoKeeps DEF WiflyLabels
  <2> QED
    BY <1>1, <2>1, <2>2, <2>3
<1>3. CASE Serve
  <2>1. pc[Wifly] = "serve" /\ pc' = [pc EXCEPT ![Main] = "motor", ![Wifly] = "loop"]
        /\ UNCHANGED <<bus, devices, left, wifly_tp, ready>>
    BY <1>3 DEF Serve
  <2>2. Labels' /\ pc'[Main] = "motor" /\ pc'[Wifly] = "loop"
    BY <2>1 DEF Labels, MainLabels, WiflyLabels
  <2>3. at[Main] = "out" /\ at[Wifly] = "out" /\ spi_thread = None /\ pc[Main] = "sent"
    BY <2>1
  <2> QED
    BY <2>1, <2>2, <2>3
<1>4. CASE Command
  <2>1. pc[Wifly] \in {"motor", "sonar"}
        /\ UNCHANGED <<bus, devices, left, wifly_tp, ready>>
    BY <1>4 DEF Command
  <2>2. /\ Labels' /\ pc'[Wifly] = "loop"
        /\ \A u \in Threads : u # Wifly => pc'[u] = pc[u]
    BY <1>1, <1>4, GotoKeeps DEF Command, WiflyLabels
  <2> QED
    BY <1>1, <2>1, <2>2
<1>5. CASE SonarCommand \/ SonarCall
  <2>1. pc[Wifly] \in {"sonar", "sonarcall"}
        /\ UNCHANGED <<bus, spi, left, wifly_tp, ready>>
    BY <1>5 DEF SonarCommand, SonarCall
  <2>2. adc_state # "ADC_STOP" /\ adc_state' # "ADC_STOP"
    <3>1. adc_state # "ADC_STOP"
      BY <2>1
    <3> QED
      BY <1>5, <3>1, AdcStaysStarted DEF SonarCommand, SonarCall
  <2>3. PICK label \in {"sonarcall", "loop"} : Goto(Wifly, label) \/ pc' = pc
    BY <1>5 DEF SonarCommand, SonarCall
  <2>4. /\ Labels' /\ pc'[Wifly] \in {"sonar", "sonarcall", "loop"}
        /\ \A u \in Threads : u # Wifly => pc'[u] = pc[u]
    <3>1. CASE Goto(Wifly, label)
      BY <1>1, <3>1, GotoKeeps DEF WiflyLabels
    <3>2. CASE pc' = pc
      BY <2>1, <3>2 DEF Labels
    <3> QED
      BY <2>3, <3>1, <3>2
  <2> QED
    BY <1>1, <2>1, <2>2, <2>4
<1> QED
  BY <1>2, <1>3, <1>4, <1>5

(* The sensors of both threads.  They are used after the start only. *)
LEMMA SensorsKeep ==
  ASSUME BootInv, NEW t \in Threads,
         Mag(t) \/ Transfer(t) \/ Mems(t) \/ SpiDone(t)
  PROVE  OwnInv'
<1> USE TwoThreads
    DEF BootInv, OwnInv, SetUp, Patient, Sensors, Starting, Early, devices, spi,
        sonar
<1>1. Runs(t) /\ pc[t] \in {"mag", "transfer", "mems", "spidone"}
  BY DEF Mag, Transfer, Mems, SpiDone
<1>2. pc[Main] \notin Early \ {"mag"} /\ pc[Wifly] # "serve"
      /\ (t # Main => pc[Main] # "mag")
  BY <1>1, WiflyRunsLate
<1>3. CASE Mag(t)
  <2>1. pc[t] = "mag" /\ UNCHANGED <<devices, left, wifly_tp, ready, state>>
        /\ \A u \in Threads : u # t => at'[u] = at[u]
    BY <1>3 DEF Mag, Acquire, BusInv, BusTypeOK
  <2>2. /\ Labels' /\ pc'[t] = "transfer"
        /\ \A u \in Threads : u # t => pc'[u] = pc[u]
    BY <1>1, <1>3, GotoKeeps DEF Mag, MainLabels, WiflyLabels
  <2> QED
    BY <1>2, <2>1, <2>2
<1>4. CASE Transfer(t)
  <2>1. pc[t] = "transfer" /\ UNCHANGED <<devices, wifly_tp, ready>> /\ BusStep(t)
    BY <1>4 DEF Transfer
  <2>2. /\ \A u \in Threads : u # t /\ at[u] = "out" => at'[u] = "out"
        /\ state' # "STOP" /\ state # "STOP"
    <3>1. state # "STOP"
      BY <1>2
    <3> QED
      BY <2>1, <3>1 DEF BusStep, Transmit, Go, BusyTimeout, Finish, Release,
                         BusInv, BusTypeOK
  <2>3. CASE at'[t] = "out"
    <3>1. Goto(t, "mems") /\ left' = [left EXCEPT ![t] = 3]
      BY <1>4, <2>3 DEF Transfer
    <3>2. /\ Labels' /\ pc'[t] = "mems"
          /\ \A u \in Threads : u # t => pc'[u] = pc[u]
      BY <1>1, <3>1, GotoKeeps DEF MainLabels, WiflyLabels
    <3>3. /\ left' \in [Threads -> 0 .. 3] /\ left'[t] = 3
          /\ \A u \in Threads : u # t => left'[u] = left[u]
      BY <3>1
    <3>4. /\ \A u \in Threads : pc'[u] # "transfer" => at'[u] = "out"
          /\ \A u \in Threads : pc'[u] \in {"mems", "spi", "spidone"} => left'[u] > 0
          /\ \A u \in Threads : spi_thread' = u => pc'[u] = "spi"
      BY <2>1, <2>2, <2>3, <3>2, <3>3
    <3> QED
      BY <1>2, <2>1, <2>2, <3>2, <3>3, <3>4
  <2>4. CASE at'[t] # "out"
    <3>1. UNCHANGED <<pc, left>>
      BY <1>4, <2>4 DEF Transfer
    <3> QED
      BY <1>2, <2>1, <2>2, <3>1 DEF Labels
  <2> QED
    BY <2>3, <2>4
<1>5. CASE Mems(t)
  <2>1. pc[t] = "mems" /\ spi_state' = "ACTIVE" /\ spi_thread' = t
        /\ UNCHANGED <<bus, sonar, left, wifly_tp, ready>>
    BY <1>5 DEF Mems
  <2>2. /\ Labels' /\ pc'[t] = "spi"
        /\ \A u \in Threads : u # t => pc'[u] = pc[u]
    BY <1>1, <1>5, GotoKeeps DEF Mems, MainLabels, WiflyLabels
  <2> QED
    BY <1>2, <2>1, <2>2 DEF bus
<1>6. CASE SpiDone(t)
  <2>1. pc[t] = "spidone" /\ left' = [left EXCEPT ![t] = left[t] - 1]
        /\ UNCHANGED <<bus, devices, wifly_tp, ready>>
    BY <1>6 DEF SpiDone
  <2>2. PICK label \in {"mems", "idle", "loop"} :
          /\ Goto(t, label)
          /\ label = "mems" <=> left[t] > 1
          /\ label = "idle" => t = Main
          /\ label = "loop" => t # Main
    BY <1>6 DEF SpiDone
  <2>3. /\ Labels' /\ pc'[t] = label
        /\ \A u \in Threads : u # t => pc'[u] = pc[u]
    BY <1>1, <2>2, GotoKeeps DEF MainLabels, WiflyLabels
  <2>4. left[t] \in 1 .. 3
    BY <2>1
  <2>5. /\ left' \in [Threads -> 0 .. 3] /\ left'[t] = left[t] - 1
        /\ \A u \in Threads : u # t => left'[u] = left[u]
    BY <2>1, <2>4
  <2>6. /\ \A u \in Threads : pc'[u] # "transfer" => at'[u] = "out"
        /\ \A u \in Threads : pc'[u] \in {"mems", "spi", "spidone"} => left'[u] > 0
        /\ \A u \in Threads : spi_thread' = u => pc'[u] = "spi"
    BY <2>1, <2>2, <2>3, <2>4, <2>5 DEF bus
  <2> QED
    BY <1>2, <2>1, <2>2, <2>3, <2>5, <2>6 DEF bus
<1> QED
  BY <1>3, <1>4, <1>5, <1>6

(* The interrupts. *)
LEMMA InterruptsKeepOwn ==
  ASSUME BootInv, SpiInterrupt \/ I2CInterrupt \/ AdcEvent
  PROVE  OwnInv'
<1> USE TwoThreads
    DEF BootInv, OwnInv, SetUp, Patient, Sensors, Starting, Early, devices, spi
<1>1. CASE SpiInterrupt
  <2>1. /\ spi_state' = "READY" /\ spi_thread' = None
        /\ UNCHANGED <<bus, sonar, left, wifly_tp, ready>>
        /\ pc' = [t \in Threads |-> IF t = spi_thread THEN "spidone" ELSE pc[t]]
    BY <1>1 DEF SpiInterrupt
  <2>2. \A t \in Threads : pc'[t] = IF t = spi_thread THEN "spidone" ELSE pc[t]
    BY <2>1
  <2>3. Labels'
    BY <2>1, <2>2 DEF Labels, MainLabels, WiflyLabels
  <2>4. \A t \in Threads :
          \/ pc'[t] = pc[t]
          \/ pc[t] = "spi" /\ pc'[t] = "spidone"
    BY <2>2
  <2> QED
    BY <2>1, <2>3, <2>4 DEF bus, sonar
<1>2. CASE I2CInterrupt
  <2>1. UNCHANGED <<boot, devices>> /\ BusInterrupt
    BY <1>2 DEF I2CInterrupt
  <2>2. state' = state /\ \A t \in Threads : at[t] = "out" => at'[t] = "out"
    <3>1. state' = state /\ \E msg \in Messages : WakeUp(msg)
      BY <2>1 DEF BusInterrupt, Interrupt, SafetyTimeout, Messages
    <3> QED
      BY <3>1 DEF WakeUp, BusInv, OneTransfer
  <2> QED
    BY <2>1, <2>2 DEF boot, sonar, Labels
<1>3. CASE AdcEvent
  <2>1. SonarInterrupt /\ UNCHANGED <<bus, boot, spi>>
    BY <1>3 DEF AdcEvent
  <2>2. adc_state' = "ADC_STOP" <=> adc_state = "ADC_STOP"
    BY <2>1, AdcStaysStarted
  <2> QED
    BY <2>1, <2>2 DEF boot, bus, Labels
<1> QED
  BY <1>1, <1>2, <1>3

----------------------------------------------------------------------------
(* After halInit and chSysInit. *)
LEMMA BootInitially == Init => BootInv
<1> SUFFICES ASSUME Init PROVE BootInv
  OBVIOUS
<1>1. BusInv /\ SonarInv
  BY InitBus, SonarInitially DEF Init
<1>2. /\ pc \in [Threads -> MainLabels \cup WiflyLabels]
      /\ pc[Main] = "create" /\ pc[Wifly] = "none"
  BY TwoThreads DEF Init, MainLabels, WiflyLabels
<1>3. OwnInv
  BY <1>2, TwoThreads
     DEF Init, BusInit, SonarInit, OwnInv, Labels, MainLabels, WiflyLabels,
         SetUp, Patient, Sensors, Starting, Early
<1> QED
  BY <1>1, <1>3 DEF BootInv

(* Every step keeps the invariant of the start and those of the drivers. *)
LEMMA BootNext == BootInv /\ [Next]_vars => BootInv'
<1> SUFFICES ASSUME BootInv, [Next]_vars PROVE BootInv'
  OBVIOUS
<1>1. BusInv'
  BY BusSteps, NextBus DEF BootInv
<1>2. SonarInv'
  BY SonarSteps, SonarNextInv DEF BootInv
<1>3. OwnInv'
  <2>1. CASE UNCHANGED vars \/ Hang
    BY <2>1 DEF Hang, vars, boot, devices, spi, bus, sonar, BootInv, OwnInv,
                Labels, SetUp, Patient, Sensors
  <2>2. CASE SpiInterrupt \/ I2CInterrupt \/ AdcEvent
    BY <2>2, InterruptsKeepOwn
  <2>3. ASSUME NEW t \in Threads, Step(t) PROVE OwnInv'
    BY <2>3, StartKeeps, SetupKeeps, LoopKeeps, SensorsKeep DEF Step
  <2> QED
    BY <2>1, <2>2, <2>3 DEF Next
<1> QED
  BY <1>1, <1>2, <1>3 DEF BootInv

(* The inductive invariant of the start of the firmware. *)
THEOREM BootInvariant == Spec => []BootInv
BY BootInitially, BootNext, PTL DEF Spec

(* What the firmware does with the I2C driver is a behaviour of the driver *)
(* by itself: each thread acquires the bus, transmits and releases it,     *)
(* from where it is, after i2cStart.  It is the driver without its         *)
(* assertions, which allows a transfer after a timeout.                    *)
THEOREM BootImplementsBus == Spec => BusSpec
<1>1. Init => BusInit
  BY DEF Init
<1> QED
  BY <1>1, BusSteps, BootInvariant, PTL DEF Spec, BusSpec

(* What the firmware does with the sonar service is a behaviour of the     *)
(* service by itself: no sonarStart and no sonarStop comes before          *)
(* sonarInit, although the thread that calls them is created first.  It is *)
(* the service without the assertions of the ADC driver, which allows a    *)
(* second sonarStart.                                                      *)
THEOREM BootImplementsSonar == Spec => SonarSpec
<1>1. Init => SonarInit
  BY DEF Init
<1> QED
  BY <1>1, SonarSteps, BootInvariant, PTL DEF Spec, SonarSpec

(* The invariant says what UsesInitialised asks for. *)
LEMMA PatientUsesInitialised == BootInv => UsesInitialised
<1> SUFFICES ASSUME BootInv PROVE UsesInitialised
  OBVIOUS
<1>1. TypeOK
  <2>1. pc \in [Threads -> MainLabels \cup WiflyLabels]
    BY DEF BootInv, OwnInv, Labels
  <2>2. MainLabels \cup WiflyLabels =
          {"none", "create", "assign", "send", "sent", "motor", "sonar",
           "memssetup", "magsetup", "loop", "serve", "mag", "transfer", "mems",
           "spi", "spidone", "sonarcall", "idle"}
    BY DEF MainLabels, WiflyLabels
  <2>3. wifly_tp \in Threads \cup {None}
    BY TwoThreads DEF BootInv, OwnInv, SetUp
  <2>4. BusTypeOK /\ SonarTypeOK
    BY DEF BootInv, BusInv, SonarInv
  <2> QED
    BY <2>1, <2>2, <2>3, <2>4 DEF TypeOK, BootInv, OwnInv
<1>2. pc[Wifly] # "none" /\ Runs(Wifly) => wifly_tp = Wifly
  BY WiflyRunsLate DEF BootInv, OwnInv, SetUp, Early, Starting
<1>3. pc[Wifly] \in {"motor", "sonar", "sonarcall", "mag", "transfer", "mems", "spi",
                     "spidone"}
        => {"motor", "adc", "spi", "i2c"} \subseteq ready /\ pc[Main] # "sent"
  BY DEF BootInv, OwnInv, SetUp, Patient, Early, Starting
<1> QED
  BY <1>1, <1>2, <1>3 DEF UsesInitialised

(* A command may come at any moment of the start, yet the wifly thread     *)
(* uses no service, no driver and no wifly_tp before main has set it up:   *)
(* chThdCreateStatic gives it a lower priority than main's, and main does  *)
(* not sleep before headingInit but in the wiflySend of ****INIT***.       *)
THEOREM OnlyInitialisedUsed == Spec => []UsesInitialised
BY BootInvariant, PatientUsesInitialised, PTL

(* Where the two threads are in the SPI driver: the wifly thread enters it *)
(* only when main is asleep in it or has left it for good, and main is     *)
(* first on the I2C bus.                                                   *)
Apart ==
  /\ pc[Main] = "transfer" =>
       at[Main] \notin {"out", "wait"} /\ pc[Wifly] # "mems"
  /\ pc[Main] \in {"transfer", "mems", "spidone"} \/ spi_thread = Main =>
       pc[Wifly] \notin {"spi", "spidone"}
  /\ CommandLoopKept

(* The I2C steps of a thread: main gets the bus at once, and the wifly     *)
(* thread gets through only when main has released it.                     *)
LEMMA TransferApart ==
  ASSUME BootInv, Apart, NEW t \in Threads, Mag(t) \/ Transfer(t)
  PROVE  Apart'
<1> USE TwoThreads DEF Apart, CommandLoopKept, Forgotten
<1>1. Labels /\ Patient /\ Sensors /\ BusInv
  BY DEF BootInv, OwnInv
<1>2. spi_thread' = spi_thread /\ pc[t] \in {"mag", "transfer"}
  BY DEF Mag, Transfer, devices, spi
<1>3. CASE Mag(t)
  <2>1. pc' = [pc EXCEPT ![t] = "transfer"] /\ pc[t] = "mag"
    BY <1>3 DEF Mag, Goto
  <2>2. /\ pc'[t] = "transfer"
        /\ \A u \in Threads : u # t => pc'[u] = pc[u]
    BY <1>1, <2>1 DEF Labels
  <2>3. CASE t = Main
    <3>1. pc[Wifly] \in {"none", "loop", "serve"} /\ at[Wifly] = "out" /\ at[Main] = "out"
      BY <1>1, <2>1, <2>3 DEF Patient, Sensors, Early
    <3>2. owner = None
      BY <1>1, <3>1 DEF BusInv, BusTypeOK, OneTransfer
    <3>3. at'[Main] = "held"
      BY <1>1, <1>3, <2>3, <3>2 DEF Mag, Acquire, BusInv, BusTypeOK
    <3> QED
      BY <1>2, <2>2, <2>3, <3>1, <3>3
  <2>4. CASE t = Wifly
    <3>1. at'[Main] = at[Main]
      BY <1>1, <1>3, <2>4 DEF Mag, Acquire, BusInv, BusTypeOK
    <3> QED
      BY <1>2, <2>2, <2>4, <3>1
  <2> QED
    BY <2>3, <2>4
<1>4. CASE Transfer(t)
  <2>1. BusStep(t) /\ pc[t] = "transfer"
    BY <1>4 DEF Transfer
  <2>2. at[t] \notin {"out", "wait"} /\ at'[t] # "wait"
    BY <1>1, <2>1 DEF BusStep, Transmit, Go, BusyTimeout, Finish, Release, BusInv,
                      BusTypeOK
  <2>3. pc' = IF at'[t] = "out" THEN [pc EXCEPT ![t] = "mems"] ELSE pc
    BY <1>4 DEF Transfer, Goto
  <2>4. /\ pc'[t] = IF at'[t] = "out" THEN "mems" ELSE pc[t]
        /\ \A u \in Threads : u # t => pc'[u] = pc[u]
    BY <1>1, <2>3 DEF Labels
  <2>5. CASE t = Main
    BY <1>2, <2>1, <2>2, <2>4, <2>5
  <2>6. CASE t = Wifly
    <3>1. at[Main] \in {"out", "wait"}
      BY <1>1, <2>2, <2>6, Exclusive
    <3>2. pc[Main] # "transfer"
      BY <3>1
    <3> QED
      BY <1>2, <2>1, <2>4, <2>6, <3>2
  <2> QED
    BY <2>5, <2>6
<1> QED
  BY <1>3, <1>4

(* The SPI steps of a thread. *)
LEMMA SpiApart ==
  ASSUME BootInv, Apart, NEW t \in Threads, Mems(t) \/ SpiDone(t)
  PROVE  Apart'
<1> USE TwoThreads DEF Apart, CommandLoopKept, Forgotten
<1>1. Labels /\ Sensors /\ at' = at
  BY DEF BootInv, OwnInv, Mems, SpiDone, bus
<1>2. CASE Mems(t)
  <2>1. pc' = [pc EXCEPT ![t] = "spi"] /\ pc[t] = "mems" /\ spi_thread' = t
    BY <1>2 DEF Mems, Goto
  <2>2. /\ pc'[t] = "spi"
        /\ \A u \in Threads : u # t => pc'[u] = pc[u]
    BY <1>1, <2>1 DEF Labels
  <2>3. CASE t = Main
    BY <2>1, <2>2, <2>3
  <2>4. CASE t = Wifly
    <3>1. ~Awake(Main)
      BY <1>2, <2>4 DEF Mems, Runs, Prio, WiflyPrio, NORMALPRIO
    <3>2. pc[Main] # "transfer"
      BY <2>1, <2>4
    <3>3. at[Main] = "out"
      BY <1>1, <3>2 DEF Sensors
    <3>4. pc[Main] \notin {"transfer", "mems", "spidone"}
      BY <3>1, <3>2, <3>3 DEF Awake
    <3> QED
      BY <1>1, <2>1, <2>2, <2>4, <3>4
  <2> QED
    BY <2>3, <2>4
<1>3. CASE SpiDone(t)
  <2>1. pc[t] = "spidone" /\ spi_thread' = spi_thread
    BY <1>3 DEF SpiDone, devices, spi
  <2>2. PICK label \in {"mems", "idle", "loop"} : pc' = [pc EXCEPT ![t] = label]
    BY <1>3 DEF SpiDone, Goto
  <2>3. /\ pc'[t] = label
        /\ \A u \in Threads : u # t => pc'[u] = pc[u]
    BY <1>1, <2>2 DEF Labels
  <2>4. CASE t = Main
    BY <1>1, <2>1, <2>2, <2>3, <2>4
  <2>5. CASE t = Wifly
    BY <1>1, <2>1, <2>2, <2>3, <2>5
  <2> QED
    BY <2>4, <2>5
<1> QED
  BY <1>2, <1>3

(* Every step keeps the two threads apart. *)
LEMMA ApartNext == BootInv /\ Apart /\ [Next]_vars => Apart'
<1> SUFFICES ASSUME BootInv, Apart, [Next]_vars PROVE Apart'
  OBVIOUS
<1> USE TwoThreads DEF Apart, CommandLoopKept, Forgotten
<1>1. Labels /\ Sensors /\ Patient
  BY DEF BootInv, OwnInv
<1>2. CASE UNCHANGED vars \/ Hang
  BY <1>2 DEF Hang, vars, boot, devices, spi, bus
<1>3. CASE SpiInterrupt
  <2>1. at' = at /\ spi_thread' = None
        /\ pc' = [t \in Threads |-> IF t = spi_thread THEN "spidone" ELSE pc[t]]
    BY <1>3 DEF SpiInterrupt, bus
  <2>2. /\ pc'[Main] = IF Main = spi_thread THEN "spidone" ELSE pc[Main]
        /\ pc'[Wifly] = IF Wifly = spi_thread THEN "spidone" ELSE pc[Wifly]
    BY <2>1
  <2>3. spi_thread = Wifly => pc[Wifly] = "spi"
    BY <1>1 DEF Sensors
  <2> QED
    BY <2>1, <2>2, <2>3
<1>4. CASE AdcEvent
  BY <1>4 DEF AdcEvent, boot, bus, spi
<1>5. CASE I2CInterrupt
  <2>1. UNCHANGED <<pc, spi_thread>> /\ BusInterrupt
    BY <1>5 DEF I2CInterrupt, boot, devices, spi
  <2>2. \E msg \in Messages : WakeUp(msg)
    BY <2>1 DEF BusInterrupt, Interrupt, SafetyTimeout, Messages
  <2>3. at'[Main] = at[Main] \/ at'[Main] = "woken"
    BY <2>2 DEF WakeUp
  <2> QED
    BY <2>1, <2>3
<1>6. CASE Create \/ Serve
  <2>1. UNCHANGED <<at, spi_thread>>
        /\ \E label \in {"assign", "motor"} :
              pc' = [pc EXCEPT ![Main] = label, ![Wifly] = "loop"]
    BY <1>6 DEF Create, Serve, bus, devices, spi
  <2>2. pc'[Main] \in {"assign", "motor"} /\ pc'[Wifly] = "loop"
    BY <1>1, <2>1 DEF Labels
  <2> QED
    BY <2>1, <2>2
<1>7. CASE Assign \/ SendInit \/ Setup("motor", "motor", "sonar")
             \/ Setup("adc", "sonar", "memssetup")
             \/ Setup("spi", "memssetup", "magsetup") \/ MagSetup
  <2>1. UNCHANGED <<at, spi_thread>>
        /\ \E label \in {"send", "sent", "sonar", "memssetup", "magsetup", "mag"} :
              pc' = [pc EXCEPT ![Main] = label]
    BY <1>7 DEF Assign, SendInit, Setup, MagSetup, Start, Goto, bus, devices, spi
  <2>2. /\ pc'[Main] \in {"send", "sent", "sonar", "memssetup", "magsetup", "mag"}
        /\ pc'[Wifly] = pc[Wifly]
    BY <1>1, <2>1 DEF Labels
  <2> QED
    BY <2>1, <2>2
<1>8. CASE Loop \/ Command \/ SonarCommand \/ SonarCall
  <2>1. UNCHANGED <<at, spi_thread>>
        /\ \/ \E label \in {"serve", "motor", "sonar", "mag", "loop", "sonarcall"} :
                pc' = [pc EXCEPT ![Wifly] = label]
           \/ pc' = pc
    BY <1>8 DEF Loop, Command, SonarCommand, SonarCall, Goto, bus, devices, spi
  <2>2. /\ pc'[Main] = pc[Main]
        /\ \/ pc'[Wifly] \in {"serve", "motor", "sonar", "mag", "loop", "sonarcall"}
           \/ pc'[Wifly] = pc[Wifly]
    BY <1>1, <2>1 DEF Labels
  <2> QED
    BY <2>1, <2>2
<1> QED
  BY <1>2, <1>3, <1>4, <1>5, <1>6, <1>7, <1>8, TransferApart, SpiApart
     DEF Next, Step

(* lis302dl.c acquires no bus, and a thread that starts an SPI transfer    *)
(* takes the wake-up of the one that sleeps in the driver: that is never   *)
(* the thread of the command loop, whatever the I2C bus does and whenever  *)
(* a readHead comes.                                                       *)
THEOREM CommandLoopNotForgotten == Spec => []CommandLoopKept
<1>1. Init => Apart
  BY TwoThreads
     DEF Init, Apart, CommandLoopKept, Forgotten
<1>2. Apart => CommandLoopKept
  BY DEF Apart
<1> QED
  BY <1>1, <1>2, ApartNext, BootInvariant, PTL DEF Spec

(* What is proved of the drivers by themselves holds in the firmware: the  *)
(* safety timer of a transfer is never armed after it, a driver that is    *)
(* READY can be used, and the interrupts of the ADC find their group.      *)
THEOREM DriversInFirmware ==
  Spec => [](TimerOnLiveStack /\ ReadyIsUsable /\ GroupBehindInterrupts
               /\ SonarAsAsked)
BY BootImplementsBus, BootImplementsSonar, TimerNeverDangles, ReadyAlwaysUsable,
   GroupAlwaysBehind, SonarObeys, PTL
=============================================================================
