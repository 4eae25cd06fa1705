-------------------------------- MODULE Boot --------------------------------
(***************************************************************************)
(* The start of the firmware and the services it starts: main and          *)
(* wiflyInit create the wifly thread before the services its commands use  *)
(* are initialised (main.c, serv_wifly.c), and both threads use the        *)
(* sensors of the heading service (serv_heading.c, lis302dl.c) through the *)
(* I2C driver and the SPI driver.                                          *)
(*                                                                         *)
(* Of the two threads the ready one of the highest priority runs (what     *)
(* Scheduler shows of the kernel).  A command may arrive at any time; what *)
(* the commands of the motors do is in Motor, how lines are read in Wifly. *)
(***************************************************************************)
EXTENDS I2CDriver, Sonar

CONSTANTS Main, Wifly   \* the two threads

ASSUME BootAssumption == Threads = {Main, Wifly} /\ Main # Wifly

VARIABLES
  pc,           \* where each thread is
  left,         \* SPI transfers each thread has left to do
  wifly_tp,
  ready,        \* the services that have been initialised
  spi_state, spi_thread   \* SPID1

boot == <<pc, left, wifly_tp, ready>>
spi  == <<spi_state, spi_thread>>
devices == <<spi, sonar>>
vars == <<bus, boot, devices>>

NORMALPRIO == 64

(* Mutant: the wifly thread is the more urgent one. *)
WiflyPrioAbove == NORMALPRIO + 1

(* chThdCreateStatic in wiflyInit *)
WiflyPrio == NORMALPRIO - 1

Prio(t) == IF t = Wifly THEN WiflyPrio ELSE NORMALPRIO

(* Labels at which a thread sleeps: in chMsgSend, in _spi_wait_s, in the   *)
(* endless loop of main; "none" is a thread not yet created.               *)
Awake(t) ==
  pc[t] \notin {"none", "sent", "spi", "idle"} /\ at[t] \notin {"wait", "sleep"}

Runs(t) == Awake(t) /\ \A u \in Threads : Awake(u) => Prio(u) <= Prio(t)

Goto(t, label) == pc' = [pc EXCEPT ![t] = label]

(* After halInit and chSysInit. *)
Init ==
  /\ BusInit /\ SonarInit
  /\ pc = [t \in Threads |-> IF t = Main THEN "create" ELSE "none"]
  /\ left = [t \in Threads |-> 0]
  /\ wifly_tp = None /\ ready = {}
  /\ spi_state = "STOP" /\ spi_thread = None

----------------------------------------------------------------------------
(* wiflyInit: the thread is created, then wifly_tp assigned. *)
Create ==
  /\ Runs(Main) /\ pc[Main] = "create"
  /\ pc' = [pc EXCEPT ![Main] = "assign", ![Wifly] = "loop"]
  /\ UNCHANGED <<bus, devices, left, wifly_tp, ready>>

Assign ==
  /\ Runs(Main) /\ pc[Main] = "assign"
  /\ wifly_tp' = Wifly
  /\ Goto(Main, "send")
  /\ UNCHANGED <<bus, devices, left, ready>>

(* wiflySend("****INIT***\r\n"): chMsgSend. *)
SendInit ==
  /\ Runs(Main) /\ pc[Main] = "send"
  /\ Goto(Main, "sent")
  /\ UNCHANGED <<bus, devices, left, wifly_tp, ready>>

(* motorInit, then sonarInit, then memsSetup. *)
Setup(service, label, next) ==
  /\ Runs(Main) /\ pc[Main] = label
  /\ ready' = ready \cup {service}
  /\ Goto(Main, next)
  /\ spi_state' = IF service = "spi" THEN "READY" ELSE spi_state
  /\ IF service = "adc" THEN AdcStart ELSE UNCHANGED sonar
  /\ UNCHANGED <<bus, spi_thread, left, wifly_tp>>

(* magSetup *)
MagSetup ==
  /\ Runs(Main) /\ pc[Main] = "magsetup"
  /\ Start
  /\ ready' = ready \cup {"i2c"}
  /\ Goto(Main, "mag")
  /\ UNCHANGED <<devices, left, wifly_tp>>

(* wifly_loop: a message that waits is served first, else a command may    *)
(* have come; the ones that use no service are not distinguished.          *)
Loop ==
  /\ Runs(Wifly) /\ pc[Wifly] = "loop"
  /\ IF pc[Main] = "sent" THEN Goto(Wifly, "serve")
     ELSE \E command \in {"motor", "sonar", "mag"} : Goto(Wifly, command)
  /\ UNCHANGED <<bus, devices, left, wifly_tp, ready>>

(* Mutant: chMsgRelease is missing. *)
ServeNoRelease ==
  /\ Runs(Wifly) /\ pc[Wifly] = "serve"
  /\ Goto(Wifly, "loop")
  /\ UNCHANGED <<bus, devices, left, wifly_tp, ready>>

(* wifly_send of the message, then chMsgRelease. *)
Serve ==
  /\ Runs(Wifly) /\ pc[Wifly] = "serve"
  /\ pc' = [pc EXCEPT ![Main] = "motor", ![Wifly] = "loop"]
  /\ UNCHANGED <<bus, devices, left, wifly_tp, ready>>

(* forward, backward, turnLeft, turnRight; readSonar. *)
Command ==
  /\ Runs(Wifly) /\ pc[Wifly] \in {"motor", "sonar"}
  /\ Goto(Wifly, "loop")
  /\ UNCHANGED <<bus, devices, left, wifly_tp, ready>>

(* sonar 1 and sonar 0 *)
SonarCommand ==
  /\ Runs(Wifly) /\ pc[Wifly] = "sonar"
  /\ SonarStart \/ SonarStop
  /\ Goto(Wifly, "sonarcall")
  /\ UNCHANGED <<bus, spi, left, wifly_tp, ready>>

SonarCall ==
  /\ Runs(Wifly) /\ pc[Wifly] = "sonarcall"
  /\ SonarStep
  /\ IF sonar_at' = "out" THEN Goto(Wifly, "loop") ELSE UNCHANGED pc
  /\ UNCHANGED <<bus, spi, left, wifly_tp, ready>>

----------------------------------------------------------------------------
(* Mutant: the bus is not acquired. *)
MagUnlocked(t) ==
  /\ Runs(t) /\ pc[t] = "mag"
  /\ at' = [at EXCEPT ![t] = "held"]
  /\ Goto(t, "transfer")
  /\ UNCHANGED <<state, thread, owner, armed, rdymsg, pe, devices, left, wifly_tp,
                 ready>>

(* magSetRegisters of main and magGetRegValues of the wifly thread. *)
Mag(t) ==
  /\ Runs(t) /\ pc[t] = "mag"
  /\ Acquire(t)
  /\ Goto(t, "transfer")
  /\ UNCHANGED <<devices, left, wifly_tp, ready>>

(* The transfer, and what follows it whatever its result: memsSetRegister  *)
(* or memsGetRegValues, three registers each.                              *)
Transfer(t) ==
  /\ Runs(t) /\ pc[t] = "transfer"
  /\ BusStep(t)
  /\ IF at'[t] = "out"
       THEN Goto(t, "mems") /\ left' = [left EXCEPT ![t] = 3]
       ELSE UNCHANGED <<pc, left>>
  /\ UNCHANGED <<devices, wifly_tp, ready>>

(* lis302dlWriteRegister and lis302dlReadRegister: spiSelect, spiSend or   *)
(* spiExchange, which sleep in _spi_wait_s.  Nobody acquires the bus: a    *)
(* thread that sleeps already is forgotten.                                *)
Mems(t) ==
  /\ Runs(t) /\ pc[t] = "mems"
  /\ spi_state' = "ACTIVE" /\ spi_thread' = t
  /\ Goto(t, "spi")
  /\ UNCHANGED <<bus, sonar, left, wifly_tp, ready>>

(* _spi_isr_code: the thread that sleeps goes on. *)
SpiInterrupt ==
  /\ spi_state = "ACTIVE"
  /\ spi_state' = "READY" /\ spi_thread' = None
  /\ pc' = [t \in Threads |-> IF t = spi_thread THEN "spidone" ELSE pc[t]]
  /\ UNCHANGED <<bus, sonar, left, wifly_tp, ready>>

(* spiUnselect; the next register, or the end of headingSetup and of       *)
(* getHeading.                                                             *)
SpiDone(t) ==
  /\ Runs(t) /\ pc[t] = "spidone"
  /\ left' = [left EXCEPT ![t] = @ - 1]
  /\ Goto(t, IF left[t] > 1 THEN "mems" ELSE IF t = Main THEN "idle" ELSE "loop")
  /\ UNCHANGED <<bus, devices, wifly_tp, ready>>

(* An interrupt of the I2C bus, or of the safety timer of a transfer. *)
I2CInterrupt == BusInterrupt /\ UNCHANGED <<boot, devices>>

Step(t) ==
  \/ t = Main /\ (\/ Create \/ Assign \/ SendInit
                  \/ Setup("motor", "motor", "sonar")
                  \/ Setup("adc", "sonar", "memssetup")
                  \/ Setup("spi", "memssetup", "magsetup")
                  \/ MagSetup)
  \/ t = Wifly /\ (Loop \/ Serve \/ Command \/ SonarCommand \/ SonarCall)
  \/ Mag(t) \/ Transfer(t) \/ Mems(t) \/ SpiDone(t)

AdcEvent == SonarInterrupt /\ UNCHANGED <<bus, boot, spi>>

(* An interrupt that sleeps: nothing is said of what follows. *)
Hang == hung = "yes" /\ UNCHANGED vars

Next ==
  \/ /\ hung = "no"
     /\ SpiInterrupt \/ I2CInterrupt \/ AdcEvent \/ \E t \in Threads : Step(t)
  \/ Hang

Spec == Init /\ [][Next]_vars

(* A thread that may run does, time passes, an SPI transfer ends, the ADC  *)
(* converts and its interrupts are served.  Nothing is assumed of the I2C  *)
(* bus.                                                                    *)
FairSpec ==
  /\ Spec
  /\ \A t \in Threads :
       /\ WF_vars(hung = "no" /\ Step(t))
       /\ WF_vars(hung = "no" /\ SafetyTimeout(t) /\ UNCHANGED <<boot, devices>>)
  /\ WF_vars(hung = "no" /\ SpiInterrupt)
  /\ WF_vars(hung = "no" /\ Convert /\ UNCHANGED <<bus, boot, spi>>)
  /\ WF_vars(hung = "no" /\ AdcInterrupt /\ UNCHANGED <<bus, boot, spi>>)
  /\ WF_vars(/\ hung = "no"
             /\ \E d \in Distances : DmaInterrupt(d)
             /\ UNCHANGED <<bus, boot, spi>>)

----------------------------------------------------------------------------
TypeOK ==
  /\ BusTypeOK /\ SonarTypeOK
  /\ pc \in [Threads ->
       {"none", "create", "assign", "send", "sent", "motor", "sonar",
        "memssetup", "magsetup", "loop", "serve", "mag", "transfer", "mems",
        "spi", "spidone", "sonarcall", "idle"}]
  /\ left \in [Threads -> 0 .. 3]
  /\ wifly_tp \in Threads \cup {None}
  /\ ready \subseteq {"motor", "adc", "spi", "i2c"}
  /\ spi_state \in {"STOP", "READY", "ACTIVE"}
  /\ spi_thread \in Threads \cup {None}

(* A command may come at any moment of the start, but the wifly thread     *)
(* uses nothing that main has not set up yet: not wifly_tp, not the        *)
(* motors' semaphores and PWM driver, not the ADC, the SPI and the I2C     *)
(* driver; and no command is executed before ****INIT*** has been sent.    *)
UsesInitialised ==
  LET needs == [motor |-> "motor", sonar |-> "adc", sonarcall |-> "adc",
                mag |-> "i2c",
                transfer |-> "i2c", mems |-> "spi", spi |-> "spi",
                spidone |-> "spi"]
      label == pc[Wifly]
  IN /\ TypeOK
     /\ label # "none" /\ Runs(Wifly) => wifly_tp = Wifly
     /\ label \in DOMAIN needs => needs[label] \in ready /\ pc[Main] # "sent"

(* Every transfer ends, whatever the bus does, unless the ADC hangs the    *)
(* system.                                                                 *)
TransfersEnd ==
  \A t \in Threads : at[t] # "out" ~> at[t] = "out" \/ hung = "yes"

(* A thread that sleeps in the SPI driver and that nobody will wake. *)
Forgotten(t) == pc[t] = "spi" /\ spi_thread # t

(* Two threads use the SPI driver and none acquires it.  A readHead during *)
(* the start may therefore cost main its wake-up, in the last calls it     *)
(* makes, but never the wifly thread, which carries out the commands: main *)
(* gives way to it only when it sleeps in the driver or has done with it.  *)
CommandLoopKept == ~Forgotten(Wifly)

(* The start ends, and so does every readHead and every sonar command: no  *)
(* error of the I2C bus and no absent sensor keeps main or the command     *)
(* loop.  Two things can: an error of the ADC, whose interrupt does not    *)
(* return, and a readHead that meets main in the SPI driver, of which      *)
(* nothing is said from then on.                                           *)
ThreadsGoOn ==
  LET excused == hung = "yes" \/ \E t \in Threads : Forgotten(t)
  IN  /\ <>(pc[Main] = "idle" \/ excused)
      /\ []<>(pc[Wifly] = "loop" \/ excused)
=============================================================================
