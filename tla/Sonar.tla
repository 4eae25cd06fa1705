------------------------------- MODULE Sonar -------------------------------
(***************************************************************************)
(* The sonar service (serv_sonar.c) on the ADC driver (adc.c, adc_lld.c):  *)
(* sonarStart and sonarStop call the driver's functions for interrupts     *)
(* without the lock, so that the interrupts of the ADC and of its DMA      *)
(* stream fall between their stores.  One action is a piece between two    *)
(* accesses that an interrupt can tell apart.                              *)
(*                                                                         *)
(* The assertions of the driver are compiled out (chconf.h): a conversion  *)
(* may be started while it runs, and the stream then runs on or not.       *)
(*                                                                         *)
(* A distance stands for the average the callback computes.  The error     *)
(* callback calls wiflySend, which takes the system lock and sleeps: an    *)
(* interrupt that does so has hung the system.                             *)
(***************************************************************************)
EXTENDS Integers

CONSTANTS
  Depth,       \* ADC_BUFFER_DEPTH
  Distances    \* the averages of half a buffer

ASSUME DepthAssumption == Depth \in Nat \ {0} /\ Depth % 2 = 0

VARIABLES
  sonar_en,
  grpp,        \* ADCD1.grpp: "none" or "set"
  adc_state,   \* ADCD1.state
  dma, ndtr,   \* the DMA stream: enabled or not, transfers left
  dma_flags,   \* its half-transfer, transfer-complete and error flags
  adc, ovr,    \* the ADC: running with OVRIE or not, the overrun flag
  Tdistance,
  sonar_at,    \* where the wifly thread is in sonarStart or sonarStop
  hung,        \* an interrupt sleeps
  restarted    \* the conversion was started while it ran

sonar ==
  <<sonar_en, grpp, adc_state, dma, ndtr, dma_flags, adc, ovr, Tdistance,
    sonar_at, hung, restarted>>

SonarInit ==
  /\ sonar_en = "off" /\ grpp = "none" /\ adc_state = "ADC_STOP"
  /\ dma = "off" /\ ndtr = Depth /\ dma_flags = {}
  /\ adc = "off" /\ ovr = "no" /\ Tdistance = 0
  /\ sonar_at = "out" /\ hung = "no" /\ restarted = "no"

(* sonarInit: adcStart. *)
AdcStart ==
  /\ adc_state' = "ADC_READY"
  /\ UNCHANGED <<sonar_en, grpp, dma, ndtr, dma_flags, adc, ovr, Tdistance,
                 sonar_at, hung, restarted>>

(* A step of the wifly thread inside the two functions. *)
From(label, next) == sonar_at = label /\ sonar_at' = next

SonarStart ==
  /\ From("out", "group")
  /\ sonar_en' = "on"
  /\ UNCHANGED <<grpp, adc_state, dma, ndtr, dma_flags, adc, ovr, Tdistance, hung, restarted>>

(* Mutant: the state is not set. *)
SetGroupNoState ==
  /\ From("group", "dma")
  /\ grpp' = "set"
  /\ UNCHANGED <<sonar_en, adc_state, dma, ndtr, dma_flags, adc, ovr,
                 Tdistance, hung, restarted>>

(* adcStartConversionI.  It asserts that no conversion is active; the      *)
(* assertions are compiled out, and a second sonar 1 comes this far.       *)
SetGroup ==
  /\ From("group", "dma")
  /\ grpp' = "set" /\ adc_state' = "ADC_ACTIVE"
  /\ restarted' = IF adc_state = "ADC_ACTIVE" THEN "yes" ELSE restarted
  /\ UNCHANGED <<sonar_en, dma, ndtr, dma_flags, adc, ovr, Tdistance, hung>>

(* adc_lld_start_conversion: the size is ignored by a stream that runs,    *)
(* and the write of the mode stops it, at once or after the transfer under *)
(* way.                                                                    *)
SetMode ==
  /\ From("dma", "enable")
  /\ ndtr' = IF dma = "off" THEN Depth ELSE ndtr
  /\ dma' \in {"off", dma}
  /\ UNCHANGED <<sonar_en, grpp, adc_state, dma_flags, adc, ovr, Tdistance, hung, restarted>>

(* Mutant: the stream is not enabled. *)
EnableDmaNot ==
  /\ From("enable", "adc")
  /\ UNCHANGED <<sonar_en, grpp, adc_state, dma, ndtr, dma_flags, adc, ovr,
                 Tdistance, hung, restarted>>

(* dmaStreamEnable.  A stream that ran, or has flags left, may refuse. *)
EnableDma ==
  /\ From("enable", "adc")
  /\ dma' \in IF restarted = "no" THEN {"on"} ELSE {"on", "off"}
  /\ UNCHANGED <<sonar_en, grpp, adc_state, ndtr, dma_flags, adc, ovr,
                 Tdistance, hung, restarted>>

(* The status is cleared and the ADC set going. *)
StartAdc ==
  /\ From("adc", "out")
  /\ ovr' = "no" /\ adc' = "on"
  /\ UNCHANGED <<sonar_en, grpp, adc_state, dma, ndtr, dma_flags, Tdistance, hung, restarted>>

SonarStop ==
  /\ From("out", "check")
  /\ sonar_en' = "off"
  /\ UNCHANGED <<grpp, adc_state, dma, ndtr, dma_flags, adc, ovr, Tdistance, hung, restarted>>

(* Mutant: the group is cleared first. *)
StopCheckGroupFirst ==
  /\ From("check", IF adc_state = "ADC_READY" THEN "out" ELSE "stopdma")
  /\ grpp' = "none"
  /\ UNCHANGED <<sonar_en, adc_state, dma, ndtr, dma_flags, adc, ovr,
                 Tdistance, hung, restarted>>

(* adcStopConversionI *)
StopCheck ==
  /\ From("check", IF adc_state = "ADC_READY" THEN "out" ELSE "stopdma")
  /\ UNCHANGED <<sonar_en, grpp, adc_state, dma, ndtr, dma_flags, adc, ovr,
                 Tdistance, hung, restarted>>

(* adc_lld_stop_conversion: dmaStreamDisable, which clears the flags, then *)
(* the ADC.  In between the ADC runs on and nobody takes its samples.      *)
StopDma ==
  /\ From("stopdma", "stopadc")
  /\ dma' = "off" /\ dma_flags' = {}
  /\ UNCHANGED <<sonar_en, grpp, adc_state, ndtr, adc, ovr, Tdistance, hung, restarted>>

StopAdc ==
  /\ From("stopadc", "ready")
  /\ adc' = "off"
  /\ UNCHANGED <<sonar_en, grpp, adc_state, dma, ndtr, dma_flags, ovr,
                 Tdistance, hung, restarted>>

Stopped ==
  /\ From("ready", "out")
  /\ grpp' = "none" /\ adc_state' = "ADC_READY" /\ restarted' = "no"
  /\ UNCHANGED <<sonar_en, dma, ndtr, dma_flags, adc, ovr, Tdistance, hung>>

SonarStep ==
  \/ SetGroup \/ SetMode \/ EnableDma \/ StartAdc
  \/ StopCheck \/ StopDma \/ StopAdc \/ Stopped

----------------------------------------------------------------------------
(* Hardware: a sample is converted and stored, until one is lost. *)
Convert ==
  /\ adc = "on" /\ dma = "on" /\ ovr = "no"
  /\ ndtr' = IF ndtr = 1 THEN Depth ELSE ndtr - 1
  /\ dma_flags' = dma_flags \cup (IF ndtr = 1 THEN {"full"}
                                  ELSE IF 2 * (ndtr - 1) = Depth THEN {"half"}
                                  ELSE {})
  /\ UNCHANGED <<sonar_en, grpp, adc_state, dma, adc, ovr, Tdistance, sonar_at,
                 hung, restarted>>

(* Hardware: a transfer of the stream fails, which may stop the stream. *)
DmaError ==
  /\ adc = "on" /\ dma = "on"
  /\ dma' \in {"on", "off"}
  /\ dma_flags' = dma_flags \cup {"error"}
  /\ UNCHANGED <<sonar_en, grpp, adc_state, ndtr, adc, ovr, Tdistance, sonar_at,
                 hung, restarted>>

(* Hardware: a sample was not taken in time. *)
Overrun ==
  /\ adc = "on" /\ ovr = "no"
  /\ ovr' = "yes"
  /\ UNCHANGED <<sonar_en, grpp, adc_state, dma, ndtr, dma_flags, adc,
                 Tdistance, sonar_at, hung, restarted>>

(* _adc_isr_error_code: the conversion is stopped and adcerrorcallback     *)
(* called, whose wiflySend does not return.                                *)
ErrorCode ==
  /\ dma' = "off" /\ dma_flags' = {} /\ adc' = "off"
  /\ adc_state' = "ADC_ERROR"
  /\ hung' = "yes"

(* adc_lld_serve_rx_interrupt: an error, whose handler does not ask        *)
(* whether the group is there; else adccallback for half the buffer, or    *)
(* for both halves one after the other, unless the group is gone.          *)
DmaInterrupt(distance) ==
  /\ dma_flags # {}
  /\ \/ /\ "error" \in dma_flags
        /\ ErrorCode
        /\ UNCHANGED Tdistance
     \/ /\ "error" \notin dma_flags
        /\ dma_flags' = {}
        /\ Tdistance' = IF grpp = "set" THEN distance ELSE Tdistance
        /\ UNCHANGED <<dma, adc, adc_state, hung>>
  /\ UNCHANGED <<sonar_en, grpp, ndtr, ovr, sonar_at, restarted>>

(* ADC1_2_3_IRQHandler *)
AdcInterrupt ==
  /\ adc = "on" /\ ovr = "yes"
  /\ ovr' = "no"
  /\ IF ndtr > 0 /\ grpp = "set"
       THEN ErrorCode
       ELSE UNCHANGED <<dma, dma_flags, adc, adc_state, hung>>
  /\ UNCHANGED <<sonar_en, grpp, ndtr, Tdistance, sonar_at, restarted>>

SonarInterrupt ==
  \/ Convert \/ Overrun \/ AdcInterrupt \/ DmaError
  \/ \E distance \in Distances : DmaInterrupt(distance)

(* The service by itself: every sequence of the two calls, after sonarInit. *)
SonarNext ==
  \/ AdcStart /\ adc_state = "ADC_STOP"
  \/ adc_state # "ADC_STOP" /\ (SonarStart \/ SonarStop \/ SonarStep)
  \/ SonarInterrupt

SonarSpec == SonarInit /\ [][hung = "no" /\ SonarNext]_sonar

----------------------------------------------------------------------------
SonarTypeOK ==
  /\ {sonar_en, dma, adc} \subseteq {"on", "off"}
  /\ grpp \in {"none", "set"} /\ {ovr, hung, restarted} \subseteq {"yes", "no"}
  /\ adc_state \in {"ADC_STOP", "ADC_READY", "ADC_ACTIVE", "ADC_ERROR"}
  /\ ndtr \in 1 .. Depth /\ dma_flags \subseteq {"half", "full", "error"}
  /\ Tdistance \in Distances \cup {0}
  /\ sonar_at \in {"out", "group", "dma", "enable", "adc", "check", "stopdma",
                   "stopadc", "ready"}

(* As long as the ADC or the DMA can interrupt, the group their handlers   *)
(* go through is in place, at every point of the two unlocked functions:   *)
(* no handler, and the one of a DMA error does not even look, goes through *)
(* a group that is gone.                                                   *)
GroupBehindInterrupts ==
  dma = "on" \/ adc = "on" \/ dma_flags # {} => grpp = "set"

(* Between the commands the sonar does what was asked for last, unless     *)
(* adcStartConversionI was called on a conversion that runs, which it      *)
(* asserts against: the sonar runs, or is about to report an error, or it  *)
(* is quiet, with no interrupt left over that would store another          *)
(* distance.  A sonar 0 puts an end to the exception.                      *)
SonarAsAsked ==
  hung = "no" /\ sonar_at = "out" =>
    IF sonar_en = "on"
      THEN /\ adc_state = "ADC_ACTIVE" /\ adc = "on"
           /\ dma = "on" \/ "error" \in dma_flags \/ restarted = "yes"
      ELSE /\ adc_state # "ADC_ACTIVE" /\ dma = "off" /\ adc = "off"
           /\ dma_flags = {} /\ restarted = "no"

(* While the sonar is on, and was not started twice, it keeps delivering   *)
(* distances.                                                              *)
DistancesCome ==
  <>[](sonar_en = "on" /\ sonar_at = "out" /\ hung = "no" /\ restarted = "no")
    => []<><<\E distance \in Distances : DmaInterrupt(distance)>>_sonar

(* dbg_check_lock (chdebug.c) panics with SV#4 when chSysLock is called    *)
(* from an interrupt: no interrupt takes the lock of a thread.             *)
NoLockInInterrupt == hung = "no"
=============================================================================
