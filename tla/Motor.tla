------------------------------- MODULE Motor -------------------------------
(***************************************************************************)
(* The motor service (serv_motor.c) as the command handler of main.c       *)
(* drives it: for each motor a binary semaphore that is taken while the    *)
(* motor runs, two PWM channels, and a virtual timer whose callback stops  *)
(* the motor and gives the semaphore back.                                 *)
(*                                                                         *)
(* One action is one region between chSysLock and chSysUnlock, except that *)
(* the two channel writes of motor_left_on / motor_right_on are two        *)
(* actions, because the PWM hardware sees the state between them.  A       *)
(* thread at "on2" holds the system lock.  The tick interrupt preempts     *)
(* every thread and runs to completion.  Time is the timer's remaining     *)
(* ticks; module VirtualTimers shows that the kernel's delta list keeps    *)
(* that time.                                                              *)
(***************************************************************************)
EXTENDS Integers, Sequences

CONSTANTS
  Threads,     \* the threads that execute motor commands
  Seconds,     \* the run times a command may ask for, as atoi returns them
  PerSecond,   \* milliseconds per second, and ticks: CH_FREQUENCY is the same
  Word,        \* the number of values of an int and of systime_t: 2^32
  SpeedArgs    \* the arguments motorSetSpeed may be called with

ASSUME SecondsAssumption == Seconds \subseteq Int
ASSUME WordAssumption == PerSecond \in Nat \ {0} /\ Word \in Nat \ {0}
ASSUME SpeedArgsAssumption == SpeedArgs \subseteq Int

VARIABLES
  pc,           \* where each thread is in its command
  todo,         \* the motors a thread's command has yet to start
  dir,          \* the direction of a thread's command
  dur,          \* the run time of a thread's command, in seconds
  cnt,          \* s_counter of motor_left_sem and motor_right_sem
  queue,        \* s_queue of motor_left_sem and motor_right_sem: FIFO of threads
  out,          \* the widths of the two PWM channels of each motor
  motor_speed,  \* in hundredths of a percent
  vt,           \* vtl, vtr: remaining ticks, 0 when the timer is not armed
  immediate,    \* the timers set for 0 ticks: they head the list until the tick
  firing,       \* the motors whose callback the running tick has yet to call
  corrupt       \* the motors whose timer chVTSet linked while it was in the list

vars == <<pc, todo, dir, dur, cnt, queue, out, motor_speed, vt, immediate,
          firing, corrupt>>
locals == <<todo, dir, dur>>
sem == <<cnt, queue>>
timers == <<vt, immediate>>

Motors == {"left", "right"}
Directions == {"forward", "backward"}

(* What the commands of main.c start: both motors, or one of them forward. *)
Commands ==
  { [motors |-> Motors, dir |-> d] : d \in Directions }
    \cup { [motors |-> {m}, dir |-> "forward"] : m \in Motors }

(* PWM_PERCENTAGE_TO_WIDTH for the period of motor_pwmcfg. *)
PwmPeriod == 20
Width(percentage) == (PwmPeriod * percentage) \div 10000

(* What an int holds: two's complement. *)
Wrap(x) ==
  LET u == x % Word IN IF 2 * u >= Word THEN u - Word ELSE u

(* Division in C rounds towards zero. *)
Quotient(x) ==
  IF x >= 0 THEN x \div PerSecond ELSE - ((- x) \div PerSecond)

(* MS2ST multiplies and divides by the same number.  Where the product     *)
(* overflows the compiler may have left both out, or computed them modulo  *)
(* Word.                                                                   *)
MS2ST(milli) ==
  { milli % Word,
    (Quotient(Wrap(Wrap(milli - 1) * PerSecond)) + 1) % Word }

(* The motor a thread's command is starting: the left one first. *)
Cur(t) == IF "left" \in todo[t] THEN "left" ELSE "right"

(* chBSemGetStateI *)
Taken(m) == cnt[m] <= 0

(* No thread holds the system lock and no interrupt is being served. *)
Unlocked == firing = {} /\ \A t \in Threads : pc[t] # "on2"

At(t, label) == Unlocked /\ pc[t] = label
Goto(t, label) == pc' = [pc EXCEPT ![t] = label]

----------------------------------------------------------------------------
(* motorInit *)
Init ==
  /\ pc = [t \in Threads |-> "idle"]
  /\ todo = [t \in Threads |-> {}]
  /\ dir = [t \in Threads |-> "forward"]
  /\ dur = [t \in Threads |-> 0]
  /\ cnt = [m \in Motors |-> 1]
  /\ queue = [m \in Motors |-> <<>>]
  /\ out = [m \in Motors |-> [p1 |-> 0, p2 |-> 0]]
  /\ motor_speed = 6250
  /\ vt = [m \in Motors |-> 0]
  /\ immediate = {}
  /\ firing = {}
  /\ corrupt = {}

(* callback receives forward, backward, turnLeft or turnRight; 0 seconds   *)
(* are refused without touching the service.                               *)
Callback(t, c, sec) ==
  /\ At(t, "idle") /\ sec # 0
  /\ Goto(t, "activeL")
  /\ todo' = [todo EXCEPT ![t] = c.motors]
  /\ dir' = [dir EXCEPT ![t] = c.dir]
  /\ dur' = [dur EXCEPT ![t] = sec]
  /\ UNCHANGED <<sem, out, motor_speed, timers, firing, corrupt>>

(* The arguments of a command are gone when it returns. *)
Forget(t, returns) ==
  /\ dir' = [dir EXCEPT ![t] = IF returns THEN "forward" ELSE @]
  /\ dur' = [dur EXCEPT ![t] = IF returns THEN 0 ELSE @]

(* motorActive: the left motor is read first, the right one only if the    *)
(* left one runs.  A command is refused only when both run.                *)
MotorLeftActive(t) ==
  /\ At(t, "activeL")
  /\ Goto(t, IF Taken("left") THEN "activeR" ELSE "wait")
  /\ UNCHANGED <<locals, sem, out, motor_speed, timers, firing, corrupt>>

MotorRightActive(t) ==
  /\ At(t, "activeR")
  /\ Goto(t, IF Taken("right") THEN "idle" ELSE "wait")
  /\ todo' = [todo EXCEPT ![t] = IF Taken("right") THEN {} ELSE @]
  /\ Forget(t, Taken("right"))
  /\ UNCHANGED <<sem, out, motor_speed, timers, firing, corrupt>>

(* chBSemWait of motor_left_on / motor_right_on: the thread goes on, or    *)
(* queues up and sleeps.                                                   *)
SemWait(t) ==
  LET m == Cur(t) IN
  /\ At(t, "wait")
  /\ cnt' = [cnt EXCEPT ![m] = @ - 1]
  /\ \/ /\ cnt[m] > 0
        /\ Goto(t, "on1")
        /\ UNCHANGED queue
     \/ /\ cnt[m] <= 0
        /\ Goto(t, "blocked")
        /\ queue' = [queue EXCEPT ![m] = Append(@, t)]
  /\ UNCHANGED <<locals, out, motor_speed, timers, firing, corrupt>>

(* motor_left_on / motor_right_on: the two channel writes under the lock.  *)
(* Forward clears channel 1 and then drives channel 2; backward drives     *)
(* channel 1 and then clears channel 2.                                    *)
MotorOn1(t) ==
  /\ At(t, "on1")
  /\ out' = [out EXCEPT ![Cur(t)].p1 =
               IF dir[t] = "forward" THEN 0 ELSE Width(motor_speed)]
  /\ Goto(t, "on2")
  /\ UNCHANGED <<locals, sem, motor_speed, timers, firing, corrupt>>

MotorOn2(t) ==
  /\ pc[t] = "on2"
  /\ out' = [out EXCEPT ![Cur(t)].p2 =
               IF dir[t] = "forward" THEN Width(motor_speed) ELSE 0]
  /\ Goto(t, "set")
  /\ UNCHANGED <<locals, sem, motor_speed, timers, firing, corrupt>>

(* chVTSetI puts a timer of n ticks into the list, behind the ones that    *)
(* run out earlier.  Nothing runs out before 0 ticks: such a timer becomes *)
(* the head of the list, the next tick takes 1 from its 0, and it and all  *)
(* the timers behind it run for Word ticks more.                           *)
Arm(m, n) ==
  /\ immediate' = IF n = 0 THEN immediate \cup {m} ELSE immediate
  /\ vt' = [k \in Motors |->
       IF k = m THEN IF immediate' = {} THEN n ELSE n + Word
       ELSE IF vt[k] > 0 /\ n = 0 /\ immediate = {} THEN vt[k] + Word
       ELSE vt[k]]

(* Mutant: motorRightForwardS arms vtl as well. *)
VTSetLeft(t) ==
  /\ At(t, "set")
  /\ \E n \in MS2ST(Wrap(dur[t] * PerSecond)) : Arm("left", n)
  /\ corrupt' = IF vt["left"] = 0 THEN corrupt ELSE corrupt \cup {"left"}
  /\ todo' = [todo EXCEPT ![t] = @ \ {Cur(t)}]
  /\ Goto(t, IF todo[t] = {Cur(t)} THEN "idle" ELSE "wait")
  /\ Forget(t, todo[t] = {Cur(t)})
  /\ UNCHANGED <<sem, out, motor_speed, firing>>

(* chVTSet, for the milliseconds the command handler computed.  It does    *)
(* not look whether the timer is already in the list: linking it twice     *)
(* corrupts the list.  The command then starts its other motor or returns. *)
VTSet(t) ==
  LET m == Cur(t) IN
  /\ At(t, "set")
  /\ \E n \in MS2ST(Wrap(dur[t] * PerSecond)) : Arm(m, n)
  /\ corrupt' = IF vt[m] = 0 THEN corrupt ELSE corrupt \cup {m}
  /\ todo' = [todo EXCEPT ![t] = @ \ {m}]
  /\ Goto(t, IF todo[t] = {m} THEN "idle" ELSE "wait")
  /\ Forget(t, todo[t] = {m})
  /\ UNCHANGED <<sem, out, motor_speed, firing>>

(* Mutant: the counter goes up, but nobody is woken. *)
SignalNobody(m) ==
  /\ cnt' = [cnt EXCEPT ![m] = IF @ < 1 THEN @ + 1 ELSE @]
  /\ UNCHANGED <<pc, queue>>

(* Mutant: the semaphore is set free although a waiting thread is woken. *)
SignalFree(m) ==
  /\ cnt' = [cnt EXCEPT ![m] = 1]
  /\ \/ /\ queue[m] # <<>>
        /\ pc' = [pc EXCEPT ![Head(queue[m])] = "on1"]
        /\ queue' = [queue EXCEPT ![m] = Tail(@)]
     \/ /\ queue[m] = <<>>
        /\ UNCHANGED <<pc, queue>>

(* chBSemSignalI: a waiting thread is handed the semaphore, otherwise the  *)
(* counter goes up, but never above 1.                                     *)
Signal(m) ==
  /\ cnt' = [cnt EXCEPT ![m] = IF @ < 1 THEN @ + 1 ELSE @]
  /\ \/ /\ cnt[m] < 0
        /\ pc' = [pc EXCEPT ![Head(queue[m])] = "on1"]
        /\ queue' = [queue EXCEPT ![m] = Tail(@)]
     \/ /\ cnt[m] >= 0
        /\ UNCHANGED <<pc, queue>>

(* Mutant: only channel 1 is cleared. *)
SwitchOffChannel1(m) ==
  /\ out' = [out EXCEPT ![m].p1 = 0]
  /\ Signal(m)

(* The body that motorLeftOff and motor_left_off share. *)
SwitchOff(m) ==
  /\ out' = [out EXCEPT ![m] = [p1 |-> 0, p2 |-> 0]]
  /\ Signal(m)

(* Mutant: the tick calls one callback only. *)
TickFiresOne ==
  /\ Unlocked /\ corrupt = {}
  /\ \E m \in Motors : vt[m] > 0
  /\ vt' = [m \in Motors |-> IF vt[m] > 0 THEN vt[m] - 1 ELSE 0]
  /\ immediate' = {}
  /\ firing' = {m \in Motors : vt[m] = 1 /\ (m = "left" \/ vt["left"] # 1)}
  /\ UNCHANGED <<pc, locals, sem, out, motor_speed, corrupt>>

(* chVTDoTickI: one tick; the timers that run out are to be fired.  What a *)
(* tick does on a corrupted list is not modelled.                          *)
Tick ==
  /\ Unlocked /\ corrupt = {}
  /\ \E m \in Motors : vt[m] > 0
  /\ vt' = [m \in Motors |-> IF vt[m] > 0 THEN vt[m] - 1 ELSE 0]
  /\ immediate' = {}
  /\ firing' = {m \in Motors : vt[m] = 1}
  /\ UNCHANGED <<pc, locals, sem, out, motor_speed, corrupt>>

(* motor_left_off / motor_right_off, called from the tick interrupt. *)
MotorOffCallback(m) ==
  /\ m \in firing
  /\ firing' = firing \ {m}
  /\ SwitchOff(m)
  /\ UNCHANGED <<locals, motor_speed, timers, corrupt>>

(* Mutant: the new speed is applied to the motors that run. *)
MotorSetSpeedNow(s) ==
  /\ Unlocked
  /\ 25 <= s /\ s <= 100
  /\ motor_speed' = 100 * s
  /\ out' = [m \in Motors |-> [p \in {"p1", "p2"} |->
               IF out[m][p] = 0 THEN 0 ELSE Width(100 * s)]]
  /\ UNCHANGED <<pc, locals, sem, timers, firing, corrupt>>

(* motorSetSpeed, from any thread.  No command of main.c calls it. *)
MotorSetSpeed(s) ==
  /\ Unlocked
  /\ 25 <= s /\ s <= 100
  /\ motor_speed' = 100 * s
  /\ UNCHANGED <<pc, locals, sem, out, timers, firing, corrupt>>

(* motorLeftOff / motorRightOff: part of the public interface, called by   *)
(* nothing in the firmware.  It leaves the timer armed.                    *)
MotorOff(m) ==
  /\ Unlocked
  /\ SwitchOff(m)
  /\ UNCHANGED <<locals, motor_speed, timers, firing, corrupt>>

----------------------------------------------------------------------------
ThreadStep(t) ==
  \/ MotorLeftActive(t) \/ MotorRightActive(t)
  \/ SemWait(t) \/ MotorOn1(t) \/ MotorOn2(t) \/ VTSet(t)

Next ==
  \/ \E t \in Threads :
       \/ \E c \in Commands, sec \in Seconds : Callback(t, c, sec)
       \/ ThreadStep(t)
  \/ Tick
  \/ \E m \in Motors : MotorOffCallback(m)
  \/ \E s \in SpeedArgs : MotorSetSpeed(s)

(* The service as the commands use it: nothing calls motorOff. *)
Spec == Init /\ [][Next]_vars

(* Every operation of serv_motor.h. *)
ApiNext == Next \/ \E m \in Motors : MotorOff(m)
ApiSpec == Init /\ [][ApiNext]_vars

(* A thread that can run is run, the tick keeps coming, and a tick calls   *)
(* the callbacks that are due.  Threads and tick are kept off while        *)
(* another thread holds the system lock or an interrupt is served, again   *)
(* and again: the pending tick and the round robin of the threads justify  *)
(* that each gets its turn, which is strong fairness.                      *)
Fairness ==
  /\ \A t \in Threads : SF_vars(ThreadStep(t))
  /\ SF_vars(Tick)
  /\ \A m \in Motors : WF_vars(MotorOffCallback(m))

FairSpec == Spec /\ Fairness

----------------------------------------------------------------------------
Labels ==
  {"idle", "activeL", "activeR", "wait", "blocked", "on1", "on2", "set"}

CommandTypes ==
  /\ pc \in [Threads -> Labels] /\ todo \in [Threads -> SUBSET Motors]
  /\ dir \in [Threads -> Directions] /\ dur \in [Threads -> Int]

SemTypes == cnt \in [Motors -> Int] /\ queue \in [Motors -> Seq(Threads)]

OutputTypes ==
  out \in [Motors -> [p1 : Nat, p2 : Nat]] /\ motor_speed \in 2500 .. 10000

TimerTypes ==
  /\ vt \in [Motors -> Nat] /\ immediate \in SUBSET Motors
  /\ firing \in SUBSET Motors /\ corrupt \in SUBSET Motors

TypeOK == CommandTypes /\ SemTypes /\ OutputTypes /\ TimerTypes

Driven(m) == out[m].p1 # 0 \/ out[m].p2 # 0

(* The thread that holds m's semaphore and has not yet armed its timer. *)
Starting(t, m) == pc[t] \in {"on1", "on2", "set"} /\ Cur(t) = m

(* chSemSignalI and chSemWaitS assert a consistent semaphore: a negative   *)
(* counter is exactly the number of threads queued on it, and the queued   *)
(* threads are the ones asleep on that motor.                              *)
SemConsistent ==
  \A m \in Motors :
    /\ cnt[m] <= 1
    /\ Len(queue[m]) = IF cnt[m] < 0 THEN - cnt[m] ELSE 0
    /\ \A t \in Threads :
         (\E i \in 1 .. Len(queue[m]) : queue[m][i] = t)
           <=> pc[t] = "blocked" /\ Cur(t) = m

(* The two inputs of a motor bridge are never both driven, not even        *)
(* between the two channel writes of motor_left_on / motor_right_on.       *)
NeverBothDriven == \A m \in Motors : out[m].p1 = 0 \/ out[m].p2 = 0

(* A motor that is driven is going to be stopped: its timer is armed, or   *)
(* is just firing, or a thread is on its way to arm it.                    *)
StopPending ==
  \A m \in Motors :
    Driven(m) => \/ vt[m] > 0 \/ m \in firing
                 \/ \E t \in Threads : Starting(t, m)

(* chVTSet reuses a timer only after its callback: "After invoking the     *)
(* callback the timer is disabled and the structure can be disposed or     *)
(* reused" (chvt.c).  A timer set while armed would corrupt the list.      *)
TimerReusedAfterFiring == corrupt = {}

(* A motor is in the hands of one party: one starting thread, or its       *)
(* armed timer, or its firing timer; its semaphore is free exactly when    *)
(* it is in nobody's.                                                      *)
OneOwner ==
  \A m \in Motors :
    /\ \A t, u \in Threads : Starting(t, m) /\ Starting(u, m) => t = u
    /\ ~ (vt[m] > 0 /\ m \in firing)
    /\ (\E t \in Threads : Starting(t, m)) => vt[m] = 0 /\ m \notin firing
    /\ Taken(m) <=> \/ vt[m] > 0 \/ m \in firing
                    \/ \E t \in Threads : Starting(t, m)

(* A running motor keeps its direction and its speed until it is switched  *)
(* off: neither a later command nor motorSetSpeed touches its channels.    *)
NoChangeWhileDriven ==
  [][\A m \in Motors : Driven(m) /\ Driven(m)' => out'[m] = out[m]]_vars

(* The ticks left of each timer; 0: due in this tick; -1: not armed. *)
TicksLeft ==
  [m \in Motors |-> IF vt[m] > 0 THEN vt[m] ELSE IF m \in firing THEN 0 ELSE -1]

(* The two timers seen as TimerSpec's. *)
Timer == INSTANCE TimerSpec WITH
           Timers <- Motors, Ticks <- 1 .. Word - 1, left <- TicksLeft

(* The service and the tick treat vtl and vtr by the rules of TimerSpec,   *)
(* the ones the delta list of VirtualTimers implements: chVTSet only on a  *)
(* timer that is not armed, each callback once, in its own tick.  The one  *)
(* exception is a chVTSet that asks for 0 ticks, which chVTSetI does not   *)
(* allow and the overflow of sec * 1000 makes possible, and one behind it  *)
(* before the next tick: they move what is in the list.                    *)
TimersKept == Timer!Init /\ [][Timer!Next \/ immediate' # {}]_TicksLeft

(* Every motor that runs stops again, whatever commands follow, unless     *)
(* they ask for 0 ticks again and again: each such command makes the       *)
(* timers that wait in the list run for Word ticks more.                   *)
MotorsStop == (\A m \in Motors : Driven(m) ~> ~Driven(m)) \/ []<>(immediate # {})

(* Every command returns to the caller, also one that had to wait for a    *)
(* motor an earlier command is still running, with the same exception.     *)
CommandsReturn ==
  (\A t \in Threads : pc[t] # "idle" ~> pc[t] = "idle") \/ []<>(immediate # {})
=============================================================================
