# TLA+ models of the robot firmware

The repository holds the firmware of a small robot (an STM32F4 board with two
motors, a sonar, a compass, an accelerometer and a WiFly serial radio) on a
vendored ChibiOS/RT 2.x, and a Python control program. This directory models
the firmware's own services, the parts of the kernel and of the drivers they
rest on, the start of the firmware, and the protocol side of the control
program.

## The system

| Part | Source | State | Operations |
|---|---|---|---|
| Command handler, start | `main.c` | none of its own | `main` starts the services; `callback(id, args)` is run by the wifly thread for each line |
| Motor service | `serv_motor.c` | a binary semaphore, two PWM channels and a virtual timer per motor; `motor_speed` | start a motor or both for a time, stop, query, set the speed |
| Wifly service | `serv_wifly.c` | the line being read (`id`, `args`, `i`, `j`, `read_id`), the listener's flags, a thread, a buffer pool | `wifly_loop`, `wifly_send`, `wifly_receive`, `wiflySend`, `wiflyRead`; commands to the radio, `wiflyConnect` |
| Sonar service | `serv_sonar.c` | the last distance, `sonar_en` | start, stop, read; two callbacks |
| Heading service | `serv_heading.c`, `lis302dl.c` | the last readings of compass and accelerometer | set up, read |
| Serial driver | `serial.c`, `serial_lld.c` | input and output queue, the interrupt enables of the USART | the interrupt handler, `sdWrite`, `sdGetTimeout` |
| ADC driver | `adc.c`, `adc_lld.c` | state, conversion group, DMA stream | start and stop a conversion, two interrupts |
| I2C driver | `i2c.c`, `i2c_lld.c` | state, sleeping thread, bus lock, a timer on the caller's stack | transfer with a timeout, interrupts, lock |
| SPI driver | `spi.c`, `spi.h` | state, sleeping thread | transfer, interrupt |
| Virtual timers | `chvt.h`, `chvt.c` | a doubly linked delta list, the system time | set, reset, tick |
| I/O queues | `chqueues.c` | circular buffer, two pointers, a counter, a sleeping thread | put, get, write, reset |
| Scheduler, mutexes | `chschd.c`, `chmtx.c` | ready list, priorities, owners and queues of mutexes | sleep, wake up, yield, reschedule, lock, unlock |
| Semaphores, events, messages, pools | `os/kernel/src` | counters and queues | as the services use them |
| Control program | `gui/gui.py` | socket, state of the buttons | connect, send a line and wait, disconnect |

How they interact. The USART interrupt fills the input queue and raises event
flags for the wifly thread. The thread reads characters, and at the end of a
line runs `callback`, which starts motors, starts or stops the sonar, reads the
sensors or talks to the radio. The motors' timers run in the kernel's tick and
switch the motors off; the ADC and its DMA stream interrupt with distances or
errors; a transfer to a sensor puts the thread to sleep until an interrupt or a
timer wakes it. The answer goes through the output queue. Other threads (main
at boot) hand the wifly thread messages to send and sleep until it has done so.
The control program sends one line at a time over the radio and takes what
comes back for the answer.

What is hard:

* interrupts and threads interleave at every unlock, and some driver functions
  are called without the lock they require;
* a command may sleep on a motor's semaphore, in the thread that reads lines;
* starting a motor and arming its timer are two critical sections;
* the tick gives the lock up around each callback;
* an event is one bit for many characters, its flags are taken in a second
  step, and stale flags are taken for new ones;
* queues fill up, lines overflow their buffers, the serial line has errors;
* the wifly thread is created before the services its commands use;
* a timer on a stack races the interrupt that makes the function return;
* answers come late, after the program gave up and connected again;
* the system time and the timers' differences are unsigned and wrap.

`PROJECT.json` lists these, line by line, as hazards, with the property that
covers each one or the reason that none does.

## Modules

| Module | Models | Role |
|---|---|---|
| `TimerSpec` | what virtual timers promise | abstract specification |
| `VirtualTimers` | `chvt.c`, `chVTDoTickI` | implements `TimerSpec` |
| `Motor` | `serv_motor.c`, the motor commands of `main.c`, binary semaphores | uses its timers by `TimerSpec` |
| `Wifly` | `serv_wifly.c`, the serial driver, events, messages, the peer | |
| `ByteQueue` | what an I/O queue promises | abstract specification |
| `IOQueue` | `chqueues.c` | implements `ByteQueue`, which is how `Wifly` sees its queues |
| `Radio` | command mode of `serv_wifly.c`, `chmempools.c` | |
| `Scheduler` | `chschd.c`, `chmtx.c` | what `Boot` assumes of priorities |
| `I2CDriver` | `i2c.c`, `i2c_lld.c` | component of `Boot` |
| `Sonar` | `serv_sonar.c`, `adc.c`, `adc_lld.c` | component of `Boot` |
| `Boot` | `main`, `wiflyInit`, `serv_heading.c`, `lis302dl.c`, SPI | composition with `I2CDriver` and `Sonar` |
| `Gui` | the protocol of `gui.py` and its connection | |
| `MotorProofs`, `VirtualTimersProofs`, `WiflyProofs`, `IOQueueProofs`, `RadioProofs`, `SchedulerProofs`, `GuiProofs` | | theorems about one module each |
| `BootProofs` | | theorems about `I2CDriver` and `Sonar`, then about their composition |
| `MC...` | | instances for TLC |

### Motor

`pc`, `todo`, `dir` and `dur` are the program counter and the locals of each
thread that gives a command; `cnt` and `queue` are `s_cnt` and `s_queue` of the
two semaphores, `out` the channel widths, `vt` the ticks a timer has left,
`firing` the callbacks the current tick has still to make. One action is one
region between `chSysLock` and `chSysUnlock`: `Callback` (a command arrives),
`MotorLeftActive`, `MotorRightActive` (the two halves of `motorActive`),
`SemWait`, `MotorOn1` and `MotorOn2` (the two channel writes, separate because
the bridge sees the state between them; the lock is held), `VTSet`, `Tick`,
`MotorOffCallback`, `MotorSetSpeed` and `MotorOff`. Left and right are the same
code twice and are one action with the motor as parameter. `Spec` is the
service as the firmware uses it; `ApiSpec` adds `MotorOff`, which no code calls.
`corrupt` records the timers that were set while armed: what `chVTSetI` then
does to the list is not modelled, the properties say that it does not happen
under `Spec`. (Under `ApiSpec` it can: `motorLeftOff` frees the motor and leaves
its timer armed.)

A command carries the seconds that `atoi` returned, of which `callback` refuses
only 0. The two conversions, `sec * 1000` and `MS2ST`, keep the width of the
code's integers (`Wrap`, `Word`), and where the product in `MS2ST` overflows both
outcomes of the build are possible. So a command may ask for 0 ticks, which
`chVTSetI` does not allow: `Arm` gives what then happens to the list. The timer
becomes its head with a difference of 0, the next tick turns that into the
largest number there is, and this timer and those behind it run for `Word` ticks
more. `immediate` holds the timers for which this happens in the current tick.
The three properties that speak of time (`TimersKept`, `MotorsStop`,
`CommandsReturn`) name the case as their exception; the others hold through it.

### VirtualTimers and TimerSpec

The list is modelled at the level of its pointers, with the header as an extra
node. `VTSetI`, `VTResetI` and `VTDoTickI` are the functions and macros of the
same names; the loop of `chVTDoTickI` is `FireI` and `EndTickI`, with other
actions possible between its rounds, because the lock is released there.
`TimeIsWithin` is evaluated for every window in every state. `FiresOnTime` says
that the list implements `TimerSpec`: `Left` sums the differences up to a
timer, along the walk from the header (`Reached`, `Passed`) to the first place
where it meets the timer. In the abstract specification time cannot pass while a callback is due.
`Motor` is shown to use its two timers by the same rules (`TimersKept`), which
is what justifies its simpler view of time. It leaves them only where a timer is
set for 0 ticks, for which `VirtualTimers` and `TimerSpec` say nothing.

### Wifly

The wifly thread is a program counter `pc` over the pieces of `wifly_loop`,
`wifly_send` and `wifly_receive`; the interrupt handler is `Receive`, `Break`,
`Transmit`, `OutputEmpty` and `TransmissionEnd`. The handler reads CR1 and SR
first and may find the end of the transmission together with another cause
(`done`); it then writes CR1 from the value it read, which can switch the
transmitter interrupt on again. `busy` says that a character has gone out
whose completion was not reported. `el_flags` and `pending` are the listener's
flags and the thread's event bit. A line is a sequence of characters; a letter
stands for a word ("v" for a command that sends its own answer, "f" for one
that is answered OK or ERROR, "h" for HELLO). An answer or message is `MsgLen`
characters that carry their place in it, so that torn or mixed messages show,
and ends where its last character is (`AnswerEnds`). `WordOf` and `Allowed` are the
reference for the answers: the command word of a line, computed from the whole line
instead of character by character, and the answers that line may get.

A scenario fixes what the peer sends (`script`), its pace, the size of the input
queue (`room`) and how many calls other threads make (`quota`); `Init` picks one.
A `"prompt"` peer waits for the answers, and a character arrives only when the
loop has read the one before it; a `"polite"` one only waits for the answers,
as `gui.py` does; `"any"` and `"noisy"` ones wait for nothing, the last with all
errors.

Abstracted: the text of messages, the pins and LEDs, `chThdYield`; the errors
`set_error` knows are one flag (parity is not enabled in `wifly_config`).
`wifly_receive`'s one-second timeout may happen whenever no event is pending.
The queues are bounded sequences, and their reset is one step: `IOQueue` shows
what the buffer does when it is not.

### IOQueue and ByteQueue

One module for both kinds of queue: `kind` says whether the interrupt puts and
the thread gets (`IQPutI`, `IQGet`) or the reverse (`OQWrite`, `OQGetI`). `rd`,
`wr` and `q_counter` are the pointers and the counter, which counts bytes in an
input queue and free places in an output queue. `wifly_loop` calls the two
functions that reset a queue without the lock they ask for: `Reset` begins one,
`Store(s)` is one of its three stores, in any order, as the compiler is free to
choose one, and the interrupt may come between two of them. `raced`
records that it did; from there to the next whole reset the content is lost,
which is `Disturbed` in `ByteQueue`. `IsFifo` says that otherwise the buffer is
a first-in first-out queue.

### Radio

`held[t]` is the stack of buffers in the local variables of a thread's calls:
the one of `wiflySendCommand`, the line buffer of `wiflyReadCommand` and the one
of `wiflyConnect`. `Alloc` returns `NULL` from an empty pool and, as in the
code, nobody looks. One of the threads is the wifly thread, `wifly_tp`, which
sends and reads by itself; the `wiflySend` and `wiflyRead` of another thread are
messages to it, carried out only between two lines and while it is in no handler
(`Served`, `Looping`, `line`). The calls of `wiflyReadCommand` around its loop are
`Before` and `After`, one `Exchange` each; in the loop each `ReadLine` ends with a
line (`AnswerLine`) or with a prompt, an error or silence (`AnswerEnds`), and the
radio may send any number of lines. `nth` counts the commands of `wiflyConnect`, which
goes on only while the answers are the expected ones. `PoolAssumption` states
how many threads ten buffers are for: three.

### Scheduler

`rlist` is the ready list, `prio` the current and `RealPrio` the own priority of
a thread, `mqueue` and `mtxlist` the threads waiting for a mutex and the mutexes
of a thread. `GoSleep`, `Yield`, `Wake`, `Interrupt` (an interrupt wakes a thread
and reschedules at its end, with or without time left), `Quantum` (a time slice
ends), `MtxLock` and `MtxUnlock` are the actions. `Boosted` is the set of threads
whose priority the chain of owners raises: the least set with the owner of the
mutex that `Followed`, the step of the loop from a waiting thread to the owner of
its mutex, does not leave. `Requeue` moves them in the queue they are in,
`NewPrio` recomputes the priority at an unlock.

### I2CDriver, Sonar and Boot

`I2CDriver` is one transfer per thread as a label `at`: `Acquire` the bus,
`Transmit` (state and safety timer, then the lock is released), `Go` to sleep
once the bus is free or `BusyTimeout`, `Interrupt` or `SafetyTimeout` wakes the
thread, `Finish` and `Release`. `armed` is the set of threads whose stack carries
a timer in the kernel's list. `Sonar` has one action per store of the two
unlocked driver functions that an interrupt can tell from the next one, two
interrupt handlers, and the hardware (`Convert`, `Overrun`, `DmaError`). Each has
its own `...Next`, which is the component under the least favourable use.

The drivers assert more than they need, and `chconf.h` compiles the assertions
out. The firmware fails two of them, and the modules say what happens then. A
timeout aborts a transfer by disabling the peripheral (`pe`) and leaves the state
`LOCKED`; the driver then wants to be stopped and started again, which nobody
does. The next transfer starts all the same, gets no interrupt and ends by its
timeout: every later `readHead` returns, without a reading. `ReadyIsUsable` is
what remains: the only states a caller finds are `READY`, with the peripheral
enabled, and `LOCKED`. A second `sonar 1` starts a conversion that is running
(`restarted`): the stream, written to while it is enabled, goes on as before or
not (`SetMode`, `EnableDma`), and nothing is claimed of the readings until the
next `sonar 0` has stopped it, which always works.

`Boot` puts them under the two threads of the firmware: main creates the wifly
thread (`Create`), assigns `wifly_tp`, sends its message and sets up the services
one by one, while commands may already come. `Runs(t)` is the kernel's rule, the
highest ready thread runs. Every step of `Boot` is proved to be a step of
`BusSpec` and of `SonarSpec`, the drivers without their assertions, so that what
is proved of these holds in the firmware. `hung` records that an interrupt
went to sleep; then nothing is said of what follows (`Hang`), and the other
properties speak of the time before.

No thread acquires the SPI bus. When an I2C transfer of the wifly thread ends
early, or main is late, the wifly thread starts an SPI transfer while main sleeps in
one, overwrites `spi_thread`, and nobody wakes main again (`Forgotten`). This can
happen only in the last calls main makes. `CommandLoopKept` says that it never
happens to the wifly thread, on which all commands depend; `ThreadsGoOn` says
nothing of what follows the collision.

### Gui

`lines` are the lines on their way, which the robot (external) answers in
order, late, or never; `down` are the answers on their way back to the open
connection. `RecvHello`, `Recv` and the two timeouts are the ends of a `recv`,
which may return several answers, or nothing when the other side has ended the
connection (`PeerCloses`, `broken`). `buttons` is the state in which the user can
press Connect or Disconnect. A `send` into a broken connection is in vain or
raises (`Raise`), which nothing catches: in `connect_finalize` this leaves the
Connect button enabled over a connection, and the next Connect first tells that
one to close (`Reconnect`). A greeting that is not `*HELLO*` makes `connect`
return without closing its socket, since `disconnect` sees that `_connected` is
not set: `dropped` is such a socket, until the interpreter collects it or the radio
ends the connection (`Collect`). The robot may restart as often as it likes.
Answers arrive whole.

## Runs

| Run | Shows | Bounds |
|---|---|---|
| `motor` | semaphores, interlock, stop pending, one owner, no change while driven, use of timers; motors stop, commands return | 2 threads, 0 and 1 seconds of 2 ticks, words of 4 values (so 1 second may become 2 or 0 ticks), a speed beyond and one at a limit |
| `timers` | list, wrapping window, `TimerSpec`, every timer ends | 3 timers, times 0..3 (so the system time wraps) |
| `wifly` | index bounds, no lost wake-up, sends complete, whole messages, answers in order; every line is answered, callers return | 9 scenarios of up to 3 lines, 2 senders, buffers of 3 and 4 |
| `wifly_deaf` | violation: a line sent back to back may never be answered | 1 line |
| `ioqueue` | writer woken, `ByteQueue`; a sleeping writer goes on | 3 places, 2 bytes |
| `radio` | no buffer lost or shared, no allocation fails; calls return | the wifly thread and another, 6 buffers, 2 commands in `wiflyConnect`, 2 calls before the answer and 1 after |
| `radio_silent` | violation: the cut in front of the buffer | 1 thread, 3 buffers, commands and calls as in `radio` |
| `scheduler` | one place per thread, highest runs, exact priorities, starved by higher ones only | idle and 5 threads, 2 mutexes |
| `boot` | nothing used before set up, timer on a live stack, a `READY` driver is usable, command loop kept, group behind interrupts, sonar as asked; transfers end, threads go on, distances come | 2 threads, a buffer of 2 samples, 1 distance |
| `boot_sonar` | violation: an interrupt sleeps | 2 threads, a buffer of 4 samples, 2 distances |
| `gui` | answers belong to their line in a clean connection, no hidden connection; sends return | 7 lines; any number of restarts, 2 answers under way at most when one comes |
| `gui_stale` | violation: the answer of another line | 6 lines, no restart |

Why the bounds are enough. Two threads suffice for one to hold a motor while
another waits for it, and for the two to cross between `motorActive` and the
semaphore. With 4 values per word and 2 ticks per second one second is already
too long for an `int`, and `MS2ST` has both a positive outcome and 0. Three timers give an insertion and a removal at both ends and in the
middle of the list, and equal deadlines. Buffers of three or four characters are
filled, overflowed and reset within one line; a message is longer than the
output queue, so that `wifly_send` has to wait in the middle of it. Three places
let the pointers of a queue meet full, empty and across the end of the array.
Two commands, one before and one after `wiflyConnect` has its buffer, give every
kind of return; two calls before the answer are one that follows another and one
that is the last; six buffers for two threads is the ratio of the assumption. Five
threads with three of equal priority and two mutexes give a chain of two owners and
a choice of waiters. Seven lines are two connections that time out and one that
goes on. Two answers under way are one behind another when a restart adds its
comment. `boot` has no bound but the buffer of the ADC, 2 instead of 8 samples,
one in each half, which is what the half-transfer and transfer-complete interrupts
tell apart.
The proofs remove the bounds where there are any.

Fairness. `Motor`: threads that are ready run, the tick keeps coming and makes
its callbacks; strong fairness for the semaphore and the threads, since the
kernel's round robin lets no ready thread of equal priority wait for ever
(`StarvedByHigherOnly` of `Scheduler`). `VirtualTimers`: the tick keeps coming
and its loop ends. `Wifly`: the thread runs, the transmitter takes characters,
and the peer sends what it is free to send, strongly fair because the `"prompt"`
pace opens and closes the gate. `IOQueue`: the interrupt takes bytes while there
are some. `Radio`: a thread goes on; each single `wiflyRead` ends, by the one-second
timeout of `wifly_receive` at the latest, but nothing is assumed of how many
lines follow; the loop serves a message that finds it between two lines again and
again, since it looks there before each line, which is strong fairness. `Scheduler`: a thread that keeps running into its
time slice is preempted, strongly fair because others run in between. `Boot`: a
ready thread runs, the tick fires the safety timer, an SPI transfer ends because
the master clocks it, the ADC converts; nothing is assumed of the I2C bus.
`Gui`: a `recv` does not outlast its timeout; nothing is assumed of the robot.
New commands, senders, errors, breaks, overruns and restarts are never assumed
to happen.

Where the code itself can go on for ever the liveness property says so, instead of
a bound that hides it: `MotorsStop` and `CommandsReturn` except a behaviour with
timers set for 0 ticks again and again, `CallsReturn` a radio that sends line
after line (`wiflyReadCommand` has no other end) and, for a thread other than the
wifly thread, a line that is begun and never ended; `ThreadsGoOn` the hung ADC
interrupt and the SPI collision; `SendsReturn` a robot that restarts for ever,
each of whose comments gives `recv` a new timeout.

Deadlock is checked everywhere except in `gui`, where the bound on the lines and
a silent robot leave nothing to do.

The violation runs. `wifly_deaf` needs only timing, characters that arrive while
the thread is busy; `wifly` shows that under the pacing of a slow peer the loop
does answer every line. `radio_silent`: a radio that is absent or answers with a
prompt at once. `boot_sonar`: one overrun of the ADC. `gui_stale`: a connect that
gave up and is tried again; `SessionInStep` in `gui` shows that nothing else gets
the two sides out of step.

Types. `TypeOK` is the first conjunct of an invariant of each run (`ListOK`,
`IndexBounds`, `BufferInOnePlace`, `ThreadInOnePlace`, `UsesInitialised`,
`OfflineIsClosed`); those of `Motor` and `IOQueue` are theorems, and so are
`TimerReusedAfterFiring`, `CounterAgrees`, `OneTransfer` and `OwnTimeout`, which
no run repeats.

Each property has a mutant: the operator just before the one it mutates, a
bug the code could have had, which makes TLC refute the property.

## Proofs

`MotorProofs` proves, for any set of threads, any seconds a command asks for, any
width of the integers and any arguments of `motorSetSpeed` (the `ASSUME`s of
`Motor`), every safety property of the `motor` run, and that no timer is set while
it is armed. The invariants are not inductive one by one. That
both inputs of a motor are never driven depends on its channels being 0 when a
thread gets the semaphore; that depends on who holds the semaphore: a starting
thread, the armed timer or the firing timer, never two of them; that, in turn, on
a woken thread being the one that the counter says is waiting. `IInv` therefore
joins `TypeOK`;
`SemConsistent` and `QueuedOnce` (the counter agrees with the queue, which holds
each thread once); `OneOwner`; `OffWhenTaken` and `OffWhenFree` (the channels are
0 when nobody owns the motor and before its new owner writes them);
`NeverBothDriven` and `TimerReusedAfterFiring`. One lemma per action shows that
it preserves `IInv`. `StopPending` follows from `IInv` alone; `NoChange` and
`TimerUse` look at each kind of step under it. `TimerUse` is a refinement: every
step of `Motor` is a step of `TimerSpec`, leaves it alone, or is a `chVTSet` for 0
ticks or behind one.

For `ApiSpec`, which adds `MotorOff`, ownership is lost, a motor stopped early is
signalled again by its timer, but the semaphores are not: `SemInv` keeps only
their types, `QueuedOnce` and `SemConsistent`, and is inductive for `ApiSpec`.

`IOQueueProofs` proves, for every size of at least 1 and every set of bytes, that
the pointers stay in the buffer, that the counter agrees with them, that no
writer sleeps beside an empty queue, and `QueueIsFifo`, the refinement of
`ByteQueue`. The invariant ties the counter to the distance of the pointers
outside a reset; the refinement reads the bytes between the pointers as a
sequence, and a step of the pointers across the end of the array is the case
that needs work.

`VirtualTimersProofs` holds for any finite set of timers and any width of
`systime_t`. The invariant that the run checks, `ListOK`, says what a walk along the
list meets; it is not inductive, since it says nothing of the differences on which
the place of a new timer depends. `IInv` names the list instead: there are `s`, the
armed timers in their order with the header at both ends, and `d`, the ticks each
has left, such that the pointers link `s` in both directions (`Linked`), `d` is
sorted and the stored differences are the differences of `d` (`Due`). Outside the
loop of `chVTDoTickI` no timer is due. Setting a timer inserts into `s` and `d`,
resetting and firing delete, a tick takes one off all of `d`; the loop of
`chVTSetI`, which searches the place, stops because the header's time is the largest
there is. From `IInv` follow `ListOK` (`ListStaysOK`) and the refinement of
`TimerSpec` (`TimersImplement`), in which `d` is what `Left` computes. `WindowsWrap`
needs only the type and modular arithmetic. The walks `Reached` and `Passed` are
recursive functions; that they are what their definitions say is shown once, by the
least place at which they could fail to be.

The first part of `BootProofs` is about `I2CDriver` under any number of threads: one transfer at a
time, no timer of a function that has returned, and no timeout for another
transfer than its own. The invariant says which labels a thread can be at while
it owns the bus, and that all others are outside; a timer is armed only between
`Transmit` and `Finish` of the owner. It is also about `Sonar` for every even
depth: `Inside` describes the group, the stream and the ADC at each label of the
two unlocked functions, which makes `GroupBehindInterrupts` and `SonarAsAsked`
inductive. `StateInv` relates the driver's state, the message of the thread that
slept and `pe` at each label: a transfer that was aborted is one whose thread was
told `RDY_TIMEOUT`, and `Finish` makes no such driver `READY` (`ReadyIsUsable`).

The second part carries both over to the firmware. Every step of `Boot` is a step of
`BusSpec` or leaves the bus alone, and the same for `SonarSpec`; so what
the first part shows holds of the whole (`DriversInFirmware`). `UsesInitialised`
follows from `OwnInv`: what is set up follows from where main is (`SetUp`), and
until main is at its first I2C transfer the wifly thread does not exist, waits for
its turn or serves main's message (`Patient`), because main is the more urgent one
and does not sleep but in `chMsgSend`. `Apart` says that the wifly
thread is in no SPI transfer while main has still one to start or is the thread that
the driver will wake: main is the more urgent one, and the bus of the I2C transfer
before it is main's. So main never takes the wake-up of the wifly thread
(`CommandLoopKept`).

`WiflyProofs` holds for any senders, scripts, paces and quotas, with errors and
breaks, and for the sizes of `SizesAssumption`. `IInv` adds to the properties of
the run what the queues hold (`Contents`), that a message is under way exactly
where the program counter says so (`Progress`), that a caller has one message in
the queue and sleeps (`Callers`), and that `i` and `j` leave a place behind each
store (`Room`), which is where the length checks of the loop are needed.
`WholeMessages` is not an invariant for every scenario: an error makes the loop
reset the output queue in the middle of a message. Two theorems say when it does hold:
as long as no error is raised, and always with a peer of pace `"prompt"`, which is
shown to raise none. The peers of the other paces in the `wifly` run stay within
their input queue, which is why TLC finds it true for them.

`AnswersInOrder` does not hold for every scenario either: a line that does not fit is
answered `OVERFLOW`, perhaps more than once, and a character that meets a full queue
is missing from its line (without a trace when the thread has not yet registered its
listener). `AnswersComeInOrder` assumes just that this does not happen: the lines of
the peers without line errors are lines, whose word and arguments are shorter than
`id[]` and `args[]` (`ProperLines`, a fact of the constants), and no character arrives
at a full queue (`Lossless`, of each step). For a `"prompt"` peer the second is proved,
not assumed (`PromptPeerAnsweredInOrder`). Both hold of the scenarios of the `wifly`
run, so that the theorem says of every such instance what TLC says of that one. The
inductive invariant `OInv` follows a character through the system: the input queue
holds what the script has between the place the thread has read to and the place the
peer has sent to (`Path`); the word, the arguments and `read_id` are those of the part
of the line that has been read (`Reading`); the answers in all that has been sent,
received or not, are those of the lines that have been read to their end, but for the
one in `callback` (`Matched`); and the thread never takes a character from an empty
queue, because `"input"` is raised only for the first character of an empty queue and
each such event takes one (`Quiet`). What the recursive `WordOf` computes is shown
like the walks of the timers. `AnswerEnds` and ranks replace a selection from a
sequence, which the provers cannot reason about.

`RadioProofs` holds for any number of threads and of commands in `wiflyConnect`,
given the three buffers per thread of `PoolAssumption`. `Counted` ties the number
of buffers a thread holds to its label, at most two before an allocation; `Apart`
and `Present` say that the places of buffers are a bijection. If the pool were
empty, the buffers would be in fewer places than there are buffers, by a count
over a function from buffers to places.

`SchedulerProofs` holds for any threads, priorities and mutexes. The three
invariants of the run need each other: that the most urgent thread runs needs, at
an unlock, where the inherited priority is lost, that priorities are exact
(`Exact`) and queues sorted (`InOrder`); that queues stay sorted when a chain of
owners is boosted needs that the chain has one thread in each queue; and that
needs that a thread is in one place (`InOnePlace`), that `m_owner` and
`p_mtxlist` agree (`Held`), and that who waits for a mutex holds smaller ones only
(`Nested`). The chain may have any length: as `Boosted` is a least set, a fact
about the chain is proved by naming a set that `Followed` does not leave, with no
induction (`ReachWithin`, `OneInQueue`, `OneOutside`, `BoostFacts`).

`GuiProofs` holds for any number of lines and answers under way. A connection is `clean` when
it was opened with no greeting owed; for such a one `Session` says what can be
under way in each phase: before the greeting only the last line can bring it, and
from then on at most one line is open, the last one, either unanswered or with its
answer the only one that is not a comment. `Buttons` ties the buttons to the
connection, which is where a `send` that raises in `connect_finalize` matters: what
it leaves behind is broken, and `OfflineIsClosed` says that nothing else is ever
left behind an enabled Connect button.

The inductive invariants of `VirtualTimers`, `Wifly`, `Radio`, `Gui`, `Boot` and
`Scheduler` were checked by TLC on the instances of their runs before they were
proved.

With this every invariant, action property and refinement of the passing runs is
stated by a theorem (`WholeMessages` and `AnswersInOrder` under the conditions
above). Only model-checked are the four violations and the liveness properties,
since fairness is out of the prover's reach: `MotorsStop`, `CommandsReturn`,
`NoTimerForgotten`, `EveryLineAnswered`, `CallersReturn`, `WriterGoesOn`,
`CallsReturn`, `StarvedByHigherOnly`, `TransfersEnd`, `ThreadsGoOn`,
`DistancesCome`, `SendsReturn`.

## Not modelled

* `serv_usbcfg.c`, which is not built; the windows of `gui.py`.
* `heading_calculate`, floating point whose result nothing uses, and the values
  of the sensors: no state depends on them.
* The text of answers: `itoa`, the length of a radio's answer in `strcat`.
* The characters of a radio's answer: `Radio` takes the reading of a line as one
  step that ends, `Wifly` has its characters. (A peer that sends nothing but
  carriage returns, which `wifly_receive` skips, keeps a `wiflyRead` for ever.)
* The bytes that `strcat` writes past the end of a radio buffer.
* A `recv` that returns part of a line.
* The rest of ChibiOS: boards, register definitions, drivers and kernel services
  that the robot does not use. Nearly all lines of the repository are these.

## Plan

1. Text: the length of a radio's answer, `itoa` of a negative value, the average
   of half a buffer divided by the whole depth, a `recv` of part of a line.
