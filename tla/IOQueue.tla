------------------------------ MODULE IOQueue ------------------------------
(***************************************************************************)
(* The I/O queues of chqueues.c as the serial driver and the wifly thread  *)
(* use them: a circular buffer with a counter, which counts the bytes of   *)
(* an input queue and the room of an output queue.  One side is the        *)
(* interrupt, the other the wifly thread, which also resets the queues.    *)
(* Its calls of chIQResetI and chOQResetI are made without the lock: the   *)
(* interrupt can come between their three stores, and the compiler may     *)
(* order the stores as it likes.                                           *)
(***************************************************************************)
EXTENDS Integers, Sequences

CONSTANTS
  Bytes,   \* what is queued
  Size     \* q_top - q_buffer

ASSUME SizeAssumption == Size \in Nat \ {0} /\ Bytes # {}

VARIABLES
  kind,       \* "input" or "output"
  q_buffer,   \* the memory
  rd, wr,     \* q_rdptr and q_wrptr, as indexes
  q_counter,
  storing,    \* the stores a running reset has still to make
  writer,     \* the thread in chOQWriteTimeout
  taken,      \* the byte handed out last
  raced       \* the interrupt used the queue during the last reset

vars == <<kind, q_buffer, rd, wr, q_counter, storing, writer, taken, raced>>

Slots == 0 .. Size - 1

(* chIQInit, chOQInit *)
Init ==
  /\ kind \in {"input", "output"}
  /\ q_buffer \in [Slots -> Bytes] /\ taken \in Bytes
  /\ rd = 0 /\ wr = 0
  /\ q_counter = IF kind = "input" THEN 0 ELSE Size
  /\ storing = {} /\ writer = "running" /\ raced = "no"

(* A pointer moves on and wraps at q_top. *)
Advance(p) == IF p + 1 >= Size THEN 0 ELSE p + 1

(* Mutant: only the pointers are compared. *)
PointersMeetAlways == wr = rd

(* chIQIsFullI of an input queue, chOQIsEmptyI of an output queue. *)
PointersMeet == wr = rd /\ q_counter # 0

StoreByte(b) == q_buffer' = [q_buffer EXCEPT ![wr] = b] /\ wr' = Advance(wr)
TakeByte == taken' = q_buffer[rd] /\ rd' = Advance(rd)

(* The side of the interrupt, which may fall into a reset. *)
FromInterrupt ==
  /\ ~ PointersMeet
  /\ q_counter' = q_counter + 1
  /\ raced' = IF storing # {} THEN "yes" ELSE raced

(* chIQPutI, called by sdIncomingDataI.  A full queue refuses the byte. *)
IQPutI(b) ==
  /\ kind = "input"
  /\ FromInterrupt
  /\ StoreByte(b)
  /\ UNCHANGED <<kind, rd, storing, writer, taken>>

(* chIQGetTimeout with TIME_IMMEDIATE; on an empty queue nothing happens. *)
IQGet ==
  /\ kind = "input" /\ storing = {}
  /\ q_counter > 0
  /\ q_counter' = q_counter - 1
  /\ TakeByte
  /\ UNCHANGED <<kind, q_buffer, wr, storing, writer, raced>>

(* One round of chOQWriteTimeout: the byte is stored, or the writer goes   *)
(* to sleep; when woken it looks again.                                    *)
OQWrite(b) ==
  /\ kind = "output" /\ storing = {} /\ writer # "waiting"
  /\ \/ /\ q_counter > 0
        /\ q_counter' = q_counter - 1
        /\ StoreByte(b)
        /\ writer' = "running"
     \/ /\ q_counter <= 0
        /\ writer' = "waiting"
        /\ UNCHANGED <<q_buffer, wr, q_counter>>
  /\ UNCHANGED <<kind, rd, storing, taken, raced>>

(* Mutant: the waiting writer is not woken. *)
OQGetIWakesNobody ==
  /\ kind = "output"
  /\ FromInterrupt
  /\ TakeByte
  /\ UNCHANGED <<kind, q_buffer, wr, storing, writer>>

(* chOQGetI, called by the transmitter interrupt. *)
OQGetI ==
  /\ kind = "output"
  /\ FromInterrupt
  /\ TakeByte
  /\ writer' = IF writer = "waiting" THEN "woken" ELSE writer
  /\ UNCHANGED <<kind, q_buffer, wr, storing>>

(* chIQResetI, chOQResetI: the thread begins, and then makes the stores.   *)
(* No thread can be waiting: the only one that ever waits is the caller.   *)
Reset ==
  /\ storing = {} /\ writer = "running"
  /\ storing' = {"rd", "wr", "counter"}
  /\ raced' = "no"
  /\ UNCHANGED <<kind, q_buffer, rd, wr, q_counter, writer, taken>>

(* Mutant: chOQResetI clears the counter as chIQResetI does. *)
StoreZero(s) ==
  /\ s \in storing
  /\ storing' = storing \ {s}
  /\ rd' = IF s = "rd" THEN 0 ELSE rd
  /\ wr' = IF s = "wr" THEN 0 ELSE wr
  /\ q_counter' = IF s = "counter" THEN 0 ELSE q_counter
  /\ UNCHANGED <<kind, q_buffer, writer, taken, raced>>

Store(s) ==
  /\ s \in storing
  /\ storing' = storing \ {s}
  /\ rd' = IF s = "rd" THEN 0 ELSE rd
  /\ wr' = IF s = "wr" THEN 0 ELSE wr
  /\ q_counter' = IF s # "counter" THEN q_counter
                  ELSE IF kind = "input" THEN 0 ELSE Size
  /\ UNCHANGED <<kind, q_buffer, writer, taken, raced>>

Next ==
  \/ \E b \in Bytes : IQPutI(b) \/ OQWrite(b)
  \/ IQGet \/ OQGetI \/ Reset
  \/ \E s \in storing : Store(s)

Spec == Init /\ [][Next]_vars

(* The transmitter goes on as long as there are bytes for it, the thread   *)
(* goes on when it can, with a reset or with a byte.                       *)
FairSpec ==
  /\ Spec
  /\ WF_vars(OQGetI)
  /\ WF_vars(\E s \in storing : Store(s))
  /\ WF_vars(writer = "woken" /\ \E b \in Bytes : OQWrite(b))

----------------------------------------------------------------------------
(* The pointers never leave the buffer, whatever comes between the stores  *)
(* of a reset.                                                             *)
TypeOK ==
  /\ kind \in {"input", "output"}
  /\ q_buffer \in [Slots -> Bytes] /\ taken \in Bytes
  /\ rd \in Slots /\ wr \in Slots /\ q_counter \in Nat
  /\ storing \in SUBSET {"rd", "wr", "counter"}
  /\ writer \in {"running", "waiting", "woken"}
  /\ raced \in {"yes", "no"}

(* No reset is going on, and the last one was not disturbed. *)
Settled == storing = {} /\ raced = "no"

(* The number of bytes the counter stands for. *)
Held == IF kind = "input" THEN q_counter ELSE Size - q_counter

(* The slot k places after the read pointer. *)
Slot(k) == IF rd + k >= Size THEN rd + k - Size ELSE rd + k

Contents == [k \in 1 .. Held |-> q_buffer[Slot(k - 1)]]

(* The counter and the two pointers agree, in particular where the         *)
(* pointers meet and only the counter tells a full queue from an empty     *)
(* one.                                                                    *)
CounterAgrees ==
  Settled => /\ Held \in 0 .. Size
             /\ wr = Slot(Held)

(* The queues are FIFO queues of Size bytes, except after a reset that the *)
(* interrupt fell into, and the next reset repairs that.                   *)
Items == IF Settled THEN Contents ELSE <<>>
Sound == IF raced = "no" THEN "yes" ELSE "no"
Fifo == INSTANCE ByteQueue WITH items <- Items, sound <- Sound

IsFifo == Fifo!Spec

(* A writer sleeps only when the interrupt has a byte to take and so will  *)
(* wake it, also when a disturbed reset has left the counter wrong.        *)
WriterWoken == writer = "waiting" => ~ PointersMeet

(* Every writer that waits for room goes on. *)
WriterGoesOn == writer = "waiting" ~> writer = "running"
=============================================================================
