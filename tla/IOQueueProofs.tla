--------------------------- MODULE IOQueueProofs ---------------------------
(***************************************************************************)
(* Proofs about IOQueue for buffers of any size and any bytes.             *)
(*                                                                         *)
(* CounterAgrees speaks of a queue at rest.  To be inductive it needs what *)
(* holds in the middle of a reset that nothing has disturbed yet: the      *)
(* stores made so far have the values of an empty queue.  A writer sleeps  *)
(* only on a counter of zero.                                              *)
(***************************************************************************)
EXTENDS IOQueue, TLAPS

EmptyCounter == IF kind = "input" THEN 0 ELSE Size

ResetSoFar ==
  storing # {} /\ raced = "no" =>
    /\ "rd" \notin storing => rd = 0
    /\ "wr" \notin storing => wr = 0
    /\ "counter" \notin storing => q_counter = EmptyCounter

SleepsOnZero ==
  writer = "waiting" => kind = "output" /\ q_counter = 0 /\ storing = {}

IInv == TypeOK /\ CounterAgrees /\ ResetSoFar /\ SleepsOnZero

(* A pointer that moves on stays in the buffer. *)
LEMMA AdvanceInside ==
  ASSUME NEW p \in Slots PROVE Advance(p) \in Slots
BY SizeAssumption DEF Slots, Advance

(* The queue of chIQInit and chOQInit is at rest and empty. *)
LEMMA InitOK == Init => IInv
<1> SUFFICES ASSUME Init PROVE IInv
  OBVIOUS
<1>1. TypeOK
  BY SizeAssumption DEF Init, TypeOK, Slots
<1>2. CounterAgrees
  BY SizeAssumption DEF Init, CounterAgrees, Settled, Held, Slot
<1>3. ResetSoFar /\ SleepsOnZero
  BY DEF Init, ResetSoFar, SleepsOnZero
<1> QED
  BY <1>1, <1>2, <1>3 DEF IInv

(* Every operation, and every single store of a reset, keeps the pointers  *)
(* inside the buffer and the counter a natural number.                     *)
LEMMA NextType == ASSUME TypeOK, Next PROVE TypeOK'
<1>1. rd \in Slots /\ wr \in Slots /\ q_counter \in Nat
  BY DEF TypeOK
<1>2. Advance(rd) \in Slots /\ Advance(wr) \in Slots /\ 0 \in Slots
  BY <1>1, AdvanceInside, SizeAssumption DEF Slots
<1>3. ASSUME NEW b \in Bytes, IQPutI(b) PROVE TypeOK'
  BY <1>2, <1>3 DEF IQPutI, FromInterrupt, StoreByte, TypeOK
<1>4. ASSUME NEW b \in Bytes, OQWrite(b) PROVE TypeOK'
  BY <1>2, <1>4 DEF OQWrite, StoreByte, TypeOK
<1>5. CASE IQGet
  BY <1>2, <1>5 DEF IQGet, TakeByte, TypeOK
<1>6. CASE OQGetI
  BY <1>2, <1>6 DEF OQGetI, FromInterrupt, TakeByte, TypeOK
<1>7. CASE Reset
  BY <1>7 DEF Reset, TypeOK
<1>8. ASSUME NEW s \in storing, Store(s) PROVE TypeOK'
  BY <1>2, <1>8, SizeAssumption DEF Store, TypeOK
<1> QED
  BY <1>3, <1>4, <1>5, <1>6, <1>7, <1>8 DEF Next

(* A byte goes in: the write pointer and the counter move together, and    *)
(* the test on pointers and counter leaves room for the byte.              *)
LEMMA PutAgrees ==
  ASSUME TypeOK, CounterAgrees, Settled, Held < Size, Held' = Held + 1,
         rd' = rd, wr' = Advance(wr)
  PROVE  Held' \in 0 .. Size /\ wr' = Slot(Held)' 
<1>1. rd \in 0 .. Size - 1 /\ wr \in 0 .. Size - 1 /\ Size \in Nat
  BY SizeAssumption DEF TypeOK, Slots
<1>2. Held \in 0 .. Size /\ wr = Slot(Held)
  BY DEF CounterAgrees
<1>3. PICK h \in Nat : h = Held /\ h < Size
  BY <1>2
<1>4. wr = IF rd + h >= Size THEN rd + h - Size ELSE rd + h
  BY <1>2, <1>3 DEF Slot
<1>5. Advance(wr) = IF rd + (h + 1) >= Size THEN rd + (h + 1) - Size
                    ELSE rd + (h + 1)
  BY <1>1, <1>3, <1>4 DEF Advance
<1>6. Held' = h + 1
  BY <1>3
<1> QED
  BY <1>1, <1>3, <1>5, <1>6 DEF Slot

(* A byte comes out: the read pointer and the counter move together. *)
LEMMA GetAgrees ==
  ASSUME TypeOK, CounterAgrees, Settled, Held > 0, Held' = Held - 1,
         wr' = wr, rd' = Advance(rd)
  PROVE  Held' \in 0 .. Size /\ wr' = Slot(Held)'
<1>1. rd \in 0 .. Size - 1 /\ wr \in 0 .. Size - 1 /\ Size \in Nat
  BY SizeAssumption DEF TypeOK, Slots
<1>2. Held \in 0 .. Size /\ wr = Slot(Held)
  BY DEF CounterAgrees
<1>3. PICK h \in Nat : h = Held /\ h > 0 /\ h <= Size
  BY <1>2
<1>4. wr = IF rd + h >= Size THEN rd + h - Size ELSE rd + h
  BY <1>2, <1>3 DEF Slot
<1>5. rd' = IF rd + 1 >= Size THEN 0 ELSE rd + 1
  BY DEF Advance
<1>6. wr = IF rd' + (h - 1) >= Size THEN rd' + (h - 1) - Size
           ELSE rd' + (h - 1)
  BY <1>1, <1>3, <1>4, <1>5
<1>7. Held' = h - 1
  BY <1>3
<1> QED
  BY <1>1, <1>3, <1>6, <1>7 DEF Slot

(* chIQIsFullI and chOQIsEmptyI tell a full queue from an empty one. *)
LEMMA MeetMeans ==
  ASSUME TypeOK, CounterAgrees, Settled, ~ PointersMeet
  PROVE  /\ kind = "input" => Held < Size
         /\ kind = "output" => Held > 0
<1>1. rd \in 0 .. Size - 1 /\ Size \in Nat /\ Size > 0 /\ q_counter \in Nat
  BY SizeAssumption DEF TypeOK, Slots
<1>2. Held \in 0 .. Size /\ wr = Slot(Held)
  BY DEF CounterAgrees
<1>3. CASE kind = "input"
  BY <1>1, <1>2, <1>3 DEF Held, Slot, PointersMeet
<1>4. CASE kind = "output"
  BY <1>1, <1>2, <1>4 DEF Held, Slot, PointersMeet
<1> QED
  BY <1>3, <1>4

(* Every step keeps the invariant. *)
LEMMA NextOK == IInv /\ [Next]_vars => IInv'
<1> SUFFICES ASSUME IInv, [Next]_vars PROVE IInv'
  OBVIOUS
<1> USE DEF IInv
<1>1. CASE UNCHANGED vars
  BY <1>1 DEF vars, TypeOK, CounterAgrees, Settled, Held, Slot, ResetSoFar,
              EmptyCounter, SleepsOnZero
<1>2. ASSUME Next PROVE TypeOK'
  BY <1>2, NextType
<1>3. q_counter \in Nat /\ Size \in Nat
  BY SizeAssumption DEF TypeOK
<1>4. ASSUME NEW b \in Bytes, IQPutI(b) PROVE IInv'
  <2>1. /\ kind = "input" /\ kind' = kind /\ storing' = storing
        /\ ~ PointersMeet /\ q_counter' = q_counter + 1
        /\ rd' = rd /\ wr' = Advance(wr) /\ writer' = writer
        /\ raced' = IF storing # {} THEN "yes" ELSE raced
    BY <1>4 DEF IQPutI, FromInterrupt, StoreByte
  <2>2. CounterAgrees'
    <3> SUFFICES ASSUME Settled' PROVE Held' \in 0 .. Size /\ wr' = Slot(Held)'
      BY DEF CounterAgrees
    <3>1. Settled
      BY <2>1 DEF Settled
    <3>2. Held' = Held + 1
      BY <2>1 DEF Held
    <3> QED
      BY <2>1, <3>1, <3>2, MeetMeans, PutAgrees
  <2>3. ResetSoFar'
    BY <2>1 DEF ResetSoFar
  <2>4. SleepsOnZero'
    BY <1>3, <2>1 DEF SleepsOnZero
  <2> QED
    BY <1>2, <1>4, <2>2, <2>3, <2>4 DEF Next
<1>5. ASSUME NEW b \in Bytes, OQWrite(b) PROVE IInv'
  <2>1. /\ kind = "output" /\ kind' = kind /\ storing = {} /\ storing' = {}
        /\ rd' = rd /\ raced' = raced /\ writer # "waiting"
    BY <1>5 DEF OQWrite
  <2>2. CASE /\ q_counter > 0 /\ q_counter' = q_counter - 1
             /\ wr' = Advance(wr) /\ writer' = "running"
    <3>1. CounterAgrees'
      <4> SUFFICES ASSUME Settled'
                   PROVE  Held' \in 0 .. Size /\ wr' = Slot(Held)'
        BY DEF CounterAgrees
      <4>1. Settled
        BY <2>1 DEF Settled
      <4>2. Held < Size /\ Held' = Held + 1
        BY <1>3, <2>1, <2>2 DEF Held
      <4> QED
        BY <2>1, <2>2, <4>1, <4>2, PutAgrees
    <3>2. ResetSoFar' /\ SleepsOnZero'
      BY <2>1, <2>2 DEF ResetSoFar, SleepsOnZero
    <3> QED
      BY <1>2, <1>5, <3>1, <3>2 DEF Next
  <2>3. CASE /\ q_counter <= 0 /\ q_counter' = q_counter /\ wr' = wr
             /\ writer' = "waiting"
    <3>1. CounterAgrees'
      BY <2>1, <2>3 DEF CounterAgrees, Settled, Held, Slot
    <3>2. ResetSoFar' /\ SleepsOnZero'
      BY <1>3, <2>1, <2>3 DEF ResetSoFar, SleepsOnZero
    <3> QED
      BY <1>2, <1>5, <3>1, <3>2 DEF Next
  <2> QED
    BY <1>5, <2>2, <2>3 DEF OQWrite, StoreByte
<1>6. CASE IQGet
  <2>1. /\ kind = "input" /\ kind' = kind /\ storing = {} /\ storing' = {}
        /\ q_counter > 0 /\ q_counter' = q_counter - 1 /\ wr' = wr
        /\ rd' = Advance(rd) /\ raced' = raced /\ writer' = writer
    BY <1>6 DEF IQGet, TakeByte
  <2>2. CounterAgrees'
    <3> SUFFICES ASSUME Settled' PROVE Held' \in 0 .. Size /\ wr' = Slot(Held)'
      BY DEF CounterAgrees
    <3>1. Settled
      BY <2>1 DEF Settled
    <3>2. Held > 0 /\ Held' = Held - 1
      BY <2>1 DEF Held
    <3> QED
      BY <2>1, <3>1, <3>2, GetAgrees
  <2>3. ResetSoFar' /\ SleepsOnZero'
    BY <2>1 DEF ResetSoFar, SleepsOnZero
  <2> QED
    BY <1>2, <1>6, <2>2, <2>3 DEF Next
<1>7. CASE OQGetI
  <2>1. /\ kind = "output" /\ kind' = kind /\ storing' = storing
        /\ ~ PointersMeet /\ q_counter' = q_counter + 1
        /\ wr' = wr /\ rd' = Advance(rd)
        /\ writer' # "waiting"
        /\ raced' = IF storing # {} THEN "yes" ELSE raced
    BY <1>7 DEF OQGetI, FromInterrupt, TakeByte
  <2>2. CounterAgrees'
    <3> SUFFICES ASSUME Settled' PROVE Held' \in 0 .. Size /\ wr' = Slot(Held)'
      BY DEF CounterAgrees
    <3>1. Settled
      BY <2>1 DEF Settled
    <3>2. Held' = Held - 1
      BY <1>3, <2>1 DEF Held
    <3> QED
      BY <2>1, <3>1, <3>2, MeetMeans, GetAgrees
  <2>3. ResetSoFar' /\ SleepsOnZero'
    BY <2>1 DEF ResetSoFar, SleepsOnZero
  <2> QED
    BY <1>2, <1>7, <2>2, <2>3 DEF Next
<1>8. CASE Reset
  <2>1. CounterAgrees' /\ ResetSoFar' /\ SleepsOnZero'
    BY <1>8 DEF Reset, CounterAgrees, Settled, ResetSoFar, SleepsOnZero
  <2> QED
    BY <1>2, <1>8, <2>1 DEF Next
<1>9. ASSUME NEW s \in storing, Store(s) PROVE IInv'
  <2>1. /\ storing' = storing \ {s} /\ s \in {"rd", "wr", "counter"}
        /\ rd' = IF s = "rd" THEN 0 ELSE rd
        /\ wr' = IF s = "wr" THEN 0 ELSE wr
        /\ q_counter' = IF s = "counter" THEN EmptyCounter ELSE q_counter
        /\ kind' = kind /\ raced' = raced /\ writer' = writer
    BY <1>9 DEF Store, EmptyCounter, TypeOK
  <2>2. raced = "no" => /\ "rd" \notin storing' => rd' = 0
                        /\ "wr" \notin storing' => wr' = 0
                        /\ "counter" \notin storing' => q_counter' = EmptyCounter
    BY <1>9, <2>1 DEF ResetSoFar
  <2>3. ResetSoFar'
    BY <2>1, <2>2 DEF ResetSoFar, EmptyCounter
  <2>4. SleepsOnZero'
    BY <1>9, <2>1 DEF SleepsOnZero
  <2>5. CounterAgrees'
    <3> SUFFICES ASSUME Settled' PROVE Held' \in 0 .. Size /\ wr' = Slot(Held)'
      BY DEF CounterAgrees
    <3>1. rd' = 0 /\ wr' = 0 /\ q_counter' = EmptyCounter
      BY <2>1, <2>2 DEF Settled
    <3>2. Held' = 0
      BY <1>3, <2>1, <3>1 DEF Held, EmptyCounter
    <3> QED
      BY <3>1, <3>2, SizeAssumption DEF Slot
  <2> QED
    BY <1>2, <1>9, <2>3, <2>4, <2>5 DEF Next
<1> QED
  BY <1>1, <1>4, <1>5, <1>6, <1>7, <1>8, <1>9 DEF Next

(* The invariant holds in every reachable state. *)
THEOREM Invariant == Spec => []IInv
BY InitOK, NextOK, PTL DEF Spec

(* The pointers of the queues stay inside the buffer, whatever the         *)
(* interrupt does between the stores of an unlocked reset.                 *)
THEOREM TypeCorrect == Spec => []TypeOK
<1>1. IInv => TypeOK
  BY DEF IInv
<1> QED
  BY <1>1, Invariant, PTL

(* In a queue at rest the counter tells how far the pointers are apart.    *)
THEOREM CountersAgree == Spec => []CounterAgrees
<1>1. IInv => CounterAgrees
  BY DEF IInv
<1> QED
  BY <1>1, Invariant, PTL

(* A writer in chOQWriteTimeout sleeps only while chOQGetI has a byte to   *)
(* take, also after a disturbed reset.                                     *)
THEOREM WriterAlwaysWoken == Spec => []WriterWoken
<1>1. IInv => WriterWoken
  BY DEF IInv, SleepsOnZero, WriterWoken, PointersMeet
<1> QED
  BY <1>1, Invariant, PTL

----------------------------------------------------------------------------
(* Facts about sequences given as functions. *)
LEMMA AppendIs ==
  ASSUME NEW S, NEW s \in Seq(S), NEW e \in S, NEW r \in Seq(S),
         Len(r) = Len(s) + 1, r[Len(s) + 1] = e,
         \A k \in 1 .. Len(s) : r[k] = s[k]
  PROVE  r = Append(s, e)
OBVIOUS

LEMMA TailIs ==
  ASSUME NEW S, NEW s \in Seq(S), s # <<>>, NEW r \in Seq(S),
         Len(r) = Len(s) - 1, \A k \in 1 .. Len(r) : r[k] = s[k + 1]
  PROVE  r = Tail(s)
OBVIOUS

(* In a queue at rest Contents is a sequence of Held bytes. *)
LEMMA ContentsType ==
  ASSUME IInv, Settled
  PROVE  /\ Held \in 0 .. Size /\ Held \in Nat /\ Contents \in Seq(Bytes)
         /\ Len(Contents) = Held
         /\ \A k \in 1 .. Held : /\ Slot(k - 1) \in Slots
                                 /\ Contents[k] = q_buffer[Slot(k - 1)]
<1>1. rd \in 0 .. Size - 1 /\ Size \in Nat /\ q_buffer \in [Slots -> Bytes]
  BY SizeAssumption DEF IInv, TypeOK, Slots
<1>2. Held \in 0 .. Size /\ Held \in Nat
  BY <1>1 DEF IInv, CounterAgrees
<1>3. \A k \in 1 .. Held : Slot(k - 1) \in Slots
  <2> SUFFICES ASSUME NEW k \in 1 .. Held PROVE Slot(k - 1) \in Slots
    OBVIOUS
  <2>1. k \in Nat /\ 1 <= k /\ k <= Size
    BY <1>1, <1>2
  <2> QED
    BY <1>1, <2>1 DEF Slot, Slots
<1>4. Contents \in [1 .. Held -> Bytes]
  BY <1>1, <1>3 DEF Contents
<1>5. \A k \in 1 .. Held : Contents[k] = q_buffer[Slot(k - 1)]
  BY DEF Contents
<1> QED
  BY <1>2, <1>3, <1>4, <1>5

(* Storing a byte at the write pointer appends it. *)
LEMMA PutAppends ==
  ASSUME IInv, IInv', Settled, Settled', NEW b \in Bytes, StoreByte(b),
         Held' = Held + 1, rd' = rd
  PROVE  Contents' = Append(Contents, b)
<1>1. /\ rd \in 0 .. Size - 1 /\ wr \in 0 .. Size - 1 /\ Size \in Nat
      /\ q_buffer \in [Slots -> Bytes] /\ wr = Slot(Held)
  BY SizeAssumption DEF IInv, TypeOK, Slots, CounterAgrees
<1>2. PICK h \in Nat : h = Held /\ h + 1 <= Size
  <2>1. Held \in Nat /\ Held' \in 0 .. Size
    BY ContentsType, IInv' DEF IInv, CounterAgrees
  <2> QED
    BY <1>1, <2>1
<1>3. \A k \in 1 .. h + 1 : Slot(k - 1)' = Slot(k - 1)
  BY DEF Slot
<1>4. ASSUME NEW k \in 1 .. h PROVE Slot(k - 1) # wr
  <2>1. k \in Nat /\ 1 <= k /\ k <= h
    BY <1>2
  <2> QED
    BY <1>1, <1>2, <2>1 DEF Slot
<1>5. q_buffer' = [q_buffer EXCEPT ![wr] = b]
  BY DEF StoreByte
<1>6. \A k \in 1 .. h + 1 : Contents'[k] = q_buffer'[Slot(k - 1)]
  BY <1>2, <1>3 DEF Contents
<1>7. \A k \in 1 .. h : Contents'[k] = Contents[k]
  <2> SUFFICES ASSUME NEW k \in 1 .. h PROVE Contents'[k] = Contents[k]
    OBVIOUS
  <2>1. Slot(k - 1) \in Slots /\ Contents[k] = q_buffer[Slot(k - 1)]
    BY <1>2, ContentsType
  <2>2. k \in 1 .. h + 1
    BY <1>2
  <2> QED
    BY <1>1, <1>4, <1>5, <1>6, <2>1, <2>2
<1>8. Contents'[h + 1] = b
  <2>1. h + 1 \in 1 .. h + 1 /\ Slot(h + 1 - 1) = wr
    BY <1>1, <1>2
  <2> QED
    BY <1>1, <1>5, <1>6, <2>1 DEF Slots
<1>9. /\ Contents \in Seq(Bytes) /\ Len(Contents) = h
      /\ Contents' \in Seq(Bytes) /\ Len(Contents') = h + 1
  <2>1. Contents \in Seq(Bytes) /\ Len(Contents) = h
    BY <1>2, ContentsType
  <2>2. Contents' = [k \in 1 .. h + 1 |-> q_buffer'[Slot(k - 1)']]
    BY <1>2 DEF Contents
  <2>3. \A k \in 1 .. h + 1 : Contents'[k] \in Bytes
    <3> SUFFICES ASSUME NEW k \in 1 .. h + 1 PROVE Contents'[k] \in Bytes
      OBVIOUS
    <3>1. k \in 1 .. h \/ k = h + 1
      BY <1>2
    <3> QED
      BY <1>7, <1>8, <2>1, <3>1
  <2>4. Contents' \in [1 .. h + 1 -> Bytes]
    BY <2>2, <2>3
  <2> QED
    BY <1>2, <2>1, <2>4
<1> QED
  BY <1>7, <1>8, <1>9, AppendIs

(* Taking the byte at the read pointer removes the first one. *)
LEMMA GetRemoves ==
  ASSUME IInv, Settled, Held > 0, Held' = Held - 1,
         TakeByte, q_buffer' = q_buffer
  PROVE  /\ Contents # <<>> /\ taken' = Head(Contents)
         /\ Contents' = Tail(Contents)
<1>1. rd \in 0 .. Size - 1 /\ Size \in Nat
  BY SizeAssumption DEF IInv, TypeOK, Slots
<1>2. PICK h \in Nat : h = Held /\ h > 0 /\ h <= Size
  BY <1>1, ContentsType
<1>3. Contents \in Seq(Bytes) /\ Len(Contents) = h
  BY <1>2, ContentsType
<1>4. Contents # <<>> /\ taken' = Head(Contents)
  <2>1. Contents[1] = q_buffer[Slot(1 - 1)]
    BY <1>2, ContentsType
  <2>2. Slot(1 - 1) = rd
    BY <1>1 DEF Slot
  <2> QED
    BY <1>2, <1>3, <2>1, <2>2 DEF TakeByte
<1>5. Contents' = [k \in 1 .. h - 1 |-> q_buffer[Slot(k - 1)']]
  BY <1>2 DEF Contents
<1>6. \A k \in 1 .. h - 1 : Contents'[k] = Contents[k + 1]
  <2> SUFFICES ASSUME NEW k \in 1 .. h - 1 PROVE Contents'[k] = Contents[k + 1]
    OBVIOUS
  <2>1. k \in Nat /\ 1 <= k /\ k + 1 <= h /\ k + 1 \in 1 .. h
    BY <1>2
  <2>2. Slot(k - 1)' = Slot(k + 1 - 1)
    BY <1>1, <1>2, <2>1 DEF Slot, TakeByte, Advance
  <2>3. Contents[k + 1] = q_buffer[Slot(k + 1 - 1)]
    BY <1>2, <2>1, ContentsType
  <2> QED
    BY <1>5, <2>2, <2>3
<1>7. Contents' \in Seq(Bytes) /\ Len(Contents') = h - 1
  <2>1. \A k \in 1 .. h - 1 : Contents'[k] \in Bytes
    <3> SUFFICES ASSUME NEW k \in 1 .. h - 1 PROVE Contents'[k] \in Bytes
      OBVIOUS
    <3>1. k + 1 \in 1 .. h
      BY <1>2
    <3> QED
      BY <1>3, <1>6, <3>1
  <2>2. Contents' \in [1 .. h - 1 -> Bytes] /\ h - 1 \in Nat
    BY <1>2, <1>5, <2>1
  <2> QED
    BY <2>2
<1>8. Contents' = Tail(Contents)
  BY <1>3, <1>4, <1>6, <1>7, TailIs
<1> QED
  BY <1>4, <1>8

(* The circular buffer implements the FIFO queue of ByteQueue: what the    *)
(* interrupt puts in, chIQGetTimeout takes out once and in order, and the  *)
(* same between chOQWriteTimeout and the transmitter; only a reset that    *)
(* the interrupt falls into voids that, until the next reset.              *)
THEOREM QueueIsFifo == Spec => IsFifo
<1>1. Init => Fifo!Init
  <2> SUFFICES ASSUME Init PROVE Fifo!Init
    OBVIOUS
  <2>1. Settled /\ Held = 0
    BY SizeAssumption DEF Init, Settled, Held
  <2>2. Contents = <<>>
    BY <2>1 DEF Contents
  <2> QED
    BY <2>1, <2>2 DEF Init, Fifo!Init, Items, Sound
<1>2. ASSUME IInv, IInv', [Next]_vars
      PROVE  [Fifo!Next]_<<Items, taken, Sound>>
  <2>1. taken \in Bytes /\ taken' \in Bytes /\ raced \in {"yes", "no"}
    BY <1>2 DEF IInv, TypeOK
  <2>2. q_counter \in Nat /\ Size \in Nat
    BY <1>2, SizeAssumption DEF IInv, TypeOK
  <2>3. ASSUME raced' = "yes" PROVE Fifo!Next
    <3>1. Items' = <<>> /\ Sound' = "no"
      BY <2>3 DEF Items, Sound, Settled
    <3> QED
      BY <2>1, <3>1 DEF Fifo!Next, Fifo!Disturbed
  <2>4. ASSUME UNCHANGED <<kind, q_buffer, rd, q_counter, storing, taken, raced>>
        PROVE  UNCHANGED <<Items, taken, Sound>>
    BY <2>4 DEF Items, Sound, Settled, Contents, Held, Slot
  <2>5. ASSUME NEW b \in Bytes, Settled, Settled', StoreByte(b),
               Held' = Held + 1, rd' = rd, UNCHANGED <<taken, raced>>
        PROVE  Fifo!Next
    <3>1. Contents' = Append(Contents, b)
      BY <1>2, <2>5, PutAppends
    <3>2. Len(Contents) < Size
      <4>1. Len(Contents) = Held /\ Held \in Nat
        BY <1>2, <2>5, ContentsType
      <4>2. Held' \in 0 .. Size
        BY <1>2, <2>5 DEF IInv, CounterAgrees
      <4> QED
        BY <2>2, <2>5, <4>1, <4>2
    <3>3. Items = Contents /\ Items' = Contents' /\ Sound = "yes" /\ Sound' = Sound
      BY <2>5 DEF Items, Sound, Settled
    <3>4. Fifo!Put(b)
      BY <2>5, <3>1, <3>2, <3>3 DEF Fifo!Put
    <3> QED
      BY <3>4 DEF Fifo!Next
  <2>6. ASSUME Settled, Settled', Held > 0, Held' = Held - 1, TakeByte,
               q_buffer' = q_buffer, raced' = raced
        PROVE  Fifo!Next
    <3>1. /\ Contents # <<>> /\ taken' = Head(Contents)
          /\ Contents' = Tail(Contents)
      BY <1>2, <2>6, GetRemoves
    <3>2. Items = Contents /\ Items' = Contents' /\ Sound = "yes" /\ Sound' = Sound
      BY <2>6 DEF Items, Sound, Settled
    <3> QED
      BY <3>1, <3>2 DEF Fifo!Next, Fifo!Get
  <2>7. ASSUME NEW b \in Bytes, IQPutI(b) PROVE Fifo!Next
    <3>1. raced' = "yes" \/ (Settled /\ Settled' /\ raced' = raced)
      BY <2>1, <2>7 DEF IQPutI, FromInterrupt, Settled
    <3>2. Held' = Held + 1 /\ rd' = rd /\ taken' = taken /\ StoreByte(b)
      BY <2>7 DEF IQPutI, FromInterrupt, Held
    <3> QED
      BY <2>3, <2>5, <3>1, <3>2
  <2>8. ASSUME NEW b \in Bytes, OQWrite(b)
        PROVE  Fifo!Next \/ UNCHANGED <<Items, taken, Sound>>
    <3>1. CASE q_counter > 0
      <4>1. raced' = "yes" \/ (Settled /\ Settled' /\ raced' = raced)
        BY <2>1, <2>8 DEF OQWrite, Settled
      <4>2. Held' = Held + 1 /\ rd' = rd /\ taken' = taken /\ StoreByte(b)
        BY <2>2, <2>8, <3>1 DEF OQWrite, Held
      <4> QED
        BY <2>3, <2>5, <4>1, <4>2
    <3>2. CASE ~ (q_counter > 0)
      BY <2>4, <2>8, <3>2 DEF OQWrite
    <3> QED
      BY <3>1, <3>2
  <2>9. ASSUME IQGet PROVE Fifo!Next
    <3>1. raced' = "yes" \/ (Settled /\ Settled' /\ raced' = raced)
      BY <2>1, <2>9 DEF IQGet, Settled
    <3>2. Held > 0 /\ Held' = Held - 1 /\ TakeByte /\ q_buffer' = q_buffer
      BY <2>9 DEF IQGet, Held
    <3> QED
      BY <2>3, <2>6, <3>1, <3>2
  <2>10. ASSUME OQGetI PROVE Fifo!Next
    <3>1. raced' = "yes" \/ (Settled /\ Settled' /\ raced' = raced)
      BY <2>1, <2>10 DEF OQGetI, FromInterrupt, Settled
    <3>2. Held' = Held - 1 /\ TakeByte /\ q_buffer' = q_buffer
      BY <2>2, <2>10 DEF OQGetI, FromInterrupt, Held
    <3>3. Settled => Held > 0
      BY <1>2, <2>10, MeetMeans DEF IInv, OQGetI, FromInterrupt
    <3> QED
      BY <2>3, <2>6, <3>1, <3>2, <3>3
  <2>11. ASSUME Reset PROVE Fifo!Next
    <3>1. Items' = <<>> /\ Sound' = "yes" /\ taken' = taken
      BY <2>11 DEF Reset, Items, Sound, Settled
    <3> QED
      BY <3>1 DEF Fifo!Next, Fifo!Reset
  <2>12. ASSUME NEW s \in storing, Store(s)
         PROVE  Fifo!Next
    <3>1. raced' = raced /\ taken' = taken /\ kind' = kind
      BY <2>12 DEF Store
    <3>2. ASSUME raced = "no" PROVE Items' = <<>>
      <4>1. CASE storing' # {}
        BY <4>1 DEF Items, Settled
      <4>2. CASE storing' = {}
        <5>1. s = "counter" \/ "counter" \notin storing
          BY <2>12, <4>2 DEF Store
        <5>2. q_counter' = EmptyCounter
          BY <1>2, <2>12, <3>2, <5>1 DEF IInv, ResetSoFar, Store, EmptyCounter
        <5>3. Held' = 0
          BY <2>2, <3>1, <5>2 DEF Held, EmptyCounter
        <5>4. Contents' = <<>>
          BY <5>3 DEF Contents
        <5> QED
          BY <5>4 DEF Items
      <4> QED
        BY <4>1, <4>2
    <3>3. CASE raced = "no"
      BY <3>1, <3>2, <3>3 DEF Sound, Fifo!Next, Fifo!Reset
    <3>4. CASE raced = "yes"
      BY <2>3, <3>1, <3>4
    <3> QED
      BY <2>1, <3>3, <3>4
  <2>13. ASSUME UNCHANGED vars PROVE UNCHANGED <<Items, taken, Sound>>
    BY <2>4, <2>13 DEF vars
  <2> QED
    BY <1>2, <2>7, <2>8, <2>9, <2>10, <2>11, <2>12, <2>13 DEF Next
<1> QED
  BY <1>1, <1>2, Invariant, PTL DEF Spec, IsFifo, Fifo!Spec
=============================================================================
