---------------------------- MODULE MotorProofs ----------------------------
(***************************************************************************)
(* Proofs about Motor, for every set of threads, of run times and of speed *)
(* arguments, and every width of an int.                                   *)
(*                                                                         *)
(* The safety properties are not inductive one by one.  That a motor is    *)
(* never driven both ways needs that a thread which has just been given    *)
(* the semaphore finds both channels off; that needs that a free motor is  *)
(* off and that a motor is in one party's hands; and that needs the        *)
(* semaphore's counter and queue to agree.  IInv is their conjunction with *)
(* what each of these needs of the others.                                 *)
(***************************************************************************)
EXTENDS Motor, TLAPS

(* A thread is queued on a semaphore once. *)
QueuedOnce ==
  \A m \in Motors :
    \A i, j \in 1 .. Len(queue[m]) : queue[m][i] = queue[m][j] => i = j

(* Who has just taken a semaphore finds both channels of the motor off;    *)
(* between the two writes the second channel is still off.                 *)
OffWhenTaken ==
  \A t \in Threads :
    /\ pc[t] = "on1" => ~ Driven(Cur(t))
    /\ pc[t] = "on2" => /\ out[Cur(t)].p2 = 0
                        /\ dir[t] = "forward" => out[Cur(t)].p1 = 0

(* A motor whose semaphore is free is off. *)
OffWhenFree == \A m \in Motors : ~ Taken(m) => ~ Driven(m)

IInv ==
  /\ TypeOK
  /\ QueuedOnce
  /\ SemConsistent
  /\ OneOwner
  /\ OffWhenTaken
  /\ OffWhenFree
  /\ NeverBothDriven
  /\ TimerReusedAfterFiring

----------------------------------------------------------------------------
(* A step keeps the types when it keeps each part or leaves it alone. *)
LEMMA TypesKept ==
  ASSUME TypeOK,
         CommandTypes' \/ UNCHANGED <<pc, todo, dir, dur>>,
         SemTypes' \/ UNCHANGED <<cnt, queue>>,
         OutputTypes' \/ UNCHANGED <<out, motor_speed>>,
         TimerTypes' \/ UNCHANGED <<vt, immediate, firing, corrupt>>
  PROVE  TypeOK'
  <1>1. CommandTypes'
    BY DEF TypeOK, CommandTypes
  <1>2. SemTypes'
    BY DEF TypeOK, SemTypes
  <1>3. OutputTypes'
    <2>1. OutputTypes
      BY DEF TypeOK
    <2>2. CASE UNCHANGED <<out, motor_speed>>
      <3>1. out' \in [Motors -> [p1 : Nat, p2 : Nat]]
        BY <2>1, <2>2 DEF OutputTypes
      <3>2. motor_speed' \in 2500 .. 10000
        BY <2>1, <2>2 DEF OutputTypes
      <3> QED
        BY <3>1, <3>2 DEF OutputTypes
    <2> QED
      BY <2>2
  <1>4. TimerTypes'
    BY DEF TypeOK, TimerTypes
  <1> QED
    BY <1>1, <1>2, <1>3, <1>4 DEF TypeOK

(* What a division leaves. *)
LEMMA Remainder == \A x \in Int : x % Word \in 0 .. Word - 1
  BY WordAssumption

LEMMA QuotientInt == \A x \in Int : Quotient(x) \in Int
  BY WordAssumption DEF Quotient

LEMMA WrapInt == \A x \in Int : Wrap(x) \in Int
  BY WordAssumption, Remainder DEF Wrap

(* A run time is a number of ticks, perhaps 0. *)
LEMMA RunTimes ==
  ASSUME NEW milli \in Int, NEW n \in MS2ST(milli)
  PROVE  n \in 0 .. Word - 1
  <1>1. Wrap(milli - 1) * PerSecond \in Int
    BY WrapInt, WordAssumption
  <1>2. Quotient(Wrap(Wrap(milli - 1) * PerSecond)) + 1 \in Int
    BY <1>1, WrapInt, QuotientInt
  <1> QED
    BY <1>2, Remainder DEF MS2ST

(* A timer that is set is armed, also for 0 ticks, and no other timer is   *)
(* armed or disarmed by it.                                                *)
LEMMA ArmArms ==
  ASSUME NEW m \in Motors, NEW n \in 0 .. Word - 1, Arm(m, n),
         vt \in [Motors -> Nat], immediate \in SUBSET Motors
  PROVE  /\ vt' \in [Motors -> Nat] /\ immediate' \in SUBSET Motors
         /\ vt'[m] > 0
         /\ \A k \in Motors : k # m => (vt'[k] > 0 <=> vt[k] > 0)
         /\ immediate' = {} => n > 0 /\ vt' = [vt EXCEPT ![m] = n]
  <1>1. immediate' = (IF n = 0 THEN immediate \cup {m} ELSE immediate)
        /\ immediate' \in SUBSET Motors
    BY DEF Arm
  <1>2. ASSUME NEW k \in Motors
        PROVE  /\ vt'[k] = IF k = m THEN IF immediate' = {} THEN n ELSE n + Word
                           ELSE IF vt[k] > 0 /\ n = 0 /\ immediate = {}
                           THEN vt[k] + Word ELSE vt[k]
               /\ vt'[k] \in Nat
    BY WordAssumption DEF Arm
  <1>3. vt' \in [Motors -> Nat]
    BY <1>2 DEF Arm
  <1>4. vt'[m] > 0
    <2>1. CASE n = 0
      <3>1. immediate' # {}
        BY <1>1, <2>1
      <3> QED
        BY <1>2, <2>1, <3>1, WordAssumption
    <2>2. CASE n # 0
      BY <1>2, <2>2, WordAssumption
    <2> QED
      BY <2>1, <2>2
  <1>5. \A k \in Motors : k # m => (vt'[k] > 0 <=> vt[k] > 0)
    BY <1>2, WordAssumption
  <1>6. immediate' = {} => n > 0 /\ vt' = [vt EXCEPT ![m] = n]
    BY <1>1, <1>2, <1>3
  <1> QED
    BY <1>1, <1>3, <1>4, <1>5, <1>6

(* A command starts the left or the right motor. *)
LEMMA CurMotor == ASSUME NEW t \in Threads PROVE Cur(t) \in Motors
  BY DEF Cur, Motors

(* motorInit leaves the service in a state of the invariant. *)
LEMMA InitInv == Init => IInv
  <1> SUFFICES ASSUME Init PROVE IInv
    OBVIOUS
  <1>1. TypeOK
    <2>2. queue \in [Motors -> Seq(Threads)]
      BY DEF Init
    <2> QED
      BY <2>2 DEF Init, TypeOK, CommandTypes, SemTypes, OutputTypes, TimerTypes,
                  Directions, Labels
  <1>2. QueuedOnce /\ OffWhenTaken /\ OffWhenFree
    BY DEF Init, QueuedOnce, OffWhenTaken, OffWhenFree, Driven
  <1>3. SemConsistent
    BY DEF Init, SemConsistent
  <1>4. OneOwner
    BY DEF Init, OneOwner, Starting, Taken
  <1>5. NeverBothDriven /\ TimerReusedAfterFiring
    BY DEF Init, NeverBothDriven, TimerReusedAfterFiring
  <1> QED
    BY <1>1, <1>2, <1>3, <1>4, <1>5 DEF IInv

(* A command begins. *)
LEMMA CallbackInv ==
  ASSUME IInv, NEW t \in Threads, NEW c \in Commands, NEW sec \in Seconds,
         Callback(t, c, sec)
  PROVE  IInv'
  <1> USE DEF IInv
  <1>1. c.motors \in SUBSET Motors /\ c.dir \in Directions
    BY DEF Commands, Directions, Motors
  <1>2. TypeOK'
    <2>1. /\ pc' \in [Threads -> Labels] /\ todo' \in [Threads -> SUBSET Motors]
          /\ dir' \in [Threads -> Directions]
      BY <1>1 DEF TypeOK, CommandTypes, Callback, Goto, Labels
    <2>2. dur' \in [Threads -> Int]
      BY SecondsAssumption DEF TypeOK, CommandTypes, Callback
    <2>3. UNCHANGED <<cnt, queue, out, motor_speed, vt, immediate, firing, corrupt>>
      BY DEF Callback, sem, timers
    <2>t. TypeOK
      BY DEF IInv
    <2>4. CommandTypes'
      BY <2>1, <2>2 DEF CommandTypes
    <2> QED
      BY <2>t, <2>3, <2>4, TypesKept
  <1>3. \A u \in Threads : pc[u] # "idle" => Cur(u)' = Cur(u) /\ pc'[u] = pc[u] /\ dir'[u] = dir[u]
    BY DEF Callback, At, Goto, Cur, TypeOK, CommandTypes
  <1>4. pc[t] = "idle" /\ pc'[t] = "activeL"
    BY DEF Callback, At, Goto, TypeOK, CommandTypes
  <1>5. \A u \in Threads : u # t => pc'[u] = pc[u] /\ Cur(u)' = Cur(u)
    BY DEF Callback, At, Goto, Cur, TypeOK, CommandTypes
  <1>7. SemConsistent' /\ QueuedOnce'
    BY <1>4, <1>5 DEF SemConsistent, QueuedOnce, Callback, sem, timers
  <1>8. OneOwner'
    BY <1>4, <1>5 DEF OneOwner, Starting, Taken, Callback, sem, timers
  <1>9. OffWhenTaken' /\ OffWhenFree'
    BY <1>3, <1>4, <1>5 DEF OffWhenTaken, OffWhenFree, Driven, Taken, Callback, sem, timers
  <1> QED
    BY <1>2, <1>7, <1>8, <1>9
       DEF NeverBothDriven, TimerReusedAfterFiring, Callback

(* motorActive reads one semaphore and moves on. *)
LEMMA ActiveInv ==
  ASSUME IInv, NEW t \in Threads, MotorLeftActive(t) \/ MotorRightActive(t)
  PROVE  IInv'
  <1> USE DEF IInv
  <1>1. TypeOK'
    <2>1. MotorLeftActive(t) => TypeOK'
      <3> SUFFICES ASSUME MotorLeftActive(t) PROVE TypeOK'
        OBVIOUS
      <3>1. pc' \in [Threads -> Labels]
        BY DEF TypeOK, CommandTypes, MotorLeftActive, Goto, Labels
      <3>2. UNCHANGED <<todo, dir, dur, cnt, queue, out, motor_speed, vt, immediate,
                        firing, corrupt>>
        BY DEF MotorLeftActive, locals, sem, timers
      <3>3. CommandTypes'
        BY <3>1, <3>2 DEF TypeOK, CommandTypes
      <3> QED
        BY <3>2, <3>3, TypesKept
    <2>2. ASSUME MotorRightActive(t) PROVE TypeOK'
      <3>1. pc' \in [Threads -> Labels]
        BY <2>2 DEF TypeOK, CommandTypes, MotorRightActive, Goto, Labels
      <3>2. todo' \in [Threads -> SUBSET Motors]
        BY <2>2 DEF TypeOK, CommandTypes, MotorRightActive
      <3>3. UNCHANGED <<cnt, queue, out, motor_speed, vt, immediate, firing, corrupt>>
        BY <2>2 DEF MotorRightActive, sem, timers
      <3>4. dir' \in [Threads -> Directions] /\ dur' \in [Threads -> Int]
        BY <2>2 DEF TypeOK, CommandTypes, MotorRightActive, Forget, Directions
      <3>5. CommandTypes'
        BY <3>1, <3>2, <3>4 DEF CommandTypes
      <3> QED
        BY <3>3, <3>5, TypesKept
    <2> QED
      BY <2>1, <2>2
  <1>2. /\ pc[t] \in {"activeL", "activeR"}
        /\ pc'[t] \in {"activeR", "wait", "idle"}
        /\ UNCHANGED <<cnt, queue, out, motor_speed, vt, immediate, firing, corrupt>>
    BY DEF MotorLeftActive, MotorRightActive, At, Goto, locals, sem, timers, TypeOK, CommandTypes
  <1>3. \A u \in Threads : u # t =>
          pc'[u] = pc[u] /\ Cur(u)' = Cur(u) /\ dir'[u] = dir[u]
    BY DEF MotorLeftActive, MotorRightActive, At, Goto, Forget, locals, Cur, TypeOK, CommandTypes
  <1>5. SemConsistent' /\ QueuedOnce'
    BY <1>2, <1>3 DEF SemConsistent, QueuedOnce
  <1>6. OneOwner'
    BY <1>2, <1>3 DEF OneOwner, Starting, Taken
  <1>7. OffWhenTaken' /\ OffWhenFree'
    BY <1>2, <1>3 DEF OffWhenTaken, OffWhenFree, Driven, Taken
  <1> QED
    BY <1>1, <1>2, <1>5, <1>6, <1>7
       DEF NeverBothDriven, TimerReusedAfterFiring

(* chBSemWait: the thread takes a free semaphore, whose motor is off, or   *)
(* queues up behind the owner.                                             *)
LEMMA SemWaitInv ==
  ASSUME IInv, NEW t \in Threads, SemWait(t)
  PROVE  IInv'
  <1>0. PICK m \in Motors : m = Cur(t)
    BY CurMotor
  <1>1. cnt \in [Motors -> Int] /\ queue \in [Motors -> Seq(Threads)]
        /\ pc \in [Threads -> Labels]
    BY DEF IInv, TypeOK, CommandTypes, SemTypes
  <1>2. /\ pc[t] = "wait"
        /\ cnt' = [cnt EXCEPT ![m] = @ - 1]
        /\ \A u \in Threads : u # t => pc'[u] = pc[u]
        /\ \A u \in Threads : Cur(u)' = Cur(u)
        /\ UNCHANGED <<todo, dir, dur, out, motor_speed, vt, immediate, firing, corrupt>>
    BY <1>0, <1>1 DEF SemWait, At, Goto, locals, timers, Cur
  <1>3. NeverBothDriven' /\ TimerReusedAfterFiring'
    BY <1>2 DEF IInv, NeverBothDriven, TimerReusedAfterFiring
  <1>4. CASE cnt[m] > 0
    <2>1. /\ queue' = queue
          /\ pc' = [pc EXCEPT ![t] = "on1"]
      BY <1>0, <1>1, <1>4 DEF SemWait, Goto
    <2>2. TypeOK'
      <3>1. pc' \in [Threads -> Labels]
        BY <1>1, <2>1 DEF Labels
      <3>2. CommandTypes'
        BY <1>2, <3>1 DEF IInv, TypeOK, CommandTypes
      <3>3. SemTypes'
        BY <1>1, <1>2, <2>1 DEF SemTypes
      <3> QED
        BY <1>2, <3>2, <3>3, TypesKept DEF IInv
    <2>3. cnt[m] = 1
      BY <1>1, <1>4 DEF IInv, SemConsistent
    <2>4. QueuedOnce'
      BY <2>1 DEF IInv, QueuedOnce
    <2>5. SemConsistent'
      BY <1>1, <1>2, <2>1, <2>3 DEF IInv, SemConsistent
    <2>6. OneOwner'
      <3>1. \A u \in Threads, k \in Motors :
              Starting(u, k)' <=> Starting(u, k) \/ (u = t /\ k = m)
        BY <1>0, <1>1, <1>2, <2>1 DEF Starting
      <3>2. ~ Taken(m) /\ Taken(m)'
            /\ \A k \in Motors : k # m => (Taken(k)' <=> Taken(k))
        BY <1>1, <1>2, <2>3 DEF Taken
      <3>3. vt[m] \in Nat
        BY DEF IInv, TypeOK, TimerTypes
      <3> QED
        BY <1>2, <3>1, <3>2, <3>3 DEF IInv, OneOwner
    <2>7. ~ Driven(m)
      BY <1>1, <1>4 DEF IInv, OffWhenFree, Taken
    <2>8. OffWhenTaken' /\ OffWhenFree'
      BY <1>0, <1>1, <1>2, <2>1, <2>3, <2>7
         DEF IInv, OffWhenTaken, OffWhenFree, Driven, Taken
    <2> QED
      BY <1>3, <2>2, <2>4, <2>5, <2>6, <2>8 DEF IInv
  <1>5. CASE cnt[m] <= 0
    <2>1. /\ queue' = [queue EXCEPT ![m] = Append(@, t)]
          /\ pc' = [pc EXCEPT ![t] = "blocked"]
      BY <1>0, <1>1, <1>5 DEF SemWait, Goto
    <2>2. TypeOK'
      <3>1. queue' \in [Motors -> Seq(Threads)]
        BY <1>1, <2>1
      <3>2. pc' \in [Threads -> Labels]
        BY <1>1, <2>1 DEF Labels
      <3>3. CommandTypes'
        BY <1>2, <3>2 DEF IInv, TypeOK, CommandTypes
      <3>4. cnt' \in [Motors -> Int]
        BY <1>1, <1>2
      <3>5. SemTypes'
        BY <3>1, <3>4 DEF SemTypes
      <3> QED
        BY <1>2, <3>3, <3>5, TypesKept DEF IInv
    <2>3. queue[m] \in Seq(Threads) /\ queue'[m] = Append(queue[m], t)
          /\ \A k \in Motors : k # m => queue'[k] = queue[k]
      BY <1>1, <2>1
    <2>4. /\ Len(queue'[m]) = Len(queue[m]) + 1
          /\ queue'[m][Len(queue[m]) + 1] = t
          /\ \A i \in 1 .. Len(queue[m]) : queue'[m][i] = queue[m][i]
          /\ Len(queue[m]) \in Nat
      BY <2>3
    <2>5. \A i \in 1 .. Len(queue[m]) : queue[m][i] # t
      BY <1>2 DEF IInv, SemConsistent
    <2>6. QueuedOnce'
      <3>1. ASSUME NEW i \in 1 .. Len(queue'[m]), NEW j \in 1 .. Len(queue'[m]),
                   queue'[m][i] = queue'[m][j]
            PROVE  i = j
        <4>1. \A k \in 1 .. Len(queue'[m]) :
                k \in 1 .. Len(queue[m]) \/ k = Len(queue[m]) + 1
          BY <2>4
        <4>2. CASE i \in 1 .. Len(queue[m]) /\ j \in 1 .. Len(queue[m])
          BY <2>4, <3>1, <4>2 DEF IInv, QueuedOnce
        <4> QED
          BY <2>4, <2>5, <3>1, <4>1, <4>2
      <3> QED
        BY <2>3, <3>1 DEF IInv, QueuedOnce
    <2>7. SemConsistent'
      <3>1. Len(queue[m]) = - cnt[m]
        BY <1>1, <1>5 DEF IInv, SemConsistent
      <3>2. /\ cnt'[m] <= 1
            /\ Len(queue'[m]) = IF cnt'[m] < 0 THEN - cnt'[m] ELSE 0
        BY <1>1, <1>2, <1>5, <2>4, <3>1
      <3>3. ASSUME NEW u \in Threads
            PROVE  (\E i \in 1 .. Len(queue'[m]) : queue'[m][i] = u)
                     <=> pc'[u] = "blocked" /\ Cur(u)' = m
        <4>1. (\E i \in 1 .. Len(queue'[m]) : queue'[m][i] = u)
                <=> u = t \/ \E i \in 1 .. Len(queue[m]) : queue[m][i] = u
          BY SMTT(30), <2>4
        <4>2. (\E i \in 1 .. Len(queue[m]) : queue[m][i] = u)
                <=> pc[u] = "blocked" /\ Cur(u) = m
          BY DEF IInv, SemConsistent
        <4> QED
          BY <1>0, <1>1, <1>2, <2>1, <4>1, <4>2
      <3>4. ASSUME NEW k \in Motors, k # m
            PROVE  /\ cnt'[k] <= 1
                   /\ Len(queue'[k]) = IF cnt'[k] < 0 THEN - cnt'[k] ELSE 0
                   /\ \A u \in Threads :
                        (\E i \in 1 .. Len(queue'[k]) : queue'[k][i] = u)
                          <=> pc'[u] = "blocked" /\ Cur(u)' = k
        BY <1>0, <1>1, <1>2, <2>1, <2>3, <3>4 DEF IInv, SemConsistent
      <3> QED
        BY <3>2, <3>3, <3>4 DEF SemConsistent
    <2>8. OneOwner'
      <3>1. \A u \in Threads, k \in Motors : Starting(u, k)' <=> Starting(u, k)
        BY <1>1, <1>2, <2>1 DEF Starting
      <3>2. \A k \in Motors : Taken(k)' <=> Taken(k)
        BY <1>1, <1>2, <1>5 DEF Taken
      <3> QED
        BY <1>2, <3>1, <3>2 DEF IInv, OneOwner
    <2>9. OffWhenTaken' /\ OffWhenFree'
      BY <1>1, <1>2, <1>5, <2>1
         DEF IInv, OffWhenTaken, OffWhenFree, Driven, Taken
    <2> QED
      BY <1>3, <2>2, <2>6, <2>7, <2>8, <2>9 DEF IInv
  <1> QED
    BY <1>1, <1>4, <1>5

(* The first channel write: the motor was off, and only its first channel  *)
(* is touched.                                                             *)
LEMMA MotorOn1Inv ==
  ASSUME IInv, NEW t \in Threads, MotorOn1(t)
  PROVE  IInv'
  <1>0. PICK m \in Motors : m = Cur(t)
    BY CurMotor
  <1>1. /\ pc \in [Threads -> Labels] /\ out \in [Motors -> [p1 : Nat, p2 : Nat]]
        /\ motor_speed \in 2500 .. 10000
    BY DEF IInv, TypeOK, CommandTypes, OutputTypes
  <1>2. PICK w \in Nat : /\ out' = [out EXCEPT ![m].p1 = w]
                         /\ dir[t] = "forward" => w = 0
    <2>1. Width(motor_speed) \in Nat
      BY <1>1 DEF Width, PwmPeriod
    <2>2. CASE dir[t] = "forward"
      BY <1>0, <2>1, <2>2 DEF MotorOn1
    <2>3. CASE dir[t] # "forward"
      BY <1>0, <2>1, <2>3 DEF MotorOn1
    <2> QED
      BY <2>2, <2>3
  <1>u. UNCHANGED <<todo, dir, dur, cnt, queue, motor_speed, vt, immediate, firing, corrupt>>
    BY DEF MotorOn1, locals, sem, timers
  <1>3. /\ pc[t] = "on1" /\ pc' = [pc EXCEPT ![t] = "on2"]
        /\ UNCHANGED <<todo, dir, dur, cnt, queue, motor_speed, vt, immediate, firing, corrupt>>
        /\ \A u \in Threads : Cur(u)' = Cur(u)
    BY DEF MotorOn1, At, Goto, locals, sem, timers, Cur
  <1>4. /\ out'[m].p1 = w /\ out'[m].p2 = out[m].p2
        /\ \A k \in Motors : k # m => out'[k] = out[k]
        /\ out[m].p1 = 0 /\ out[m].p2 = 0
    BY <1>0, <1>1, <1>2, <1>3 DEF IInv, OffWhenTaken, Driven
  <1>5. \A u \in Threads, k \in Motors : Starting(u, k)' <=> Starting(u, k)
    BY <1>1, <1>3 DEF Starting
  <1>6. TypeOK'
    <2>1. out' \in [Motors -> [p1 : Nat, p2 : Nat]]
      BY <1>1, <1>2
    <2>2. pc' \in [Threads -> Labels]
      BY <1>1, <1>3 DEF Labels
    <2>3. CommandTypes'
      BY <1>u, <2>2 DEF IInv, TypeOK, CommandTypes
    <2>4. OutputTypes'
      BY <1>u, <2>1 DEF IInv, TypeOK, OutputTypes
    <2> QED
      BY <1>u, <2>3, <2>4, TypesKept DEF IInv
  <1>7. QueuedOnce' /\ TimerReusedAfterFiring'
    BY <1>1, <1>3 DEF IInv, QueuedOnce, TimerReusedAfterFiring
  <1>8. SemConsistent'
    BY <1>1, <1>3 DEF IInv, SemConsistent
  <1>9. OneOwner'
    BY <1>3, <1>5 DEF IInv, OneOwner, Taken
  <1>10. \A u \in Threads : u # t /\ pc[u] \in {"on1", "on2"} => Cur(u) # m
    BY <1>0, <1>3 DEF IInv, OneOwner, Starting
  <1>11. OffWhenTaken'
    <2>1. ASSUME NEW u \in Threads, u # t
          PROVE  /\ pc'[u] = "on1" => ~ Driven(Cur(u))'
                 /\ pc'[u] = "on2" => /\ out'[Cur(u)'].p2 = 0
                                      /\ dir'[u] = "forward" => out'[Cur(u)'].p1 = 0
      BY <1>1, <1>3, <1>4, <1>10, <2>1, CurMotor DEF IInv, OffWhenTaken, Driven
    <2>2. /\ pc'[t] = "on2" /\ out'[Cur(t)'].p2 = 0
          /\ dir'[t] = "forward" => out'[Cur(t)'].p1 = 0
      BY <1>0, <1>1, <1>2, <1>3, <1>4
    <2> QED
      BY <2>1, <2>2 DEF OffWhenTaken, Driven
  <1>12. Taken(m)
    BY <1>0, <1>3 DEF IInv, OneOwner, Starting
  <1>13. OffWhenFree'
    BY <1>3, <1>4, <1>12 DEF IInv, OffWhenFree, Driven, Taken
  <1>14. NeverBothDriven'
    BY <1>4 DEF IInv, NeverBothDriven
  <1> QED
    BY <1>6, <1>7, <1>8, <1>9, <1>11, <1>13, <1>14 DEF IInv

(* The second channel write: forward finds the first channel off, backward *)
(* switches the second one off.                                            *)
LEMMA MotorOn2Inv ==
  ASSUME IInv, NEW t \in Threads, MotorOn2(t)
  PROVE  IInv'
  <1>0. PICK m \in Motors : m = Cur(t)
    BY CurMotor
  <1>1. /\ pc \in [Threads -> Labels] /\ out \in [Motors -> [p1 : Nat, p2 : Nat]]
        /\ motor_speed \in 2500 .. 10000 /\ dir[t] \in {"forward", "backward"}
    BY DEF IInv, TypeOK, CommandTypes, OutputTypes, Directions
  <1>2. PICK w \in Nat : /\ out' = [out EXCEPT ![m].p2 = w]
                         /\ dir[t] = "backward" => w = 0
    <2>1. Width(motor_speed) \in Nat
      BY <1>1 DEF Width, PwmPeriod
    <2>2. CASE dir[t] = "forward"
      BY <1>0, <2>1, <2>2 DEF MotorOn2
    <2>3. CASE dir[t] # "forward"
      BY <1>0, <2>1, <2>3 DEF MotorOn2
    <2> QED
      BY <2>2, <2>3
  <1>u. UNCHANGED <<todo, dir, dur, cnt, queue, motor_speed, vt, immediate, firing, corrupt>>
    BY DEF MotorOn2, locals, sem, timers
  <1>3. /\ pc[t] = "on2" /\ pc' = [pc EXCEPT ![t] = "set"]
        /\ UNCHANGED <<todo, dir, dur, cnt, queue, motor_speed, vt, immediate, firing, corrupt>>
        /\ \A u \in Threads : Cur(u)' = Cur(u)
    BY DEF MotorOn2, Goto, locals, sem, timers, Cur
  <1>4. /\ out'[m].p2 = w /\ out'[m].p1 = out[m].p1
        /\ \A k \in Motors : k # m => out'[k] = out[k]
        /\ dir[t] = "forward" => out[m].p1 = 0
    BY <1>0, <1>1, <1>2, <1>3 DEF IInv, OffWhenTaken
  <1>5. \A u \in Threads, k \in Motors : Starting(u, k)' <=> Starting(u, k)
    BY <1>1, <1>3 DEF Starting
  <1>6. TypeOK'
    <2>1. out' \in [Motors -> [p1 : Nat, p2 : Nat]]
      BY <1>1, <1>2
    <2>2. pc' \in [Threads -> Labels]
      BY <1>1, <1>3 DEF Labels
    <2>3. CommandTypes'
      BY <1>u, <2>2 DEF IInv, TypeOK, CommandTypes
    <2>4. OutputTypes'
      BY <1>u, <2>1 DEF IInv, TypeOK, OutputTypes
    <2> QED
      BY <1>u, <2>3, <2>4, TypesKept DEF IInv
  <1>7. QueuedOnce' /\ TimerReusedAfterFiring'
    BY <1>1, <1>3 DEF IInv, QueuedOnce, TimerReusedAfterFiring
  <1>8. SemConsistent'
    BY <1>1, <1>3 DEF IInv, SemConsistent
  <1>9. OneOwner'
    BY <1>3, <1>5 DEF IInv, OneOwner, Taken
  <1>10. \A u \in Threads : u # t /\ pc[u] \in {"on1", "on2"} => Cur(u) # m
    BY <1>0, <1>3 DEF IInv, OneOwner, Starting
  <1>11. OffWhenTaken'
    BY <1>1, <1>3, <1>4, <1>10, CurMotor DEF IInv, OffWhenTaken, Driven
  <1>12. Taken(m)
    BY <1>0, <1>3 DEF IInv, OneOwner, Starting
  <1>13. OffWhenFree'
    BY <1>3, <1>4, <1>12 DEF IInv, OffWhenFree, Driven, Taken
  <1>14. NeverBothDriven'
    BY <1>1, <1>2, <1>4 DEF IInv, NeverBothDriven
  <1> QED
    BY <1>6, <1>7, <1>8, <1>9, <1>11, <1>13, <1>14 DEF IInv

(* chVTSet arms a timer that was not armed, and hands the motor to it. *)
LEMMA VTSetInv ==
  ASSUME IInv, NEW t \in Threads, VTSet(t)
  PROVE  IInv'
  <1>0. PICK m \in Motors : m = Cur(t)
    BY CurMotor
  <1>1. /\ pc \in [Threads -> Labels] /\ vt \in [Motors -> Nat]
        /\ todo \in [Threads -> SUBSET Motors] /\ immediate \in SUBSET Motors
        /\ dir \in [Threads -> Directions] /\ dur \in [Threads -> Int]
    BY DEF IInv, TypeOK, CommandTypes, SemTypes, OutputTypes, TimerTypes
  <1>2. /\ pc[t] = "set" /\ pc'[t] \in {"idle", "wait"}
        /\ \A u \in Threads : u # t =>
             pc'[u] = pc[u] /\ Cur(u)' = Cur(u) /\ dir'[u] = dir[u]
        /\ firing = {}
        /\ UNCHANGED <<cnt, queue, out, motor_speed, firing>>
    BY <1>0, <1>1 DEF VTSet, At, Unlocked, Goto, Forget, sem, Cur
  <1>3. /\ vt' \in [Motors -> Nat] /\ immediate' \in SUBSET Motors
        /\ vt'[m] > 0
        /\ \A k \in Motors : k # m => (vt'[k] > 0 <=> vt[k] > 0)
    <2>1. PICK n \in MS2ST(Wrap(dur[t] * PerSecond)) : Arm(m, n)
      BY <1>0 DEF VTSet
    <2>2. Wrap(dur[t] * PerSecond) \in Int
      BY <1>1, WordAssumption, WrapInt
    <2>3. n \in 0 .. Word - 1
      BY <2>1, <2>2, RunTimes
    <2> QED
      BY <1>1, <2>1, <2>3, ArmArms
  <1>4. Starting(t, m) /\ vt[m] = 0
    BY <1>0, <1>2 DEF IInv, OneOwner, Starting
  <1>5. corrupt' = corrupt /\ corrupt = {}
    BY <1>0, <1>4 DEF VTSet, IInv, TimerReusedAfterFiring
  <1>6. TypeOK'
    <2>1. pc' \in [Threads -> Labels] /\ todo' \in [Threads -> SUBSET Motors]
      BY <1>1 DEF VTSet, Goto, Labels
    <2>2. dir' \in [Threads -> Directions] /\ dur' \in [Threads -> Int]
      BY <1>1 DEF VTSet, Forget, Directions
    <2>3. CommandTypes'
      BY <2>1, <2>2 DEF CommandTypes
    <2>4. TimerTypes'
      BY <1>2, <1>3, <1>5 DEF IInv, TypeOK, TimerTypes
    <2> QED
      BY <1>2, <2>3, <2>4, TypesKept DEF IInv
  <1>7. QueuedOnce' /\ NeverBothDriven'
    BY <1>2 DEF IInv, QueuedOnce, NeverBothDriven
  <1>8. TimerReusedAfterFiring'
    BY <1>5 DEF TimerReusedAfterFiring
  <1>9. SemConsistent'
    BY <1>2 DEF IInv, SemConsistent
  <1>10. OneOwner'
    <2>1. \A u \in Threads, k \in Motors :
            Starting(u, k)' <=> Starting(u, k) /\ u # t
      BY <1>2 DEF Starting
    <2>2. \A k \in Motors : k # m => ~ Starting(t, k)
      BY <1>0 DEF Starting
    <2>3. vt'[m] > 0
      BY <1>3
    <2>7. \A k \in Motors : k # m =>
            (vt'[k] > 0 <=> vt[k] > 0) /\ (vt[k] = 0 => vt'[k] = 0)
      BY <1>1, <1>3
    <2>4. \A u \in Threads : ~ Starting(u, m)'
      BY <1>4, <2>1 DEF IInv, OneOwner
    <2>5. Taken(m) /\ \A k \in Motors : Taken(k)' <=> Taken(k)
      BY <1>2, <1>4 DEF IInv, OneOwner, Taken
    <2>6. ASSUME NEW k \in Motors
          PROVE  /\ \A u, v \in Threads : Starting(u, k)' /\ Starting(v, k)' => u = v
                 /\ ~ (vt'[k] > 0 /\ k \in firing')
                 /\ (\E u \in Threads : Starting(u, k)') => vt'[k] = 0 /\ k \notin firing'
                 /\ Taken(k)' <=> \/ vt'[k] > 0 \/ k \in firing'
                                  \/ \E u \in Threads : Starting(u, k)'
      <3>1. CASE k = m
        BY <1>2, <2>1, <2>3, <2>4, <2>5, <3>1
      <3>2. CASE k # m
        BY <1>2, <2>1, <2>2, <2>5, <2>7, <3>2 DEF IInv, OneOwner
      <3> QED
        BY <3>1, <3>2
    <2> QED
      BY <2>6 DEF OneOwner
  <1>11. OffWhenTaken' /\ OffWhenFree'
    BY <1>2 DEF IInv, OffWhenTaken, OffWhenFree, Driven, Taken
  <1> QED
    BY <1>6, <1>7, <1>8, <1>9, <1>10, <1>11 DEF IInv

(* One tick: every armed timer counts down, and one that runs out passes   *)
(* its motor to the callback the same tick calls.                          *)
LEMMA TickInv ==
  ASSUME IInv, Tick
  PROVE  IInv'
  <1>1. vt \in [Motors -> Nat]
    BY DEF IInv, TypeOK, TimerTypes
  <1>2. /\ firing = {}
        /\ vt' = [m \in Motors |-> IF vt[m] > 0 THEN vt[m] - 1 ELSE 0]
        /\ firing' = {m \in Motors : vt[m] = 1} /\ immediate' = {}
        /\ UNCHANGED <<pc, todo, dir, dur, cnt, queue, out, motor_speed, corrupt>>
        /\ \A u \in Threads : Cur(u)' = Cur(u)
    BY DEF Tick, Unlocked, locals, sem, timers, Cur
  <1>3. \A m \in Motors : /\ vt'[m] \in Nat
                          /\ vt[m] > 0 <=> vt'[m] > 0 \/ m \in firing'
                          /\ ~ (vt'[m] > 0 /\ m \in firing')
    BY <1>1, <1>2
  <1>4. TypeOK'
    <2>1. vt' \in [Motors -> Nat] /\ firing' \in SUBSET Motors
          /\ immediate' \in SUBSET Motors
      BY <1>1, <1>2
    <2>2. TimerTypes'
      BY <1>2, <2>1 DEF IInv, TypeOK, TimerTypes
    <2> QED
      BY <1>2, <2>2, TypesKept DEF IInv
  <1>5. QueuedOnce' /\ NeverBothDriven' /\ TimerReusedAfterFiring'
    BY <1>2 DEF IInv, QueuedOnce, NeverBothDriven,
                TimerReusedAfterFiring
  <1>6. SemConsistent'
    BY <1>2 DEF IInv, SemConsistent
  <1>7. OneOwner'
    <2>1. \A u \in Threads, m \in Motors : Starting(u, m)' <=> Starting(u, m)
      BY <1>2 DEF Starting
    <2>2. \A m \in Motors : Taken(m)' <=> Taken(m)
      BY <1>2 DEF Taken
    <2> QED
      BY <1>1, <1>2, <1>3, <2>1, <2>2 DEF IInv, OneOwner
  <1>8. OffWhenTaken' /\ OffWhenFree'
    BY <1>2 DEF IInv, OffWhenTaken, OffWhenFree, Driven, Taken
  <1> QED
    BY <1>4, <1>5, <1>6, <1>7, <1>8 DEF IInv

(* motor_left_off / motor_right_off: the motor is switched off, and passed *)
(* on to the thread that waited longest or set free.                       *)
LEMMA MotorOffCallbackInv ==
  ASSUME IInv, NEW m \in Motors, MotorOffCallback(m)
  PROVE  IInv'
  <1>1. /\ pc \in [Threads -> Labels] /\ vt \in [Motors -> Nat]
        /\ cnt \in [Motors -> Int] /\ queue \in [Motors -> Seq(Threads)]
    BY DEF IInv, TypeOK, CommandTypes, SemTypes, TimerTypes
  <1>2. out \in [Motors -> [p1 : Nat, p2 : Nat]]
    BY DEF IInv, TypeOK, OutputTypes
  <1>3. /\ m \in firing /\ firing' = firing \ {m}
        /\ out' = [out EXCEPT ![m] = [p1 |-> 0, p2 |-> 0]]
        /\ UNCHANGED <<todo, dir, dur, motor_speed, vt, immediate, corrupt>>
        /\ \A u \in Threads : Cur(u)' = Cur(u)
    BY DEF MotorOffCallback, SwitchOff, locals, timers, Cur
  <1>4. /\ vt[m] = 0 /\ cnt[m] <= 0
        /\ \A u \in Threads : ~ Starting(u, m)
    BY <1>1, <1>3 DEF IInv, OneOwner, Taken
  <1>5. /\ cnt' = [cnt EXCEPT ![m] = @ + 1]
        /\ \/ /\ cnt[m] < 0
              /\ pc' = [pc EXCEPT ![Head(queue[m])] = "on1"]
              /\ queue' = [queue EXCEPT ![m] = Tail(@)]
           \/ cnt[m] = 0 /\ pc' = pc /\ queue' = queue
    <2>1. /\ cnt' = [cnt EXCEPT ![m] = IF @ < 1 THEN @ + 1 ELSE @]
          /\ \/ /\ cnt[m] < 0
                /\ pc' = [pc EXCEPT ![Head(queue[m])] = "on1"]
                /\ queue' = [queue EXCEPT ![m] = Tail(@)]
             \/ cnt[m] >= 0 /\ UNCHANGED <<pc, queue>>
      BY DEF MotorOffCallback, SwitchOff, Signal
    <2>2. cnt[m] \in Int
      BY <1>1
    <2>3. cnt[m] < 1 /\ (cnt[m] >= 0 => cnt[m] = 0)
      BY <1>4, <2>2
    <2>4. cnt' = [cnt EXCEPT ![m] = @ + 1]
      BY <2>1, <2>3
    <2> QED
      BY <2>1, <2>3, <2>4
  <1>6. /\ out'[m].p1 = 0 /\ out'[m].p2 = 0
        /\ \A k \in Motors : k # m => out'[k] = out[k]
        /\ out' \in [Motors -> [p1 : Nat, p2 : Nat]]
    BY <1>2, <1>3
  <1>7. NeverBothDriven' /\ TimerReusedAfterFiring'
    BY <1>3, <1>6 DEF IInv, NeverBothDriven, TimerReusedAfterFiring
  <1>8. CASE cnt[m] = 0
    <2>1. pc' = pc /\ queue' = queue /\ cnt'[m] = 1
          /\ \A k \in Motors : k # m => cnt'[k] = cnt[k]
      BY <1>1, <1>5, <1>8
    <2>2. TypeOK'
      <3>1. cnt' \in [Motors -> Int]
        BY <1>1, <1>5
      <3>2. firing' \in SUBSET Motors
        BY <1>3 DEF IInv, TypeOK, TimerTypes
      <3>3. SemTypes'
        BY <1>1, <2>1, <3>1 DEF SemTypes
      <3>4. OutputTypes'
        BY <1>3, <1>6 DEF IInv, TypeOK, OutputTypes
      <3>5. TimerTypes'
        BY <1>3, <3>2 DEF IInv, TypeOK, TimerTypes
      <3> QED
        BY <1>3, <2>1, <3>3, <3>4, <3>5, TypesKept DEF IInv
    <2>3. QueuedOnce'
      BY <1>3, <2>1 DEF IInv, QueuedOnce
    <2>4. SemConsistent'
      BY <1>3, <1>8, <2>1 DEF IInv, SemConsistent
    <2>5. OneOwner'
      <3>1. \A u \in Threads, k \in Motors : Starting(u, k)' <=> Starting(u, k)
        BY <1>3, <2>1 DEF Starting
      <3>2. ~ Taken(m)' /\ \A k \in Motors : k # m => (Taken(k)' <=> Taken(k))
        BY <2>1 DEF Taken
      <3> QED
        BY <1>3, <1>4, <3>1, <3>2 DEF IInv, OneOwner
    <2>6. OffWhenTaken' /\ OffWhenFree'
      <3>1. \A u \in Threads : pc[u] \in {"on1", "on2"} => Cur(u) # m
        BY <1>4 DEF Starting
      <3> QED
        BY <1>3, <1>6, <2>1, <3>1, CurMotor
           DEF IInv, OffWhenTaken, OffWhenFree, Driven, Taken
    <2> QED
      BY <1>7, <2>2, <2>3, <2>4, <2>5, <2>6 DEF IInv
  <1>9. CASE cnt[m] < 0
    <2>1. Len(queue[m]) = - cnt[m] /\ queue[m] \in Seq(Threads)
      BY <1>1, <1>9 DEF IInv, SemConsistent
    <2>2. queue[m] # <<>> /\ Len(queue[m]) > 0 /\ Len(queue[m]) \in Nat
      BY <1>1, <1>9, <2>1
    <2>3. PICK h \in Threads : h = Head(queue[m]) /\ h = queue[m][1]
      BY <2>1, <2>2
    <2>4. /\ pc' = [pc EXCEPT ![h] = "on1"] /\ queue'[m] = Tail(queue[m])
          /\ \A k \in Motors : k # m => queue'[k] = queue[k] /\ cnt'[k] = cnt[k]
          /\ cnt'[m] = cnt[m] + 1
      BY <1>1, <1>5, <1>9, <2>3
    <2>5. /\ Len(queue'[m]) = Len(queue[m]) - 1
          /\ \A i \in 1 .. Len(queue[m]) - 1 : queue'[m][i] = queue[m][i + 1]
          /\ queue'[m] \in Seq(Threads)
      BY <2>1, <2>2, <2>4
    <2>6. pc[h] = "blocked" /\ Cur(h) = m
      BY <2>2, <2>3 DEF IInv, SemConsistent
    <2>7. TypeOK'
      <3>1. queue' \in [Motors -> Seq(Threads)]
        <4>1. queue' = [queue EXCEPT ![m] = Tail(@)]
          BY <1>1, <1>5, <1>9
        <4> QED
          BY <1>1, <2>4, <2>5, <4>1
      <3>2. pc' \in [Threads -> Labels]
        BY <1>1, <2>4 DEF Labels
      <3>3. cnt' \in [Motors -> Int]
        BY <1>1, <1>5
      <3>4. firing' \in SUBSET Motors
        BY <1>3 DEF IInv, TypeOK, TimerTypes
      <3>5. CommandTypes'
        BY <1>3, <3>2 DEF IInv, TypeOK, CommandTypes
      <3>6. SemTypes'
        BY <3>1, <3>3 DEF SemTypes
      <3>7. OutputTypes'
        BY <1>3, <1>6 DEF IInv, TypeOK, OutputTypes
      <3>8. TimerTypes'
        BY <1>3, <3>4 DEF IInv, TypeOK, TimerTypes
      <3> QED
        BY <3>5, <3>6, <3>7, <3>8 DEF TypeOK
    <2>9. QueuedOnce'
      <3>1. ASSUME NEW i \in 1 .. Len(queue'[m]), NEW j \in 1 .. Len(queue'[m]),
                   queue'[m][i] = queue'[m][j]
            PROVE  i = j
        <4>1. /\ i \in 1 .. Len(queue[m]) - 1 /\ i + 1 \in 1 .. Len(queue[m])
              /\ j \in 1 .. Len(queue[m]) - 1 /\ j + 1 \in 1 .. Len(queue[m])
          BY <2>2, <2>5
        <4>2. queue[m][i + 1] = queue[m][j + 1]
          BY <2>5, <3>1, <4>1
        <4>3. i + 1 = j + 1
          BY <4>1, <4>2 DEF IInv, QueuedOnce
        <4> QED
          BY <4>3
      <3> QED
        BY <2>4, <3>1 DEF IInv, QueuedOnce
    <2>10. SemConsistent'
      <3>1. /\ cnt'[m] <= 1
            /\ Len(queue'[m]) = IF cnt'[m] < 0 THEN - cnt'[m] ELSE 0
        BY <1>1, <1>9, <2>1, <2>4, <2>5
      <3>2. ASSUME NEW u \in Threads
            PROVE  (\E i \in 1 .. Len(queue'[m]) : queue'[m][i] = u)
                     <=> pc'[u] = "blocked" /\ Cur(u)' = m
        <4>1. (\E i \in 1 .. Len(queue[m]) : queue[m][i] = u)
                <=> pc[u] = "blocked" /\ Cur(u) = m
          BY DEF IInv, SemConsistent
        <4>2. CASE u = h
          <5>1. ASSUME NEW i \in 1 .. Len(queue'[m]), queue'[m][i] = h
                PROVE  FALSE
            <6>1. i + 1 \in 1 .. Len(queue[m]) /\ queue[m][i + 1] = queue[m][1]
              BY <2>2, <2>3, <2>5, <5>1
            <6>2. 1 \in 1 .. Len(queue[m])
              BY <2>2
            <6>3. i + 1 = 1
              BY <6>1, <6>2 DEF IInv, QueuedOnce
            <6> QED
              BY <2>2, <2>5, <6>3
          <5> QED
            BY <1>1, <2>4, <4>2, <5>1
        <4>3. CASE u # h
          <5>1. ASSUME NEW i \in 1 .. Len(queue'[m]), queue'[m][i] = u
                PROVE  \E j \in 1 .. Len(queue[m]) : queue[m][j] = u
            BY <2>2, <2>5, <5>1
          <5>2. ASSUME NEW j \in 1 .. Len(queue[m]), queue[m][j] = u
                PROVE  \E i \in 1 .. Len(queue'[m]) : queue'[m][i] = u
            <6>1. j # 1
              BY <2>3, <4>3, <5>2
            <6>2. j - 1 \in 1 .. Len(queue'[m]) /\ queue'[m][j - 1] = u
              BY <2>2, <2>5, <5>2, <6>1
            <6> QED
              BY <6>2
          <5>3. pc'[u] = pc[u] /\ Cur(u)' = Cur(u)
            BY <1>1, <1>3, <2>4, <4>3
          <5> QED
            BY <4>1, <5>1, <5>2, <5>3
        <4> QED
          BY <4>2, <4>3
      <3>3. ASSUME NEW k \in Motors, k # m
            PROVE  /\ cnt'[k] <= 1
                   /\ Len(queue'[k]) = IF cnt'[k] < 0 THEN - cnt'[k] ELSE 0
                   /\ \A u \in Threads :
                        (\E i \in 1 .. Len(queue'[k]) : queue'[k][i] = u)
                          <=> pc'[u] = "blocked" /\ Cur(u)' = k
        <4>1. \A u \in Threads : (pc'[u] = "blocked" /\ Cur(u)' = k)
                                   <=> (pc[u] = "blocked" /\ Cur(u) = k)
          BY <1>1, <1>3, <2>4, <2>6, <3>3
        <4> QED
          BY <2>4, <3>3, <4>1 DEF IInv, SemConsistent
      <3> QED
        BY <3>1, <3>2, <3>3 DEF SemConsistent
    <2>11. OneOwner'
      <3>1. \A u \in Threads, k \in Motors :
              Starting(u, k)' <=> Starting(u, k) \/ (u = h /\ k = m)
        BY <1>1, <1>3, <2>4, <2>6 DEF Starting
      <3>2. \A k \in Motors : Taken(k)' <=> Taken(k)
        <4>1. cnt[m] \in Int
          BY <1>1
        <4> QED
          BY <1>9, <2>4, <4>1 DEF Taken
      <3> QED
        BY <1>3, <1>4, <3>1, <3>2 DEF IInv, OneOwner
    <2>12. OffWhenTaken' /\ OffWhenFree'
      <3>1. \A u \in Threads : pc[u] \in {"on1", "on2"} => Cur(u) # m
        BY <1>4 DEF Starting
      <3>2. Taken(m)' /\ \A k \in Motors : Taken(k)' <=> Taken(k)
        <4>1. cnt[m] \in Int
          BY <1>1
        <4> QED
          BY <1>9, <2>4, <4>1 DEF Taken
      <3>3. OffWhenTaken'
        BY SMTT(30), <1>1, <1>3, <1>6, <2>4, <2>6, <3>1, CurMotor
           DEF IInv, OffWhenTaken, Driven
      <3>4. OffWhenFree'
        BY <1>6, <3>2 DEF IInv, OffWhenFree, Driven
      <3> QED
        BY <3>3, <3>4
    <2> QED
      BY <1>7, <2>7, <2>9, <2>10, <2>11, <2>12 DEF IInv
  <1> QED
    BY <1>1, <1>4, <1>8, <1>9

(* motorSetSpeed keeps the speed between 25 and 100 percent. *)
LEMMA MotorSetSpeedInv ==
  ASSUME IInv, NEW s \in SpeedArgs, MotorSetSpeed(s)
  PROVE  IInv'
  <1>1. s \in Int /\ 25 <= s /\ s <= 100 /\ motor_speed' = 100 * s
    BY SpeedArgsAssumption DEF MotorSetSpeed
  <1>2. motor_speed' \in 2500 .. 10000
    BY <1>1
  <1>u. UNCHANGED <<pc, todo, dir, dur, cnt, queue, out, vt, immediate, firing, corrupt>>
    BY DEF MotorSetSpeed, locals, sem, timers
  <1>3. UNCHANGED <<pc, todo, dir, dur, cnt, queue, out, vt, immediate, firing, corrupt>>
        /\ \A u \in Threads : Cur(u)' = Cur(u)
    BY <1>u DEF Cur
  <1>4. TypeOK'
    <2>1. out \in [Motors -> [p1 : Nat, p2 : Nat]]
      BY DEF IInv, TypeOK, OutputTypes
    <2>2. out' \in [Motors -> [p1 : Nat, p2 : Nat]]
      BY <1>u, <2>1
    <2>3. OutputTypes'
      BY <1>2, <2>2 DEF OutputTypes
    <2> QED
      BY <1>u, <2>3, TypesKept DEF IInv
  <1>5. QueuedOnce' /\ NeverBothDriven' /\ TimerReusedAfterFiring'
    BY <1>3 DEF IInv, QueuedOnce, NeverBothDriven,
                TimerReusedAfterFiring
  <1>6. SemConsistent' /\ OneOwner'
    BY <1>3 DEF IInv, SemConsistent, OneOwner, Starting, Taken
  <1>7. OffWhenTaken' /\ OffWhenFree'
    BY <1>3 DEF IInv, OffWhenTaken, OffWhenFree, Driven, Taken
  <1> QED
    BY <1>4, <1>5, <1>6, <1>7 DEF IInv

(* A step that changes nothing keeps the invariant. *)
LEMMA StutterInv == IInv /\ UNCHANGED vars => IInv'
  <1> SUFFICES ASSUME IInv, UNCHANGED vars PROVE IInv'
    OBVIOUS
  <1> USE DEF IInv, vars
  <1>1. TypeOK'
    BY TypesKept
  <1>2. QueuedOnce' /\ NeverBothDriven' /\ TimerReusedAfterFiring'
    BY DEF QueuedOnce, NeverBothDriven, TimerReusedAfterFiring
  <1>3. SemConsistent' /\ OneOwner'
    BY DEF SemConsistent, OneOwner, Starting, Taken, Cur
  <1>4. OffWhenTaken' /\ OffWhenFree'
    BY DEF OffWhenTaken, OffWhenFree, Driven, Taken, Cur
  <1> QED
    BY <1>1, <1>2, <1>3, <1>4

(* Every step of the service keeps the invariant. *)
LEMMA NextInv == IInv /\ [Next]_vars => IInv'
  <1> SUFFICES ASSUME IInv, [Next]_vars PROVE IInv'
    OBVIOUS
  <1>1. ASSUME NEW t \in Threads, NEW c \in Commands, NEW sec \in Seconds,
               Callback(t, c, sec)
        PROVE  IInv'
    BY <1>1, CallbackInv
  <1>2. ASSUME NEW t \in Threads, ThreadStep(t)
        PROVE  IInv'
    BY <1>2, ActiveInv, SemWaitInv, MotorOn1Inv, MotorOn2Inv, VTSetInv
       DEF ThreadStep
  <1>3. CASE Tick
    BY <1>3, TickInv
  <1>4. ASSUME NEW m \in Motors, MotorOffCallback(m)
        PROVE  IInv'
    BY <1>4, MotorOffCallbackInv
  <1>5. ASSUME NEW s \in SpeedArgs, MotorSetSpeed(s)
        PROVE  IInv'
    BY <1>5, MotorSetSpeedInv
  <1>6. CASE UNCHANGED vars
    BY <1>6, StutterInv
  <1> QED
    BY <1>1, <1>2, <1>3, <1>4, <1>5, <1>6 DEF Next

(* The invariant holds in every reachable state. *)
THEOREM Invariant == Spec => []IInv
  BY InitInv, NextInv, PTL DEF Spec

(* Type correctness of the motor service. *)
THEOREM TypeCorrect == Spec => []TypeOK
  BY Invariant, PTL DEF IInv

(* Whatever commands arrive from however many threads, the two inputs of a *)
(* motor bridge are never driven together, also not between the two        *)
(* channel writes of motor_left_on / motor_right_on.                       *)
THEOREM Interlock == Spec => []NeverBothDriven
  BY Invariant, PTL DEF IInv

(* chBSemWait and chBSemSignalI keep counter, queue and sleeping threads   *)
(* in agreement.                                                           *)
THEOREM SemaphoresConsistent == Spec => []SemConsistent
  BY Invariant, PTL DEF IInv

(* A motor has one owner, and its semaphore is taken exactly when it has   *)
(* one.                                                                    *)
THEOREM Ownership == Spec => []OneOwner
  BY Invariant, PTL DEF IInv

(* motorLeftForwardS and its siblings never call chVTSet on an armed       *)
(* timer, as long as nothing but the callbacks signals the semaphores.     *)
THEOREM TimersReused == Spec => []TimerReusedAfterFiring
  BY Invariant, PTL DEF IInv

(* A driven motor has its stop pending. *)
THEOREM StopIsPending == Spec => []StopPending
  <1>1. IInv => StopPending
    BY DEF IInv, StopPending, OffWhenFree, OneOwner
  <1> QED
    BY <1>1, Invariant, PTL

(* No step changes direction or speed of a running motor. *)
THEOREM NoChange == Spec => NoChangeWhileDriven
  <1>1. ASSUME IInv, [Next]_vars
        PROVE  [\A m \in Motors : Driven(m) /\ Driven(m)' => out'[m] = out[m]]_vars
    <2> DEFINE Same == \A m \in Motors : Driven(m) /\ Driven(m)' => out'[m] = out[m]
    <2>0. out \in [Motors -> [p1 : Nat, p2 : Nat]]
      BY <1>1 DEF IInv, TypeOK, OutputTypes
    <2>1. ASSUME NEW t \in Threads, MotorOn1(t)
          PROVE  Same
      <3>1. Cur(t) \in Motors /\ ~ Driven(Cur(t))
        BY <1>1, <2>1, CurMotor DEF IInv, OffWhenTaken, MotorOn1, At
      <3>2. \A m \in Motors : m # Cur(t) => out'[m] = out[m]
        BY <2>0, <2>1, <3>1 DEF MotorOn1
      <3> QED
        BY <3>1, <3>2
    <2>2. ASSUME NEW t \in Threads, MotorOn2(t)
          PROVE  Same
      <3>1. PICK m \in Motors : m = Cur(t)
        BY CurMotor
      <3>2. /\ out[m].p2 = 0 /\ (dir[t] = "forward" => out[m].p1 = 0)
        BY <1>1, <2>2, <3>1 DEF IInv, OffWhenTaken, MotorOn2
      <3>3. \A k \in Motors : k # m => out'[k] = out[k]
        BY <2>0, <2>2, <3>1 DEF MotorOn2
      <3>4. CASE dir[t] = "forward"
        BY <3>2, <3>3, <3>4 DEF Driven
      <3>5. CASE dir[t] # "forward"
        <4>1. out' = [out EXCEPT ![m].p2 = 0]
          BY <2>2, <3>1, <3>5 DEF MotorOn2
        <4>2. out'[m] = out[m]
          BY <2>0, <3>2, <4>1
        <4> QED
          BY <3>3, <4>2
      <3> QED
        BY <3>4, <3>5
    <2>3. ASSUME NEW m \in Motors, MotorOffCallback(m)
          PROVE  Same
      <3>1. ~ Driven(m)' /\ \A k \in Motors : k # m => out'[k] = out[k]
        BY <2>0, <2>3 DEF MotorOffCallback, SwitchOff, Driven
      <3> QED
        BY <3>1
    <2>4. ASSUME UNCHANGED out
          PROVE  Same
      BY <2>4
    <2>5. ASSUME NEW t \in Threads,
                 \/ \E c \in Commands, sec \in Seconds : Callback(t, c, sec)
                 \/ MotorLeftActive(t) \/ MotorRightActive(t)
                 \/ SemWait(t) \/ VTSet(t)
          PROVE  UNCHANGED out
      BY <2>5 DEF Callback, MotorLeftActive, MotorRightActive, SemWait, VTSet
    <2>6. ASSUME Tick \/ \E s \in SpeedArgs : MotorSetSpeed(s)
          PROVE  UNCHANGED out
      BY <2>6 DEF Tick, MotorSetSpeed
    <2> HIDE DEF Same
    <2>7. Same \/ UNCHANGED vars
      BY <1>1, <2>1, <2>2, <2>3, <2>4, <2>5, <2>6 DEF Next, ThreadStep
    <2> QED
      BY <2>7 DEF Same
  <1> QED
    BY <1>1, Invariant, PTL DEF Spec, NoChangeWhileDriven

(* The motor service uses its two timers by the rules of TimerSpec, for    *)
(* every argument of a command: only a chVTSet for 0 ticks, or one behind  *)
(* it in the same tick, breaks them.                                       *)
THEOREM TimerUse == Spec => TimersKept
  <1> DEFINE L == TicksLeft
  <1>1. Init => Timer!Init
    BY DEF Init, Timer!Init, TicksLeft
  <1>2. ASSUME IInv, [Next]_vars PROVE [Timer!Next \/ immediate' # {}]_L
    <2> USE DEF TicksLeft
    <2>1. vt \in [Motors -> Nat] /\ firing \in SUBSET Motors
          /\ immediate \in SUBSET Motors /\ dur \in [Threads -> Int]
      BY <1>2 DEF IInv, TypeOK, TimerTypes, CommandTypes
    <2>2. ASSUME NEW t \in Threads, VTSet(t), immediate' = {}
          PROVE  \E m \in Motors : \E n \in 1 .. Word - 1 : Timer!Set(m, n)
      <3>1. PICK m \in Motors : m = Cur(t)
        BY CurMotor
      <3>2. pc[t] = "set" /\ firing = {} /\ firing' = {}
        BY <2>2 DEF VTSet, At, Unlocked
      <3>3. vt[m] = 0
        BY <1>2, <3>1, <3>2 DEF IInv, OneOwner, Starting
      <3>4. PICK n \in MS2ST(Wrap(dur[t] * PerSecond)) : Arm(m, n)
        BY <2>2, <3>1 DEF VTSet
      <3>5. n \in 0 .. Word - 1
        <4>1. Wrap(dur[t] * PerSecond) \in Int
          BY <2>1, WordAssumption, WrapInt
        <4> QED
          BY <4>1, RunTimes
      <3>6. n > 0 /\ vt' = [vt EXCEPT ![m] = n]
        BY <2>1, <2>2, <3>4, <3>5, ArmArms
      <3>7. L[m] = -1
        BY <3>2, <3>3
      <3>8. \A k \in Motors : L'[k] = IF k = m THEN n ELSE L[k]
        BY <2>1, <3>2, <3>5, <3>6
      <3>9. L' = [L EXCEPT ![m] = n]
        BY <3>8
      <3>10. Timer!Set(m, n) /\ n \in 1 .. Word - 1
        BY <3>5, <3>6, <3>7, <3>9 DEF Timer!Set, Timer!Armed
      <3> QED
        BY <3>10
    <2>3. ASSUME Tick PROVE Timer!Tick
      BY <2>1, <2>3 DEF Tick, Unlocked, Timer!Tick, Timer!Armed
    <2>4. ASSUME NEW m \in Motors, MotorOffCallback(m)
          PROVE  Timer!Fire(m)
      <3>1. m \in firing /\ firing' = firing \ {m} /\ vt' = vt
        BY <2>4 DEF MotorOffCallback, timers
      <3>2. vt[m] = 0
        BY <1>2, <2>1, <3>1 DEF IInv, OneOwner
      <3>3. L[m] = 0
        BY <3>1, <3>2
      <3>4. \A k \in Motors : L'[k] = IF k = m THEN -1 ELSE L[k]
        BY <2>1, <3>1, <3>2
      <3>5. L' = [L EXCEPT ![m] = -1]
        BY <3>4
      <3> QED
        BY <3>3, <3>5 DEF Timer!Fire
    <2>5. ASSUME UNCHANGED <<vt, firing>> PROVE UNCHANGED L
      BY <2>5
    <2>6. ASSUME NEW t \in Threads,
                 \/ \E c \in Commands, sec \in Seconds : Callback(t, c, sec)
                 \/ MotorLeftActive(t) \/ MotorRightActive(t)
                 \/ SemWait(t) \/ MotorOn1(t) \/ MotorOn2(t)
          PROVE  UNCHANGED <<vt, firing>>
      BY <2>6 DEF Callback, MotorLeftActive, MotorRightActive, SemWait,
                  MotorOn1, MotorOn2, timers
    <2>7. ASSUME NEW s \in SpeedArgs, MotorSetSpeed(s)
          PROVE  UNCHANGED <<vt, firing>>
      BY <2>7 DEF MotorSetSpeed, timers
    <2>8. ASSUME UNCHANGED vars PROVE UNCHANGED <<vt, firing>>
      BY <2>8 DEF vars
    <2> HIDE DEF L
    <2>9. Timer!Next \/ immediate' # {} \/ UNCHANGED L
      BY <1>2, <2>2, <2>3, <2>4, <2>5, <2>6, <2>7, <2>8
         DEF Next, ThreadStep, Timer!Next
    <2> QED
      BY <2>9
  <1> QED
    BY <1>1, <1>2, Invariant, PTL DEF Spec, TimersKept

----------------------------------------------------------------------------
(***************************************************************************)
(* The semaphores of Motor under every operation of serv_motor.h:          *)
(* motorLeftOff and motorRightOff, which the firmware never calls, signal  *)
(* them at any time, also when they are free.  What then becomes of the    *)
(* timers is another matter (see TimerReusedAfterFiring); the counters and *)
(* the queues stay in agreement.                                           *)
(***************************************************************************)
SemTypeOK ==
  /\ pc \in [Threads -> Labels] /\ todo \in [Threads -> SUBSET Motors]
  /\ cnt \in [Motors -> Int] /\ queue \in [Motors -> Seq(Threads)]

(* The inductive invariant: OneOwner, which IInv rests on, does not hold   *)
(* here, and is not needed for the semaphores.                             *)
SemInv == SemTypeOK /\ QueuedOnce /\ SemConsistent

(* A step of one thread that does not sleep before or after it, and does   *)
(* not touch the semaphores, keeps them consistent.                        *)
LEMMA OtherStep ==
  ASSUME SemInv, NEW t \in Threads, SemTypeOK',
         UNCHANGED <<cnt, queue>>,
         pc[t] # "blocked", pc'[t] # "blocked",
         \A u \in Threads : u # t => pc'[u] = pc[u] /\ todo'[u] = todo[u]
  PROVE  SemInv'
  <1>1. \A u \in Threads : u # t => Cur(u)' = Cur(u)
    BY DEF Cur
  <1>2. QueuedOnce'
    BY DEF SemInv, QueuedOnce
  <1>3. SemConsistent'
    BY <1>1 DEF SemInv, SemConsistent
  <1> QED
    BY <1>2, <1>3 DEF SemInv

(* A command begins, asks for the semaphores' state, writes a channel or   *)
(* sets its timer.                                                         *)
LEMMA CommandKeeps ==
  ASSUME SemInv, NEW t \in Threads,
         \/ \E c \in Commands, sec \in Seconds : Callback(t, c, sec)
         \/ MotorLeftActive(t) \/ MotorRightActive(t)
         \/ MotorOn1(t) \/ MotorOn2(t) \/ VTSet(t)
  PROVE  SemInv'
  <1> USE DEF SemInv, SemTypeOK, Labels, At, Goto, sem, locals
  <1>1. ASSUME NEW c \in Commands, NEW sec \in Seconds, Callback(t, c, sec)
        PROVE  SemInv'
    <2>1. c.motors \in SUBSET Motors
      BY DEF Commands, Motors
    <2>2. SemTypeOK' /\ pc[t] = "idle" /\ pc'[t] = "activeL"
          /\ UNCHANGED <<cnt, queue>>
          /\ \A u \in Threads : u # t => pc'[u] = pc[u] /\ todo'[u] = todo[u]
      BY <1>1, <2>1 DEF Callback
    <2> QED
      BY <2>2, OtherStep
  <1>2. CASE MotorLeftActive(t)
    <2>1. SemTypeOK' /\ pc[t] # "blocked" /\ pc'[t] # "blocked"
          /\ UNCHANGED <<cnt, queue>>
          /\ \A u \in Threads : u # t => pc'[u] = pc[u] /\ todo'[u] = todo[u]
      BY <1>2 DEF MotorLeftActive
    <2> QED
      BY <2>1, OtherStep
  <1>3. CASE MotorRightActive(t)
    <2>1. pc' \in [Threads -> Labels] /\ pc[t] # "blocked" /\ pc'[t] # "blocked"
      BY <1>3 DEF MotorRightActive
    <2>2. todo' \in [Threads -> SUBSET Motors]
      BY <1>3 DEF MotorRightActive
    <2>3. UNCHANGED <<cnt, queue>>
          /\ \A u \in Threads : u # t => pc'[u] = pc[u] /\ todo'[u] = todo[u]
      BY <1>3 DEF MotorRightActive
    <2>4. SemTypeOK'
      BY <2>1, <2>2, <2>3
    <2> QED
      BY <2>1, <2>3, <2>4, OtherStep
  <1>4. CASE MotorOn1(t)
    <2>1. SemTypeOK' /\ pc[t] # "blocked" /\ pc'[t] # "blocked"
          /\ UNCHANGED <<cnt, queue>>
          /\ \A u \in Threads : u # t => pc'[u] = pc[u] /\ todo'[u] = todo[u]
      BY <1>4 DEF MotorOn1
    <2> QED
      BY <2>1, OtherStep
  <1>5. CASE MotorOn2(t)
    <2>1. SemTypeOK' /\ pc[t] # "blocked" /\ pc'[t] # "blocked"
          /\ UNCHANGED <<cnt, queue>>
          /\ \A u \in Threads : u # t => pc'[u] = pc[u] /\ todo'[u] = todo[u]
      BY <1>5 DEF MotorOn2
    <2> QED
      BY <2>1, OtherStep
  <1>6. CASE VTSet(t)
    <2>1. SemTypeOK' /\ pc[t] # "blocked" /\ pc'[t] # "blocked"
          /\ UNCHANGED <<cnt, queue>>
          /\ \A u \in Threads : u # t => pc'[u] = pc[u] /\ todo'[u] = todo[u]
      BY <1>6 DEF VTSet
    <2> QED
      BY <2>1, OtherStep
  <1> QED
    BY <1>1, <1>2, <1>3, <1>4, <1>5, <1>6

(* chBSemWait: the counter goes down, and a thread that finds the          *)
(* semaphore taken becomes the last of its queue.                          *)
LEMMA WaitKeeps ==
  ASSUME SemInv, NEW t \in Threads, SemWait(t)
  PROVE  SemInv'
  <1>0. PICK m \in Motors : m = Cur(t)
    BY CurMotor
  <1>1. /\ cnt \in [Motors -> Int] /\ queue \in [Motors -> Seq(Threads)]
        /\ pc \in [Threads -> Labels]
    BY DEF SemInv, SemTypeOK
  <1>2. /\ pc[t] = "wait" /\ cnt' = [cnt EXCEPT ![m] = @ - 1] /\ todo' = todo
        /\ \A u \in Threads : u # t => pc'[u] = pc[u]
        /\ \A u \in Threads : Cur(u)' = Cur(u)
    BY <1>0, <1>1 DEF SemWait, At, Goto, locals, timers, Cur
  <1>3. CASE cnt[m] > 0
    <2>1. queue' = queue /\ pc' = [pc EXCEPT ![t] = "on1"]
      BY <1>0, <1>1, <1>3 DEF SemWait, Goto
    <2>2. SemTypeOK'
      BY <1>1, <1>2, <2>1 DEF SemInv, SemTypeOK, Labels
    <2>3. cnt[m] = 1
      BY <1>1, <1>3 DEF SemInv, SemConsistent
    <2>4. SemConsistent'
      BY <1>1, <1>2, <2>1, <2>3 DEF SemInv, SemConsistent
    <2> QED
      BY <2>1, <2>2, <2>4 DEF SemInv, QueuedOnce
  <1>4. CASE cnt[m] <= 0
    <2>1. /\ queue' = [queue EXCEPT ![m] = Append(@, t)]
          /\ pc' = [pc EXCEPT ![t] = "blocked"]
      BY <1>0, <1>1, <1>4 DEF SemWait, Goto
    <2>2. SemTypeOK'
      <3>1. queue' \in [Motors -> Seq(Threads)]
        BY <1>1, <2>1
      <3> QED
        BY <1>1, <1>2, <2>1, <3>1 DEF SemInv, SemTypeOK, Labels
    <2>3. queue[m] \in Seq(Threads) /\ queue'[m] = Append(queue[m], t)
          /\ \A k \in Motors : k # m => queue'[k] = queue[k] /\ cnt'[k] = cnt[k]
      BY <1>1, <1>2, <2>1
    <2>4. /\ Len(queue'[m]) = Len(queue[m]) + 1
          /\ queue'[m][Len(queue[m]) + 1] = t
          /\ \A i \in 1 .. Len(queue[m]) : queue'[m][i] = queue[m][i]
          /\ Len(queue[m]) \in Nat
      BY <2>3
    <2>5. \A i \in 1 .. Len(queue[m]) : queue[m][i] # t
      BY <1>2 DEF SemInv, SemConsistent
    <2>6. \A i \in 1 .. Len(queue'[m]) :
            i \in 1 .. Len(queue[m]) \/ i = Len(queue[m]) + 1
      BY <2>4
    <2>7. QueuedOnce'
      <3>1. ASSUME NEW i \in 1 .. Len(queue'[m]), NEW j \in 1 .. Len(queue'[m]),
                   queue'[m][i] = queue'[m][j]
            PROVE  i = j
        <4>1. CASE i \in 1 .. Len(queue[m]) /\ j \in 1 .. Len(queue[m])
          BY <2>4, <3>1, <4>1 DEF SemInv, QueuedOnce
        <4> QED
          BY <2>4, <2>5, <2>6, <3>1, <4>1
      <3> QED
        BY <2>3, <3>1 DEF SemInv, QueuedOnce
    <2>8. SemConsistent'
      <3>1. Len(queue[m]) = - cnt[m]
        BY <1>1, <1>4 DEF SemInv, SemConsistent
      <3>2. /\ cnt'[m] <= 1
            /\ Len(queue'[m]) = IF cnt'[m] < 0 THEN - cnt'[m] ELSE 0
        BY <1>1, <1>2, <1>4, <2>4, <3>1
      <3>3. ASSUME NEW u \in Threads
            PROVE  (\E i \in 1 .. Len(queue'[m]) : queue'[m][i] = u)
                     <=> pc'[u] = "blocked" /\ Cur(u)' = m
        <4>1. (\E i \in 1 .. Len(queue'[m]) : queue'[m][i] = u)
                <=> u = t \/ \E i \in 1 .. Len(queue[m]) : queue[m][i] = u
          BY SMTT(30), <2>4
        <4>2. (\E i \in 1 .. Len(queue[m]) : queue[m][i] = u)
                <=> pc[u] = "blocked" /\ Cur(u) = m
          BY DEF SemInv, SemConsistent
        <4> QED
          BY <1>0, <1>1, <1>2, <2>1, <4>1, <4>2
      <3>4. ASSUME NEW k \in Motors, k # m
            PROVE  /\ cnt'[k] <= 1
                   /\ Len(queue'[k]) = IF cnt'[k] < 0 THEN - cnt'[k] ELSE 0
                   /\ \A u \in Threads :
                        (\E i \in 1 .. Len(queue'[k]) : queue'[k][i] = u)
                          <=> pc'[u] = "blocked" /\ Cur(u)' = k
        BY <1>0, <1>1, <1>2, <2>1, <2>3, <3>4 DEF SemInv, SemConsistent
      <3> QED
        BY <3>2, <3>3, <3>4 DEF SemConsistent
    <2> QED
      BY <2>2, <2>7, <2>8 DEF SemInv
  <1> QED
    BY <1>1, <1>3, <1>4

(* chBSemSignalI, called by a callback or by motorLeftOff: the first of    *)
(* the queue is woken, or the counter goes up to 1 at most.                *)
LEMMA SignalKeeps ==
  ASSUME SemInv, NEW m \in Motors, Signal(m), todo' = todo
  PROVE  SemInv'
  <1>1. /\ cnt \in [Motors -> Int] /\ queue \in [Motors -> Seq(Threads)]
        /\ pc \in [Threads -> Labels] /\ cnt[m] \in Int
    BY DEF SemInv, SemTypeOK
  <1>2. \A u \in Threads : Cur(u)' = Cur(u)
    BY DEF Cur
  <1>3. /\ cnt' \in [Motors -> Int]
        /\ cnt'[m] = IF cnt[m] < 1 THEN cnt[m] + 1 ELSE cnt[m]
        /\ \A k \in Motors : k # m => cnt'[k] = cnt[k]
    BY <1>1 DEF Signal
  <1>4. CASE cnt[m] >= 0
    <2>1. pc' = pc /\ queue' = queue
      BY <1>1, <1>4 DEF Signal
    <2>2. SemTypeOK' /\ QueuedOnce'
      BY <1>3, <2>1 DEF SemInv, SemTypeOK, QueuedOnce
    <2>3. cnt[m] <= 1 /\ Len(queue[m]) = 0
      BY <1>1, <1>4 DEF SemInv, SemConsistent
    <2>4. /\ cnt'[m] <= 1
          /\ Len(queue'[m]) = IF cnt'[m] < 0 THEN - cnt'[m] ELSE 0
      BY <1>1, <1>3, <1>4, <2>1, <2>3
    <2>5. SemConsistent'
      BY <1>2, <1>3, <2>1, <2>4 DEF SemInv, SemConsistent
    <2> QED
      BY <2>2, <2>5 DEF SemInv
  <1>5. CASE cnt[m] < 0
    <2>1. Len(queue[m]) = - cnt[m] /\ queue[m] \in Seq(Threads)
      BY <1>1, <1>5 DEF SemInv, SemConsistent
    <2>2. queue[m] # <<>> /\ Len(queue[m]) > 0 /\ Len(queue[m]) \in Nat
      BY <1>1, <1>5, <2>1
    <2>3. PICK h \in Threads : h = Head(queue[m]) /\ h = queue[m][1]
      BY <2>1, <2>2
    <2>4. /\ pc' = [pc EXCEPT ![h] = "on1"]
          /\ queue' = [queue EXCEPT ![m] = Tail(@)]
      BY <1>1, <1>5, <2>3 DEF Signal
    <2>5. /\ queue'[m] = Tail(queue[m]) /\ queue'[m] \in Seq(Threads)
          /\ Len(queue'[m]) = Len(queue[m]) - 1
          /\ \A i \in 1 .. Len(queue[m]) - 1 : queue'[m][i] = queue[m][i + 1]
          /\ \A k \in Motors : k # m => queue'[k] = queue[k]
      BY <1>1, <2>1, <2>2, <2>4
    <2>6. pc[h] = "blocked" /\ Cur(h) = m
      BY <2>2, <2>3 DEF SemInv, SemConsistent
    <2>7. SemTypeOK'
      <3>1. queue' \in [Motors -> Seq(Threads)]
        BY <1>1, <2>4, <2>5
      <3>2. pc' \in [Threads -> Labels]
        BY <1>1, <2>4 DEF Labels
      <3> QED
        BY <1>3, <3>1, <3>2 DEF SemInv, SemTypeOK
    <2>8. QueuedOnce'
      <3>1. ASSUME NEW i \in 1 .. Len(queue'[m]), NEW j \in 1 .. Len(queue'[m]),
                   queue'[m][i] = queue'[m][j]
            PROVE  i = j
        <4>1. /\ i \in 1 .. Len(queue[m]) - 1 /\ i + 1 \in 1 .. Len(queue[m])
              /\ j \in 1 .. Len(queue[m]) - 1 /\ j + 1 \in 1 .. Len(queue[m])
          BY <2>2, <2>5
        <4>2. queue[m][i + 1] = queue[m][j + 1]
          BY <2>5, <3>1, <4>1
        <4>3. i + 1 = j + 1
          BY <4>1, <4>2 DEF SemInv, QueuedOnce
        <4> QED
          BY <4>3
      <3> QED
        BY <2>5, <3>1 DEF SemInv, QueuedOnce
    <2>9. ASSUME NEW u \in Threads
          PROVE  (\E i \in 1 .. Len(queue'[m]) : queue'[m][i] = u)
                   <=> pc'[u] = "blocked" /\ Cur(u)' = m
      <3>1. (\E i \in 1 .. Len(queue[m]) : queue[m][i] = u)
              <=> pc[u] = "blocked" /\ Cur(u) = m
        BY DEF SemInv, SemConsistent
      <3>2. CASE u = h
        <4>1. \A i \in 1 .. Len(queue[m]) - 1 : queue[m][i + 1] # h
          BY <2>2, <2>3 DEF SemInv, QueuedOnce
        <4> QED
          BY <1>1, <2>4, <2>5, <3>2, <4>1
      <3>3. CASE u # h
        <4>1. ASSUME NEW i \in 1 .. Len(queue[m]), queue[m][i] = u
              PROVE  \E j \in 1 .. Len(queue'[m]) : queue'[m][j] = u
          <5>1. i # 1 /\ i - 1 \in 1 .. Len(queue[m]) - 1
            BY <2>2, <2>3, <3>3, <4>1
          <5> QED
            BY <2>5, <4>1, <5>1
        <4>2. ASSUME NEW j \in 1 .. Len(queue'[m]), queue'[m][j] = u
              PROVE  \E i \in 1 .. Len(queue[m]) : queue[m][i] = u
          BY <2>2, <2>5, <4>2
        <4> QED
          BY <1>1, <1>2, <2>4, <3>1, <3>3, <4>1, <4>2
      <3> QED
        BY <3>2, <3>3
    <2>10. ASSUME NEW k \in Motors, k # m
           PROVE  /\ cnt'[k] <= 1
                  /\ Len(queue'[k]) = IF cnt'[k] < 0 THEN - cnt'[k] ELSE 0
                  /\ \A u \in Threads :
                       (\E i \in 1 .. Len(queue'[k]) : queue'[k][i] = u)
                         <=> pc'[u] = "blocked" /\ Cur(u)' = k
      BY <1>1, <1>2, <1>3, <2>4, <2>5, <2>6, <2>10 DEF SemInv, SemConsistent
    <2>11. /\ cnt'[m] <= 1
           /\ Len(queue'[m]) = IF cnt'[m] < 0 THEN - cnt'[m] ELSE 0
      BY <1>1, <1>3, <1>5, <2>1, <2>5
    <2>12. SemConsistent'
      BY <2>9, <2>10, <2>11 DEF SemConsistent
    <2> QED
      BY <2>7, <2>8, <2>12 DEF SemInv
  <1> QED
    BY <1>1, <1>4, <1>5

(* Every operation of the interface keeps the semaphores consistent. *)
LEMMA ApiKeeps == SemInv /\ [ApiNext]_vars => SemInv'
  <1> SUFFICES ASSUME SemInv, [ApiNext]_vars PROVE SemInv'
    OBVIOUS
  <1>1. ASSUME NEW t \in Threads,
               \/ \E c \in Commands, sec \in Seconds : Callback(t, c, sec)
               \/ ThreadStep(t)
        PROVE  SemInv'
    BY <1>1, CommandKeeps, WaitKeeps DEF ThreadStep
  <1>2. ASSUME NEW m \in Motors, MotorOffCallback(m) \/ MotorOff(m)
        PROVE  SemInv'
    BY <1>2, SignalKeeps DEF MotorOffCallback, MotorOff, SwitchOff, locals
  <1>3. ASSUME UNCHANGED <<pc, todo, cnt, queue>> PROVE SemInv'
    BY <1>3 DEF SemInv, SemTypeOK, QueuedOnce, SemConsistent, Cur
  <1>4. CASE Tick
    BY <1>3, <1>4 DEF Tick, locals, sem, timers
  <1>5. ASSUME NEW s \in SpeedArgs, MotorSetSpeed(s)
        PROVE  SemInv'
    BY <1>3, <1>5 DEF MotorSetSpeed, locals, sem, timers
  <1>6. CASE UNCHANGED vars
    BY <1>3, <1>6 DEF vars, locals, sem, timers
  <1> QED
    BY <1>1, <1>2, <1>4, <1>5, <1>6 DEF ApiNext, Next

(* With motorLeftOff and motorRightOff called at any time by anyone, a     *)
(* semaphore's counter still agrees with its queue and with the threads    *)
(* that sleep on it, so no thread is forgotten or woken twice.             *)
THEOREM ApiSemaphores == ApiSpec => []SemConsistent
  <1>1. Init => SemInv
    BY InitInv DEF IInv, TypeOK, CommandTypes, SemTypes, SemInv, SemTypeOK
  <1>2. SemInv => SemConsistent
    BY DEF SemInv
  <1> QED
    BY <1>1, <1>2, ApiKeeps, PTL DEF ApiSpec
=============================================================================
