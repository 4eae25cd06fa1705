----------------------------- MODULE Scheduler -----------------------------
(***************************************************************************)
(* The kernel's scheduler (chschd.c) and its mutexes with priority         *)
(* inheritance (chmtx.c): the ready list, the running thread, and for each *)
(* mutex its owner and the queue of threads that wait for it.              *)
(*                                                                         *)
(* One action is one region under the system lock, run by the current      *)
(* thread, or one interrupt.  What a thread does between two such regions  *)
(* does not matter here.  Nested mutexes are taken in ascending order, as  *)
(* users of a kernel without deadlock detection have to (the firmware      *)
(* nests none).                                                            *)
(***************************************************************************)
EXTENDS Integers, SequencesExt

CONSTANTS
  Threads,    \* the threads, idle included
  Idle,       \* the idle thread, which neither sleeps nor locks
  RealPrio,   \* p_realprio of each thread
  Mutexes,    \* numbers, in the order in which they are nested
  None

ASSUME SchedulerAssumption ==
  /\ Idle \in Threads /\ None \notin Threads /\ Mutexes \subseteq Nat
  /\ RealPrio \in [Threads -> Nat]
  /\ \A t \in Threads \ {Idle} : RealPrio[t] > RealPrio[Idle]

VARIABLES
  currp,     \* the running thread
  rlist,     \* the ready list, highest priority first
  asleep,    \* the threads that wait for something other than a mutex
  prio,      \* p_prio
  owner,     \* m_owner of each mutex
  mqueue,    \* m_queue of each mutex
  mtxlist    \* p_mtxlist of each thread: its mutexes, the last one first

vars == <<currp, rlist, asleep, prio, owner, mqueue, mtxlist>>

(* After chSysInit and the creation of the threads. *)
Init ==
  /\ currp = Idle /\ rlist = <<>> /\ asleep = Threads \ {Idle}
  /\ prio = RealPrio
  /\ owner = [m \in Mutexes |-> None]
  /\ mqueue = [m \in Mutexes |-> <<>>]
  /\ mtxlist = [t \in Threads |-> <<>>]

----------------------------------------------------------------------------
(* Thread t goes in front of the first of the threads S. *)
InsertBefore(q, t, S) ==
  LET places == {k \in DOMAIN q : q[k] \in S} IN
  InsertAt(q, IF places = {} THEN Len(q) + 1 ELSE Min(places), t)

(* Mutant: new threads are put ahead of the ones of equal priority. *)
ReadyIAhead(q, t, p) == InsertBefore(q, t, {u \in Threads : p[u] <= p[t]})

(* chSchReadyI and prio_insert: behind the threads of equal priority. *)
ReadyI(q, t, p) == InsertBefore(q, t, {u \in Threads : p[u] < p[t]})

(* chSchDoRescheduleAhead: in front of the threads of equal priority. *)
ReadyAhead(q, t, p) == InsertBefore(q, t, {u \in Threads : p[u] <= p[t]})

(* Mutant: the woken thread only becomes ready. *)
WakeupNoSwitch(q, t, p) == rlist' = ReadyI(q, t, p) /\ UNCHANGED currp

(* chSchWakeupS: a thread of higher priority runs at once. *)
WakeupS(q, t, p) ==
  IF p[t] <= p[currp]
    THEN rlist' = ReadyI(q, t, p) /\ UNCHANGED currp
    ELSE rlist' = ReadyI(q, currp, p) /\ currp' = t

(* The switch at the end of chSchGoSleepS: the first ready thread runs. *)
SwitchAway(q) == currp' = Head(q) /\ rlist' = Tail(q)

(* chSchGoSleepS for anything but a mutex: a sleep, an event, a message,   *)
(* the end of an I2C transfer while the bus is held.                       *)
GoSleep ==
  /\ currp # Idle
  /\ asleep' = asleep \cup {currp}
  /\ SwitchAway(rlist)
  /\ UNCHANGED <<prio, owner, mqueue, mtxlist>>

(* chThdYield: chSchDoYieldS. *)
Yield ==
  /\ rlist # <<>> /\ prio[Head(rlist)] >= prio[currp]
  /\ currp' = Head(rlist)
  /\ rlist' = ReadyI(Tail(rlist), currp, prio)
  /\ UNCHANGED <<asleep, prio, owner, mqueue, mtxlist>>

(* The running thread wakes t: chMsgRelease, chBSemSignal and the like. *)
Wake(t) ==
  /\ t \in asleep
  /\ asleep' = asleep \ {t}
  /\ WakeupS(rlist, t, prio)
  /\ UNCHANGED <<prio, owner, mqueue, mtxlist>>

(* The end of an interrupt: chSchIsPreemptionRequired, chSchDoReschedule.  *)
(* used: the running thread has used up its time quantum.                  *)
Preempt(q, used) ==
  IF q # <<>> /\ prio[Head(q)] >= prio[currp] + (IF used THEN 0 ELSE 1)
    THEN /\ currp' = Head(q)
         /\ rlist' = IF used THEN ReadyI(Tail(q), currp, prio)
                             ELSE ReadyAhead(Tail(q), currp, prio)
    ELSE rlist' = q /\ UNCHANGED currp

(* An interrupt that makes a thread ready, a timeout for example. *)
Interrupt(t, used) ==
  /\ t \in asleep
  /\ asleep' = asleep \ {t}
  /\ Preempt(ReadyI(rlist, t, prio), used)
  /\ UNCHANGED <<prio, owner, mqueue, mtxlist>>

(* The tick that uses up the time quantum. *)
Quantum ==
  /\ Preempt(rlist, TRUE)
  /\ UNCHANGED <<asleep, prio, owner, mqueue, mtxlist>>

----------------------------------------------------------------------------
(* The loop of chMtxLockS goes from a thread to the owner of the mutex it  *)
(* waits for, as long as that has a lower priority than the running        *)
(* thread: S holds all it comes to from there.                             *)
Followed(S) ==
  \A x \in Mutexes :
    S \cap ToSet(mqueue[x]) # {} /\ prio[owner[x]] < prio[currp] => owner[x] \in S

(* The threads the loop boosts: the least such set with the owner of m. *)
Boosted(m) ==
  {t \in Threads : \A S \in SUBSET Threads :
     /\ prio[owner[m]] < prio[currp] => owner[m] \in S
     /\ Followed(S)
     => t \in S}

(* Mutant: the thread is inserted again without dequeue. *)
RequeueTwice(q, boosted, p) ==
  LET moved == boosted \cap ToSet(q) IN
  IF moved = {} THEN q ELSE ReadyI(q, CHOOSE x \in moved : TRUE, p)

(* A boosted thread is put in its new place in the queue it is in. *)
Requeue(q, boosted, p) ==
  LET moved == boosted \cap ToSet(q) IN
  IF moved = {} THEN q
  ELSE LET t == CHOOSE x \in moved : TRUE IN ReadyI(RemoveFirst(q, t), t, p)

(* chMtxLockS *)
MtxLock(m) ==
  /\ currp # Idle
  /\ \A x \in ToSet(mtxlist[currp]) : x < m
  /\ \/ /\ owner[m] = None
        /\ owner' = [owner EXCEPT ![m] = currp]
        /\ mtxlist' = [mtxlist EXCEPT ![currp] = <<m>> \o @]
        /\ UNCHANGED <<currp, rlist, prio, mqueue>>
     \/ /\ owner[m] # None
        /\ prio' = [t \in Threads |->
             IF t \in Boosted(m) THEN prio[currp] ELSE prio[t]]
        /\ mqueue' = [x \in Mutexes |->
             LET q == Requeue(mqueue[x], Boosted(m), prio')
             IN IF x = m THEN ReadyI(q, currp, prio') ELSE q]
        /\ SwitchAway(Requeue(rlist, Boosted(m), prio'))
        /\ UNCHANGED <<owner, mtxlist>>
  /\ UNCHANGED asleep

(* Mutant: the inherited priority is kept. *)
NewPrioKept(t, rest) == prio[t]

(* The priority of t after it gave up a mutex that others wait for. *)
NewPrio(t, rest) ==
  Max({RealPrio[t]}
        \cup {prio[Head(mqueue[x])] : x \in {y \in rest : mqueue[y] # <<>>}})

(* chMtxUnlock: the mutex taken last goes to the first thread that waits   *)
(* for it.                                                                 *)
MtxUnlock ==
  /\ mtxlist[currp] # <<>>
  /\ LET m == Head(mtxlist[currp])
         rest == Tail(mtxlist[currp])
     IN \/ /\ mqueue[m] = <<>>
           /\ owner' = [owner EXCEPT ![m] = None]
           /\ mtxlist' = [mtxlist EXCEPT ![currp] = rest]
           /\ UNCHANGED <<currp, rlist, prio, mqueue>>
        \/ /\ mqueue[m] # <<>>
           /\ LET t == Head(mqueue[m]) IN
              /\ prio' = [prio EXCEPT ![currp] = NewPrio(currp, ToSet(rest))]
              /\ owner' = [owner EXCEPT ![m] = t]
              /\ mqueue' = [mqueue EXCEPT ![m] = Tail(@)]
              /\ mtxlist' = [mtxlist EXCEPT ![currp] = rest, ![t] = <<m>> \o @]
              /\ WakeupS(rlist, t, prio')
  /\ UNCHANGED asleep

Next ==
  \/ GoSleep \/ Yield \/ Quantum \/ MtxUnlock
  \/ \E t \in asleep : Wake(t) \/ \E used \in BOOLEAN : Interrupt(t, used)
  \/ \E m \in Mutexes : MtxLock(m)

Spec == Init /\ [][Next]_vars

(* A thread that runs again and again uses up its time quantum, which is   *)
(* not renewed when it is preempted.                                       *)
FairSpec == Spec /\ \A t \in Threads : SF_vars(currp = t /\ Quantum)

----------------------------------------------------------------------------
TypeOK ==
  /\ currp \in Threads /\ asleep \subseteq Threads \ {Idle}
  /\ rlist \in Seq(Threads)
  /\ prio \in [Threads -> Nat] /\ \A t \in Threads : prio[t] >= RealPrio[t]
  /\ owner \in [Mutexes -> Threads \cup {None}]
  /\ mqueue \in [Mutexes -> Seq(Threads)]
  /\ mtxlist \in [Threads -> Seq(Mutexes)]

(* The places a thread can be in, and who is there. *)
Places == ({"running", "ready", "asleep"} \X {0}) \cup ({"waiting"} \X Mutexes)
There(p) ==
  CASE p[1] = "running" -> {currp}
    [] p[1] = "ready"   -> ToSet(rlist)
    [] p[1] = "asleep"  -> asleep
    [] p[1] = "waiting" -> ToSet(mqueue[p[2]])

(* No thread is lost and none is in two queues: it runs, or is ready, or   *)
(* sleeps, or waits for one mutex, and is in its queue once; all queues    *)
(* are of their types.                                                     *)
ThreadInOnePlace ==
  /\ TypeOK
  /\ \A t \in Threads : \E p \in Places : \A q \in Places : t \in There(q) <=> q = p
  /\ IsInjective(rlist) /\ \A m \in Mutexes : IsInjective(mqueue[m])

(* Nobody who is ready has a higher priority than the thread that runs. *)
HighestRuns == \A t \in ToSet(rlist) : prio[t] <= prio[currp]

(* A thread has the highest of its own priority and those of the threads   *)
(* that wait for one of its mutexes: it inherits all it should, directly   *)
(* or along a chain, and keeps none of it when it has given the mutex up.  *)
PriorityExact ==
  \A t \in Threads :
    prio[t] = Max({RealPrio[t]} \cup
                  {prio[u] : u \in UNION {ToSet(mqueue[m]) :
                                          m \in {x \in Mutexes : owner[x] = t}}})

(* Threads of equal priority share the processor: a thread that stays      *)
(* ready and never runs is kept from it by higher priorities only.         *)
StarvedByHigherOnly ==
  \A t \in Threads :
    []<>(t \notin ToSet(rlist)) \/ <>[](prio[currp] > prio[t])
=============================================================================
