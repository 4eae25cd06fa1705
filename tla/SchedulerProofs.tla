-------------------------- MODULE SchedulerProofs --------------------------
(***************************************************************************)
(* Proofs about Scheduler, for any set of threads and of mutexes and any   *)
(* priorities.                                                             *)
(*                                                                         *)
(* The three invariants of the runs rest on each other.  That the most     *)
(* urgent thread runs needs, when a mutex is given up and the priority     *)
(* inherited from it is lost, that priorities are exact and the queues     *)
(* sorted; that the queues stay sorted when a chain of owners is boosted   *)
(* needs that the chain has one thread in each queue; and that needs that  *)
(* a thread is in one place and that mutexes are nested in order.          *)
(***************************************************************************)
EXTENDS Scheduler, SequenceTheorems, WellFoundedInduction, TLAPS

(* The threads of a queue, the most urgent first. *)
Sorted(q, p) == \A i, j \in 1 .. Len(q) : i < j => p[q[j]] <= p[q[i]]

Waiting(m) == ToSet(mqueue[m])

(* The places of a thread exclude each other. *)
InOnePlace ==
  /\ \A t \in Threads : \/ t = currp \/ t \in ToSet(rlist) \/ t \in asleep
                        \/ \E m \in Mutexes : t \in Waiting(m)
  /\ currp \notin ToSet(rlist) /\ currp \notin asleep
  /\ ToSet(rlist) \cap asleep = {}
  /\ \A m \in Mutexes : /\ currp \notin Waiting(m) /\ Idle \notin Waiting(m)
                        /\ Waiting(m) \cap ToSet(rlist) = {}
                        /\ Waiting(m) \cap asleep = {}
  /\ \A m, n \in Mutexes : m # n => Waiting(m) \cap Waiting(n) = {}
  /\ IsInjective(rlist) /\ \A m \in Mutexes : IsInjective(mqueue[m])

InOrder == Sorted(rlist, prio) /\ \A m \in Mutexes : Sorted(mqueue[m], prio)

(* PriorityExact without the maximum of a set. *)
Exact ==
  \A t \in Threads :
    /\ RealPrio[t] <= prio[t]
    /\ \A m \in Mutexes : owner[m] = t => \A u \in Waiting(m) : prio[u] <= prio[t]
    /\ \/ prio[t] = RealPrio[t]
       \/ \E m \in Mutexes : owner[m] = t /\ \E u \in Waiting(m) : prio[u] = prio[t]

(* m_owner and p_mtxlist agree, and nobody waits for a free mutex. *)
Held ==
  /\ \A t \in Threads, m \in Mutexes : owner[m] = t <=> m \in ToSet(mtxlist[t])
  /\ \A t \in Threads : IsInjective(mtxlist[t])
  /\ \A m \in Mutexes : owner[m] = None => Waiting(m) = {}

(* Who waits for a mutex holds smaller ones only. *)
Nested ==
  \A m, x \in Mutexes : \A t \in Waiting(m) : owner[x] = t => x < m

IInv ==
  /\ TypeOK /\ InOnePlace /\ InOrder /\ HighestRuns /\ Exact /\ Held /\ Nested

----------------------------------------------------------------------------
(* A set of natural numbers has a least element, Min; a bounded one has a  *)
(* greatest, Max.                                                          *)
LEMMA LeastNat ==
  ASSUME NEW S \in SUBSET Nat, S # {}
  PROVE  \E x \in S : \A y \in S : x <= y
<1>1. PICK x \in S : \A y \in S : ~ (<<y, x>> \in OpToRel(<, Nat))
  BY NatLessThanWellFounded, WFMin
<1>2. \A y \in S : ~ (y < x)
  BY <1>1 DEF OpToRel
<1> QED
  BY <1>2

LEMMA MinIs ==
  ASSUME NEW S \in SUBSET Nat, S # {}
  PROVE  Min(S) \in S /\ \A y \in S : Min(S) <= y
BY LeastNat DEF Min

LEMMA MaxIs ==
  ASSUME NEW S \in SUBSET Nat, S # {}, NEW b \in Nat, \A y \in S : y <= b
  PROVE  Max(S) \in S /\ \A y \in S : y <= Max(S)
<1> DEFINE T == {z \in Nat : \E y \in S : z = b - y}
<1>1. T \in SUBSET Nat /\ \A y \in S : b - y \in T
  OBVIOUS
<1>2. PICK z \in T : \A y \in T : z <= y
  BY <1>1, LeastNat
<1>3. PICK x \in S : z = b - x
  BY <1>2
<1>4. \A y \in S : x >= y
  BY <1>2, <1>3
<1> QED
  BY <1>4 DEF Max

(* The maximum of a set is the element that bounds it. *)
LEMMA MaxUnique ==
  ASSUME NEW S \in SUBSET Nat, NEW x \in S, \A y \in S : y <= x
  PROVE  Max(S) = x
<1>1. \A y \in S : x >= y
  OBVIOUS
<1>2. Max(S) \in S /\ \A y \in S : Max(S) >= y
  BY <1>1 DEF Max
<1>3. Max(S) >= x /\ x >= Max(S) /\ Max(S) \in Nat /\ x \in Nat
  BY <1>1, <1>2
<1> QED
  BY <1>3

----------------------------------------------------------------------------
(* The elements of a sequence. *)
LEMMA Elements ==
  ASSUME NEW S, NEW q \in Seq(S)
  PROVE  /\ Len(q) \in Nat /\ DOMAIN q = 1 .. Len(q) /\ ToSet(q) \subseteq S
         /\ \A t \in ToSet(q) : \E i \in 1 .. Len(q) : q[i] = t
         /\ \A i \in 1 .. Len(q) : q[i] \in S /\ q[i] \in ToSet(q)
         /\ q = <<>> <=> ToSet(q) = {}
<1>1. Len(q) \in Nat /\ DOMAIN q = 1 .. Len(q)
  OBVIOUS
<1>2. \A t \in ToSet(q) : \E i \in 1 .. Len(q) : q[i] = t
  BY <1>1 DEF ToSet
<1>3. \A i \in 1 .. Len(q) : q[i] \in S /\ q[i] \in ToSet(q)
  BY <1>1 DEF ToSet
<1>4. ToSet(q) \subseteq S
  BY <1>2, <1>3
<1>5. q = <<>> <=> Len(q) = 0
  BY EmptySeq
<1>6. q = <<>> <=> ToSet(q) = {}
  <2>1. CASE Len(q) = 0
    BY <1>2, <1>5, <2>1
  <2>2. CASE Len(q) # 0
    <3>1. 1 \in 1 .. Len(q)
      BY <1>1, <2>2
    <3> QED
      BY <1>3, <1>5, <2>2, <3>1
  <2> QED
    BY <2>1, <2>2
<1> QED
  BY <1>1, <1>2, <1>3, <1>4, <1>6

(* Where InsertBefore puts a thread. *)
LEMMA Insertion ==
  ASSUME NEW q \in Seq(Threads), NEW t \in Threads, NEW S
  PROVE  LET r == InsertBefore(q, t, S) IN
         /\ r \in Seq(Threads) /\ Len(r) = Len(q) + 1
         /\ \E k \in 1 .. Len(q) + 1 :
              /\ r[k] = t
              /\ \A i \in 1 .. Len(q) : i < k => r[i] = q[i] /\ q[i] \notin S
              /\ \A i \in 1 .. Len(q) : i >= k => r[i + 1] = q[i]
              /\ k <= Len(q) => q[k] \in S
<1> DEFINE places == {k \in DOMAIN q : q[k] \in S}
           k == IF places = {} THEN Len(q) + 1 ELSE Min(places)
           r == InsertBefore(q, t, S)
           a == SubSeq(q, 1, k - 1)
           b == SubSeq(q, k, Len(q))
<1>1. Len(q) \in Nat /\ DOMAIN q = 1 .. Len(q)
  OBVIOUS
<1>2. /\ k \in 1 .. Len(q) + 1
      /\ \A i \in 1 .. Len(q) : i < k => q[i] \notin S
      /\ k <= Len(q) => q[k] \in S
  <2>1. CASE places = {}
    BY <1>1, <2>1
  <2>2. CASE places # {}
    <3>1. places \in SUBSET Nat
      BY <1>1
    <3>2. k \in places /\ \A y \in places : k <= y
      BY <2>2, <3>1, MinIs
    <3> HIDE DEF k
    <3>3. k \in 1 .. Len(q) /\ q[k] \in S
      BY <1>1, <3>2
    <3>4. \A i \in 1 .. Len(q) : i < k => q[i] \notin S
      BY <1>1, <3>2, <3>3
    <3> QED
      BY <1>1, <3>3, <3>4
  <2> QED
    BY <2>1, <2>2
<1>3. r = a \o <<t>> \o b
  BY DEF InsertBefore, InsertAt
<1> HIDE DEF k, r
<1>4. /\ a \in Seq(Threads) /\ Len(a) = k - 1
      /\ \A i \in 1 .. k - 1 : a[i] = q[i]
  <2>1. k - 1 \in Int /\ \A i \in 1 .. k - 1 : q[i] \in Threads
    BY <1>1, <1>2
  <2> QED
    BY <1>2, <2>1, SubSeqProperties
<1>5. /\ b \in Seq(Threads) /\ Len(b) = Len(q) + 1 - k
      /\ \A i \in 1 .. Len(q) + 1 - k : b[i] = q[k + i - 1]
  <2>1. k \in Int /\ Len(q) \in Int /\ \A i \in k .. Len(q) : q[i] \in Threads
    BY <1>1, <1>2
  <2> QED
    BY <1>1, <1>2, <2>1, SubSeqProperties
<1> HIDE DEF a, b
<1> DEFINE c == a \o <<t>>
<1>6. /\ c \in Seq(Threads) /\ Len(c) = k /\ c[k] = t
      /\ \A i \in 1 .. k - 1 : c[i] = q[i]
  <2>1. <<t>> \in Seq(Threads) /\ Len(<<t>>) = 1 /\ <<t>>[1] = t
    OBVIOUS
  <2>2. /\ c \in Seq(Threads) /\ Len(c) = Len(a) + Len(<<t>>)
        /\ \A i \in 1 .. Len(a) + Len(<<t>>) :
             c[i] = IF i <= Len(a) THEN a[i] ELSE <<t>>[i - Len(a)]
    BY <1>4, <2>1, ConcatProperties, Zenon
  <2> HIDE DEF c
  <2>3. k \in Nat /\ Len(a) + Len(<<t>>) = k /\ k \in 1 .. k /\ k - Len(a) = 1
        /\ ~(k <= Len(a))
    <3>1. k \in Nat /\ k >= 1
      BY <1>1, <1>2
    <3>2. Len(a) = k - 1 /\ Len(<<t>>) = 1
      BY <1>4, <2>1
    <3> QED
      BY <3>1, <3>2
  <2>4. c[k] = t
    BY <2>1, <2>2, <2>3
  <2>5. \A i \in 1 .. k - 1 : c[i] = q[i]
    BY <1>4, <2>2, <2>3
  <2> QED
    BY <2>2, <2>3, <2>4, <2>5
<1>11. r = c \o b
  BY <1>3
<1> HIDE DEF c
<1>7. /\ r \in Seq(Threads) /\ Len(r) = Len(q) + 1
      /\ \A i \in 1 .. k : r[i] = c[i]
      /\ \A i \in k + 1 .. Len(q) + 1 : r[i] = b[i - k]
  <2>1. /\ c \o b \in Seq(Threads) /\ Len(c \o b) = Len(c) + Len(b)
        /\ \A i \in 1 .. Len(c) + Len(b) :
             (c \o b)[i] = IF i <= Len(c) THEN c[i] ELSE b[i - Len(c)]
    BY <1>5, <1>6, ConcatProperties, Zenon
  <2>2. k \in Nat /\ k <= Len(q) + 1 /\ Len(c) + Len(b) = Len(q) + 1
    BY <1>1, <1>2, <1>5, <1>6
  <2> QED
    BY <1>1, <1>6, <1>11, <2>1, <2>2
<1>8. r[k] = t /\ \A i \in 1 .. Len(q) : i < k => r[i] = q[i]
  <2>1. k \in 1 .. k /\ \A i \in 1 .. Len(q) : i < k => i \in 1 .. k /\ i \in 1 .. k - 1
    BY <1>1, <1>2
  <2> QED
    BY <1>6, <1>7, <2>1
<1>9. \A i \in 1 .. Len(q) : i >= k => r[i + 1] = q[i]
  <2> SUFFICES ASSUME NEW i \in 1 .. Len(q), i >= k PROVE r[i + 1] = q[i]
    OBVIOUS
  <2>1. i + 1 \in k + 1 .. Len(q) + 1 /\ i + 1 - k \in 1 .. Len(q) + 1 - k
        /\ k + (i + 1 - k) - 1 = i
    BY <1>1, <1>2
  <2>2. b[i + 1 - k] = q[k + (i + 1 - k) - 1]
    BY <1>5, <2>1
  <2>3. r[i + 1] = b[i + 1 - k]
    <3>1. \A j \in k + 1 .. Len(q) + 1 : r[j] = b[j - k]
      BY <1>7
    <3>2. k \in Int /\ Len(q) \in Int /\ i \in Int
      BY <1>1, <1>2
    <3> QED
      BY <2>1, <3>1, <3>2
  <2> QED
    BY <2>1, <2>2, <2>3
<1> QED
  BY <1>2, <1>7, <1>8, <1>9 DEF r

(* A priority function. *)
Prios == [Threads -> Nat]

(* prio_insert: the queue has one thread more, once, in its place. *)
LEMMA InsertKeeps ==
  ASSUME NEW q \in Seq(Threads), NEW t \in Threads, t \notin ToSet(q),
         NEW p \in Prios, NEW S,
         \A u \in Threads : (u \in S => p[u] <= p[t]) /\ (u \notin S => p[t] <= p[u]),
         IsInjective(q), Sorted(q, p)
  PROVE  LET r == InsertBefore(q, t, S) IN
         /\ r \in Seq(Threads) /\ ToSet(r) = ToSet(q) \cup {t}
         /\ IsInjective(r) /\ Sorted(r, p)
<1> DEFINE r == InsertBefore(q, t, S)
<1>1. r \in Seq(Threads) /\ Len(r) = Len(q) + 1
  BY Insertion
<1>2. PICK k \in 1 .. Len(q) + 1 :
        /\ r[k] = t
        /\ \A i \in 1 .. Len(q) : i < k => r[i] = q[i] /\ q[i] \notin S
        /\ \A i \in 1 .. Len(q) : i >= k => r[i + 1] = q[i]
        /\ k <= Len(q) => q[k] \in S
  BY SMTT(30), Insertion
<1> HIDE DEF r
<1>3. Len(q) \in Nat /\ DOMAIN q = 1 .. Len(q) /\ DOMAIN r = 1 .. Len(q) + 1
      /\ \A i \in 1 .. Len(q) : q[i] \in Threads
  BY <1>1, Elements
<1>8. /\ \A u \in ToSet(q) : \E i \in 1 .. Len(q) : q[i] = u
      /\ \A i \in 1 .. Len(q) : q[i] \in ToSet(q)
  BY Elements
<1>9. /\ \A u \in ToSet(r) : \E i \in 1 .. Len(q) + 1 : r[i] = u
      /\ \A i \in 1 .. Len(q) + 1 : r[i] \in ToSet(r)
  BY <1>1, Elements
<1>4. ASSUME NEW i \in 1 .. Len(q) + 1
      PROVE  \/ i < k /\ i \in 1 .. Len(q) /\ r[i] = q[i]
             \/ i = k /\ r[i] = t
             \/ i > k /\ i - 1 \in 1 .. Len(q) /\ i - 1 >= k /\ r[i] = q[i - 1]
  <2>1. CASE i < k
    BY <1>2, <1>3, <2>1
  <2>2. CASE i = k
    BY <1>2, <2>2
  <2>3. CASE i > k
    <3>1. i - 1 \in 1 .. Len(q) /\ i - 1 >= k /\ (i - 1) + 1 = i
      BY <1>2, <1>3, <2>3
    <3> QED
      BY <1>2, <2>3, <3>1
  <2> QED
    BY <1>3, <2>1, <2>2, <2>3
<1>5. ToSet(r) = ToSet(q) \cup {t}
  <2>1. ASSUME NEW i \in 1 .. Len(q) PROVE q[i] \in ToSet(r)
    <3>1. i \in 1 .. Len(q) + 1 /\ i + 1 \in 1 .. Len(q) + 1 /\ (i < k \/ i >= k)
      BY <1>3
    <3>2. q[i] = r[i] \/ q[i] = r[i + 1]
      BY <1>2, <3>1
    <3> QED
      BY <1>9, <3>1, <3>2
  <2>2. t \in ToSet(r)
    BY <1>2, <1>9
  <2>3. \A i \in 1 .. Len(q) + 1 : r[i] = t \/ r[i] \in ToSet(q)
    BY <1>4, <1>8
  <2> QED
    BY <1>8, <1>9, <2>1, <2>2, <2>3
<1>6. IsInjective(r)
  <2>1. \A i, j \in 1 .. Len(q) : q[i] = q[j] => i = j
    BY <1>3 DEF IsInjective
  <2>2. \A i \in 1 .. Len(q) : q[i] # t
    BY <1>8
  <2> SUFFICES ASSUME NEW i \in 1 .. Len(q) + 1, NEW j \in 1 .. Len(q) + 1, r[i] = r[j]
               PROVE  i = j
    BY <1>3 DEF IsInjective
  <2>3. i \in Int /\ j \in Int /\ k \in Int
    BY <1>3
  <2> QED
    BY SMTT(30), <1>4, <2>1, <2>2, <2>3
<1>7. Sorted(r, p)
  <2> SUFFICES ASSUME NEW i \in 1 .. Len(q) + 1, NEW j \in 1 .. Len(q) + 1, i < j
               PROVE  p[r[j]] <= p[r[i]]
    BY <1>1 DEF Sorted
  <2>1. \A x, y \in 1 .. Len(q) : x < y => p[q[y]] <= p[q[x]]
    BY DEF Sorted
  <2>2. \A x \in 1 .. Len(q) : p[q[x]] \in Nat /\ p[t] \in Nat
    BY <1>3 DEF Prios
  <2>3. \A x \in 1 .. Len(q) : x < k => p[t] <= p[q[x]]
    BY <1>2, <1>3
  <2>4. \A x \in 1 .. Len(q) : x >= k => p[q[x]] <= p[t]
    <3> SUFFICES ASSUME NEW x \in 1 .. Len(q), x >= k PROVE p[q[x]] <= p[t]
      OBVIOUS
    <3>1. k \in 1 .. Len(q) /\ k <= Len(q)
      BY <1>2, <1>3
    <3>2. p[q[k]] <= p[t] /\ q[k] \in Threads
      BY <1>2, <1>3, <3>1
    <3>3. k = x \/ p[q[x]] <= p[q[k]]
      BY <1>3, <2>1, <3>1
    <3> QED
      BY <2>2, <3>1, <3>2, <3>3
  <2>5. CASE i < k /\ j < k
    BY <1>4, <2>1, <2>5
  <2>6. CASE i < k /\ j = k
    BY <1>4, <2>3, <2>6
  <2>7. CASE i < k /\ j > k
    <3>1. r[i] = q[i] /\ i \in 1 .. Len(q) /\ r[j] = q[j - 1] /\ j - 1 \in 1 .. Len(q)
          /\ j - 1 >= k
      BY <1>4, <2>7
    <3>2. p[t] <= p[q[i]] /\ p[q[j - 1]] <= p[t]
      BY <2>3, <2>4, <2>7, <3>1
    <3> QED
      BY <2>2, <3>1, <3>2
  <2>8. CASE i = k /\ j > k
    <3>1. r[i] = t /\ r[j] = q[j - 1] /\ j - 1 \in 1 .. Len(q) /\ j - 1 >= k
      BY <1>4, <2>8
    <3> QED
      BY <2>4, <3>1
  <2>9. CASE i > k /\ j > k
    <3>1. /\ r[i] = q[i - 1] /\ i - 1 \in 1 .. Len(q)
          /\ r[j] = q[j - 1] /\ j - 1 \in 1 .. Len(q) /\ i - 1 < j - 1
      BY <1>4, <2>9
    <3> QED
      BY <2>1, <3>1
  <2> QED
    BY <1>3, <2>5, <2>6, <2>7, <2>8, <2>9
<1> QED
  BY <1>1, <1>5, <1>6, <1>7 DEF r

(* chSchReadyI and chSchDoRescheduleAhead put a thread in its place. *)
LEMMA ReadyKeeps ==
  ASSUME NEW q \in Seq(Threads), NEW t \in Threads, t \notin ToSet(q),
         NEW p \in Prios, IsInjective(q), Sorted(q, p),
         NEW r \in {ReadyI(q, t, p), ReadyAhead(q, t, p)}
  PROVE  /\ r \in Seq(Threads) /\ ToSet(r) = ToSet(q) \cup {t}
         /\ IsInjective(r) /\ Sorted(r, p)
<1> DEFINE S1 == {u \in Threads : p[u] < p[t]}
           S2 == {u \in Threads : p[u] <= p[t]}
<1>0. \A u \in Threads : p[u] \in Nat
  BY DEF Prios
<1>1. \A u \in Threads : (u \in S1 => p[u] <= p[t]) /\ (u \notin S1 => p[t] <= p[u])
  BY <1>0
<1>2. \A u \in Threads : (u \in S2 => p[u] <= p[t]) /\ (u \notin S2 => p[t] <= p[u])
  BY <1>0
<1> HIDE DEF S1, S2
<1>3. r = InsertBefore(q, t, S1) \/ r = InsertBefore(q, t, S2)
  BY DEF ReadyI, ReadyAhead, S1, S2
<1>4. CASE r = InsertBefore(q, t, S1)
  BY <1>1, <1>4, InsertKeeps
<1>5. CASE r = InsertBefore(q, t, S2)
  BY <1>2, <1>5, InsertKeeps
<1> QED
  BY <1>3, <1>4, <1>5

(* What dequeue takes out of a queue. *)
LEMMA Removal ==
  ASSUME NEW q \in Seq(Threads), NEW t \in ToSet(q)
  PROVE  LET r == RemoveFirst(q, t) IN
         /\ r \in Seq(Threads) /\ Len(r) = Len(q) - 1 /\ Len(q) >= 1
         /\ \E k \in 1 .. Len(q) :
              /\ q[k] = t
              /\ \A i \in 1 .. Len(q) - 1 : r[i] = IF i < k THEN q[i] ELSE q[i + 1]
<1> DEFINE places == {i \in 1 .. Len(q) : q[i] = t}
           k == Min(places)
           r == RemoveFirst(q, t)
           a == SubSeq(q, 1, k - 1)
           b == SubSeq(q, k + 1, Len(q))
<1>1. Len(q) \in Nat /\ \A i \in 1 .. Len(q) : q[i] \in Threads
  BY Elements
<1>2. \E i \in 1 .. Len(q) : q[i] = t
  BY Elements
<1>3. places # {} /\ places \in SUBSET Nat
  BY <1>1, <1>2
<1>4. k \in places
  BY <1>3, MinIs
<1>5. r = a \o b
  BY <1>2, <1>3 DEF RemoveFirst, RemoveAt, SelectInSeq
<1> HIDE DEF k, r
<1>6. k \in 1 .. Len(q) /\ q[k] = t /\ k \in Int
  BY <1>1, <1>4
<1>7. /\ a \in Seq(Threads) /\ Len(a) = k - 1
      /\ \A i \in 1 .. k - 1 : a[i] = q[i]
  <2>1. k - 1 \in Int /\ \A i \in 1 .. k - 1 : q[i] \in Threads
    BY <1>1, <1>6
  <2> QED
    BY <1>6, <2>1, SubSeqProperties
<1>8. /\ b \in Seq(Threads) /\ Len(b) = Len(q) - k
      /\ \A i \in 1 .. Len(q) - k : b[i] = q[k + i]
  <2>1. k + 1 \in Int /\ Len(q) \in Int /\ \A i \in k + 1 .. Len(q) : q[i] \in Threads
    BY <1>1, <1>6
  <2> QED
    BY <1>1, <1>6, <2>1, SubSeqProperties
<1> HIDE DEF a, b
<1>9. /\ r \in Seq(Threads) /\ Len(r) = Len(a) + Len(b)
      /\ \A i \in 1 .. Len(a) + Len(b) : r[i] = IF i <= Len(a) THEN a[i] ELSE b[i - Len(a)]
  BY <1>5, <1>7, <1>8, ConcatProperties
<1>10. Len(a) = k - 1 /\ Len(b) = Len(q) - k /\ Len(a) + Len(b) = Len(q) - 1
       /\ Len(q) \in Int
  BY <1>1, <1>6, <1>7, <1>8
<1>11. ASSUME NEW i \in 1 .. Len(q) - 1
       PROVE  r[i] = IF i < k THEN q[i] ELSE q[i + 1]
  <2>1. r[i] = IF i <= k - 1 THEN a[i] ELSE b[i - (k - 1)]
    BY <1>9, <1>10
  <2>2. CASE i < k
    BY <1>1, <1>6, <1>7, <2>1, <2>2
  <2>3. CASE i >= k
    <3>1. i - (k - 1) \in 1 .. Len(q) - k /\ k + (i - (k - 1)) = i + 1 /\ ~(i <= k - 1)
      BY <1>1, <1>6, <2>3
    <3>2. b[i - (k - 1)] = q[k + (i - (k - 1))]
      BY <1>8, <3>1
    <3> QED
      BY <1>6, <2>1, <2>3, <3>1, <3>2
  <2> QED
    BY <1>1, <1>6, <2>2, <2>3
<1> QED
  BY <1>1, <1>6, <1>9, <1>10, <1>11 DEF r

LEMMA RemoveKeeps ==
  ASSUME NEW q \in Seq(Threads), NEW t \in ToSet(q), IsInjective(q),
         NEW p, Sorted(q, p), NEW n, \A u \in ToSet(q) \ {t} : n[u] = p[u]
  PROVE  LET r == RemoveFirst(q, t) IN
         /\ r \in Seq(Threads) /\ ToSet(r) = ToSet(q) \ {t}
         /\ IsInjective(r) /\ Sorted(r, n)
<1> DEFINE r == RemoveFirst(q, t)
<1>1. r \in Seq(Threads) /\ Len(r) = Len(q) - 1 /\ Len(q) >= 1
  BY Removal
<1>2. PICK k \in 1 .. Len(q) :
        /\ q[k] = t
        /\ \A i \in 1 .. Len(q) - 1 : r[i] = IF i < k THEN q[i] ELSE q[i + 1]
  BY Removal
<1> HIDE DEF r
<1>3. Len(q) \in Nat /\ DOMAIN q = 1 .. Len(q) /\ DOMAIN r = 1 .. Len(q) - 1
  BY <1>1, Elements
<1>4. /\ \A u \in ToSet(q) : \E i \in 1 .. Len(q) : q[i] = u
      /\ \A i \in 1 .. Len(q) : q[i] \in ToSet(q)
  BY Elements
<1>5. /\ \A u \in ToSet(r) : \E i \in 1 .. Len(q) - 1 : r[i] = u
      /\ \A i \in 1 .. Len(q) - 1 : r[i] \in ToSet(r)
  BY <1>1, Elements
<1>6. \A i, j \in 1 .. Len(q) : q[i] = q[j] => i = j
  BY <1>3 DEF IsInjective
(* Where the i-th of the rest was. *)
<1> DEFINE was(i) == IF i < k THEN i ELSE i + 1
<1>7. /\ \A i \in 1 .. Len(q) - 1 : was(i) \in 1 .. Len(q) /\ was(i) # k /\ r[i] = q[was(i)]
      /\ \A i, j \in 1 .. Len(q) - 1 : (i < j => was(i) < was(j)) /\ (was(i) = was(j) => i = j)
      /\ \A j \in 1 .. Len(q) : j # k => \E i \in 1 .. Len(q) - 1 : was(i) = j
  <2>1. k \in Int /\ Len(q) \in Int
    BY <1>3
  <2>2. \A i \in 1 .. Len(q) - 1 : was(i) \in 1 .. Len(q) /\ was(i) # k /\ r[i] = q[was(i)]
    BY <1>2, <2>1
  <2>3. \A i, j \in 1 .. Len(q) - 1 :
          (i < j => was(i) < was(j)) /\ (was(i) = was(j) => i = j)
    BY <2>1
  <2>4. ASSUME NEW j \in 1 .. Len(q), j # k
        PROVE  \E i \in 1 .. Len(q) - 1 : was(i) = j
    <3>1. CASE j < k
      <4>1. j \in 1 .. Len(q) - 1 /\ was(j) = j
        BY <2>1, <3>1
      <4> QED
        BY <4>1
    <3>2. CASE j > k
      <4>1. j - 1 \in 1 .. Len(q) - 1 /\ was(j - 1) = j
        BY <2>1, <3>2
      <4> QED
        BY <4>1
    <3> QED
      BY <2>1, <2>4, <3>1, <3>2
  <2> QED
    BY <2>2, <2>3, <2>4
<1> HIDE DEF was
<1>8. ToSet(r) = ToSet(q) \ {t}
  <2>1. \A u \in ToSet(r) : u \in ToSet(q) \ {t}
    BY <1>2, <1>4, <1>5, <1>6, <1>7
  <2>2. ASSUME NEW u \in ToSet(q) \ {t} PROVE u \in ToSet(r)
    <3>1. PICK j \in 1 .. Len(q) : q[j] = u
      BY <1>4
    <3>2. PICK i \in 1 .. Len(q) - 1 : was(i) = j
      BY <1>2, <1>7, <3>1
    <3> QED
      BY <1>5, <1>7, <3>1, <3>2
  <2> QED
    BY <2>1, <2>2
<1>9. IsInjective(r)
  <2> SUFFICES ASSUME NEW i \in 1 .. Len(q) - 1, NEW j \in 1 .. Len(q) - 1, r[i] = r[j]
               PROVE  i = j
    BY <1>3 DEF IsInjective
  <2>1. /\ was(i) \in 1 .. Len(q) /\ was(j) \in 1 .. Len(q)
        /\ q[was(i)] = q[was(j)]
    BY <1>7
  <2>2. was(i) = was(j)
    BY <1>6, <2>1
  <2> QED
    BY <1>7, <2>2
<1>10. Sorted(r, n)
  <2> SUFFICES ASSUME NEW i \in 1 .. Len(q) - 1, NEW j \in 1 .. Len(q) - 1, i < j
               PROVE  n[r[j]] <= n[r[i]]
    BY <1>1 DEF Sorted
  <2>1. p[q[was(j)]] <= p[q[was(i)]]
    BY <1>7 DEF Sorted
  <2>2. n[r[i]] = p[r[i]] /\ n[r[j]] = p[r[j]]
    BY <1>5, <1>8
  <2> QED
    BY <1>7, <2>1, <2>2
<1> QED
  BY <1>1, <1>8, <1>9, <1>10 DEF r

(* A boosted thread is moved within its queue: the threads are the same,   *)
(* and sorted by their new priorities, when it is the only one in it.      *)
LEMMA RequeueKeeps ==
  ASSUME NEW q \in Seq(Threads), IsInjective(q), NEW p, Sorted(q, p),
         NEW B, \A a, b \in B \cap ToSet(q) : a = b,
         NEW n \in Prios, \A u \in Threads : u \notin B => n[u] = p[u]
  PROVE  LET r == Requeue(q, B, n) IN
         /\ r \in Seq(Threads) /\ ToSet(r) = ToSet(q)
         /\ IsInjective(r) /\ Sorted(r, n)
<1>1. ToSet(q) \subseteq Threads /\ \A i \in 1 .. Len(q) : q[i] \in ToSet(q)
  BY Elements
<1>2. CASE B \cap ToSet(q) = {}
  <2>1. Requeue(q, B, n) = q
    BY <1>2 DEF Requeue
  <2>2. \A u \in ToSet(q) : n[u] = p[u]
    BY <1>1, <1>2
  <2>3. Sorted(q, n)
    BY <1>1, <2>2 DEF Sorted
  <2> QED
    BY <2>1, <2>3
<1>3. CASE B \cap ToSet(q) # {}
  <2> DEFINE t == CHOOSE x \in B \cap ToSet(q) : TRUE
             r == RemoveFirst(q, t)
  <2>1. Requeue(q, B, n) = ReadyI(r, t, n)
    BY <1>3 DEF Requeue
  <2>2. t \in B \cap ToSet(q)
    BY <1>3
  <2> HIDE DEF t
  <2>3. \A u \in ToSet(q) \ {t} : n[u] = p[u]
    BY <1>1, <2>2
  <2>4. /\ r \in Seq(Threads) /\ ToSet(r) = ToSet(q) \ {t}
        /\ IsInjective(r) /\ Sorted(r, n)
    BY <2>2, <2>3, RemoveKeeps
  <2> HIDE DEF r
  <2>5. t \in Threads /\ t \notin ToSet(r)
    BY <1>1, <2>2, <2>4
  <2> DEFINE s == ReadyI(r, t, n)
  <2>6. /\ s \in Seq(Threads) /\ ToSet(s) = ToSet(r) \cup {t}
        /\ IsInjective(s) /\ Sorted(s, n)
    BY <2>4, <2>5, ReadyKeeps
  <2> HIDE DEF s
  <2>7. ToSet(s) = ToSet(q)
    BY <2>2, <2>4, <2>6
  <2> QED
    BY <2>1, <2>6, <2>7 DEF s
<1> QED
  BY <1>2, <1>3

(* The first of a sequence is taken out. *)
LEMMA Popped ==
  ASSUME NEW S, NEW q \in Seq(S), q # <<>>, IsInjective(q)
  PROVE  /\ Len(q) >= 1 /\ Head(q) = q[1] /\ Head(q) \in ToSet(q) /\ Head(q) \in S
         /\ Tail(q) \in Seq(S) /\ Len(Tail(q)) = Len(q) - 1
         /\ \A i \in 1 .. Len(q) - 1 : Tail(q)[i] = q[i + 1]
         /\ ToSet(Tail(q)) = ToSet(q) \ {Head(q)} /\ IsInjective(Tail(q))
<1> DEFINE r == Tail(q)
<1>1. /\ Len(q) \in Nat /\ DOMAIN q = 1 .. Len(q) /\ Len(q) >= 1
      /\ \A i \in 1 .. Len(q) : q[i] \in S
  <2>1. Len(q) \in Nat \ {0}
    BY EmptySeq
  <2> QED
    BY <2>1, Elements
<1>2. /\ r \in Seq(S) /\ Len(r) = Len(q) - 1
      /\ \A i \in 1 .. Len(q) - 1 : r[i] = q[i + 1]
  BY HeadTailProperties
<1>3. Head(q) = q[1] /\ 1 \in 1 .. Len(q)
  BY <1>1
<1> HIDE DEF r
<1>4. /\ \A u \in ToSet(q) : \E i \in 1 .. Len(q) : q[i] = u
      /\ \A i \in 1 .. Len(q) : q[i] \in ToSet(q)
  BY Elements
<1>5. /\ \A u \in ToSet(r) : \E i \in 1 .. Len(q) - 1 : r[i] = u
      /\ \A i \in 1 .. Len(q) - 1 : r[i] \in ToSet(r)
  BY <1>2, Elements
<1>6. \A i, j \in 1 .. Len(q) : q[i] = q[j] => i = j
  BY <1>1 DEF IsInjective
<1>7. /\ \A i \in 1 .. Len(q) - 1 : i + 1 \in 1 .. Len(q) /\ i + 1 # 1
      /\ \A i \in 1 .. Len(q) : i # 1 => i - 1 \in 1 .. Len(q) - 1 /\ (i - 1) + 1 = i
      /\ \A i, j \in 1 .. Len(q) - 1 : i + 1 = j + 1 => i = j
  BY <1>1
<1>8. ToSet(r) = ToSet(q) \ {Head(q)}
  <2>1. \A u \in ToSet(r) : u \in ToSet(q) \ {Head(q)}
    BY <1>2, <1>3, <1>4, <1>5, <1>6, <1>7
  <2>2. ASSUME NEW u \in ToSet(q) \ {Head(q)} PROVE u \in ToSet(r)
    <3>1. PICK i \in 1 .. Len(q) : q[i] = u
      BY <1>4
    <3>2. i # 1
      BY <1>3, <3>1
    <3>3. i - 1 \in 1 .. Len(q) - 1 /\ (i - 1) + 1 = i
      BY <1>7, <3>2
    <3>4. r[i - 1] = u
      BY <1>2, <3>1, <3>3
    <3> QED
      BY <1>5, <3>3, <3>4
  <2> QED
    BY <2>1, <2>2
<1>9. IsInjective(r)
  <2>1. DOMAIN r = 1 .. Len(q) - 1
    BY <1>2
  <2> QED
    BY <1>2, <1>6, <1>7, <2>1 DEF IsInjective
<1> QED
  BY <1>1, <1>2, <1>3, <1>4, <1>8, <1>9 DEF r

(* A new first element. *)
LEMMA Pushed ==
  ASSUME NEW S, NEW q \in Seq(S), NEW x \in S, x \notin ToSet(q), IsInjective(q)
  PROVE  LET r == <<x>> \o q IN
         r \in Seq(S) /\ ToSet(r) = ToSet(q) \cup {x} /\ IsInjective(r)
<1> DEFINE r == <<x>> \o q
<1>1. /\ Len(q) \in Nat /\ DOMAIN q = 1 .. Len(q)
      /\ \A u \in ToSet(q) : \E i \in 1 .. Len(q) : q[i] = u
      /\ \A i \in 1 .. Len(q) : q[i] \in ToSet(q)
  BY Elements
<1>2. <<x>> \in Seq(S) /\ Len(<<x>>) = 1 /\ <<x>>[1] = x
  OBVIOUS
<1>3. /\ r \in Seq(S) /\ Len(r) = Len(<<x>>) + Len(q)
      /\ \A i \in 1 .. Len(<<x>>) + Len(q) :
           r[i] = IF i <= Len(<<x>>) THEN <<x>>[i] ELSE q[i - Len(<<x>>)]
  BY <1>2, ConcatProperties, Zenon
<1> HIDE DEF r
<1>4. /\ r \in Seq(S) /\ Len(r) = Len(q) + 1 /\ DOMAIN r = 1 .. Len(q) + 1
      /\ 1 \in 1 .. Len(q) + 1 /\ r[1] = x
      /\ \A i \in 1 .. Len(q) : i + 1 \in 1 .. Len(q) + 1 /\ r[i + 1] = q[i]
      /\ \A i \in 1 .. Len(q) + 1 :
           i = 1 \/ (i - 1 \in 1 .. Len(q) /\ r[i] = q[i - 1] /\ i \in Int)
  <2>1. r \in Seq(S) /\ Len(r) = Len(q) + 1 /\ DOMAIN r = 1 .. Len(q) + 1
    BY <1>1, <1>2, <1>3
  <2>2. \A i \in 1 .. Len(q) + 1 : r[i] = IF i <= 1 THEN <<x>>[i] ELSE q[i - 1]
    BY <1>1, <1>2, <1>3
  <2>3. /\ 1 \in 1 .. Len(q) + 1 /\ 1 <= 1
        /\ \A i \in 1 .. Len(q) : i + 1 \in 1 .. Len(q) + 1 /\ ~(i + 1 <= 1) /\ i + 1 - 1 = i
        /\ \A i \in 1 .. Len(q) + 1 :
             i = 1 \/ (i - 1 \in 1 .. Len(q) /\ ~(i <= 1) /\ i \in Int)
    BY <1>1
  <2>4. r[1] = x
    BY <1>2, <2>2, <2>3
  <2>5. \A i \in 1 .. Len(q) : r[i + 1] = q[i]
    BY <2>2, <2>3
  <2> QED
    BY <2>1, <2>2, <2>3, <2>4, <2>5
<1>5. /\ \A u \in ToSet(r) : \E i \in 1 .. Len(q) + 1 : r[i] = u
      /\ \A i \in 1 .. Len(q) + 1 : r[i] \in ToSet(r)
  BY <1>4, Elements
<1>6. ToSet(r) = ToSet(q) \cup {x}
  <2>1. \A u \in ToSet(r) : u \in ToSet(q) \cup {x}
    BY <1>1, <1>4, <1>5
  <2>2. \A u \in ToSet(q) : u \in ToSet(r)
    BY <1>1, <1>4, <1>5
  <2> QED
    BY <1>4, <1>5, <2>1, <2>2
<1>7. IsInjective(r)
  <2>1. \A i, j \in 1 .. Len(q) : q[i] = q[j] => i = j
    BY <1>1 DEF IsInjective
  <2> SUFFICES ASSUME NEW i \in 1 .. Len(q) + 1, NEW j \in 1 .. Len(q) + 1, r[i] = r[j]
               PROVE  i = j
    BY <1>4 DEF IsInjective
  <2>2. i = 1 \/ j = 1 \/ i - 1 = j - 1
    BY <1>1, <1>4, <2>1
  <2>3. i \in Int /\ j \in Int
    BY <1>1
  <2>4. i = 1 <=> j = 1
    BY <1>1, <1>4
  <2> QED
    BY <2>2, <2>3, <2>4
<1> QED
  BY <1>4, <1>6, <1>7 DEF r

(* The first of a queue is its most urgent thread. *)
LEMMA FirstOut ==
  ASSUME NEW q \in Seq(Threads), q # <<>>, IsInjective(q), NEW p \in Prios, Sorted(q, p)
  PROVE  /\ Head(q) \in ToSet(q) /\ Head(q) \in Threads
         /\ \A u \in ToSet(q) : p[u] <= p[Head(q)]
         /\ Tail(q) \in Seq(Threads) /\ ToSet(Tail(q)) = ToSet(q) \ {Head(q)}
         /\ IsInjective(Tail(q)) /\ Sorted(Tail(q), p)
<1> DEFINE r == Tail(q)
<1>1. /\ Len(q) \in Nat /\ Len(q) >= 1 /\ Head(q) = q[1] /\ q[1] \in Threads
      /\ \A u \in ToSet(q) : \E i \in 1 .. Len(q) : q[i] = u
  BY Elements, Popped
<1>2. Len(r) = Len(q) - 1 /\ \A i \in 1 .. Len(q) - 1 : r[i] = q[i + 1]
  BY Popped
<1> HIDE DEF r
<1>3. \A u \in ToSet(q) : p[u] <= p[Head(q)]
  <2>1. \A i \in 1 .. Len(q) : p[q[i]] <= p[q[1]]
    <3> SUFFICES ASSUME NEW i \in 1 .. Len(q) PROVE p[q[i]] <= p[q[1]]
      OBVIOUS
    <3>1. 1 \in 1 .. Len(q) /\ (i = 1 \/ 1 < i)
      BY <1>1
    <3>2. p[q[1]] \in Nat
      BY <1>1 DEF Prios
    <3> QED
      BY <3>1, <3>2 DEF Sorted
  <2> QED
    BY <1>1, <2>1
<1>4. Sorted(r, p)
  <2>1. /\ \A i \in 1 .. Len(q) - 1 : i + 1 \in 1 .. Len(q)
        /\ \A i, j \in 1 .. Len(q) - 1 : i < j => i + 1 < j + 1
    BY <1>1
  <2> QED
    BY <1>2, <2>1 DEF Sorted
<1> QED
  BY <1>3, <1>4, Popped DEF r

(* A queue stays sorted when the priorities of its threads do not change. *)
LEMMA SortedSame ==
  ASSUME NEW q \in Seq(Threads), NEW p, Sorted(q, p), NEW n,
         \A u \in ToSet(q) : n[u] = p[u]
  PROVE  Sorted(q, n)
<1>1. \A i \in 1 .. Len(q) : q[i] \in ToSet(q)
  BY Elements
<1> QED
  BY <1>1 DEF Sorted

----------------------------------------------------------------------------
(* What the invariant says of the types. *)
LEMMA Facts ==
  ASSUME IInv
  PROVE  /\ currp \in Threads /\ Idle \in Threads /\ None \notin Threads
         /\ asleep \subseteq Threads \ {Idle}
         /\ prio \in Prios /\ \A t \in Threads : prio[t] \in Nat
         /\ rlist \in Seq(Threads) /\ ToSet(rlist) \subseteq Threads
         /\ \A m \in Mutexes : /\ mqueue[m] \in Seq(Threads)
                               /\ Waiting(m) \subseteq Threads
                               /\ owner[m] \in Threads \cup {None}
                               /\ m \in Nat
<1>1. /\ currp \in Threads /\ asleep \subseteq Threads \ {Idle} /\ prio \in Prios
      /\ rlist \in Seq(Threads) /\ mqueue \in [Mutexes -> Seq(Threads)]
      /\ owner \in [Mutexes -> Threads \cup {None}]
  BY DEF IInv, TypeOK, Prios
<1>2. Idle \in Threads /\ None \notin Threads /\ \A m \in Mutexes : m \in Nat
  BY SchedulerAssumption
<1>3. \A t \in Threads : prio[t] \in Nat
  BY <1>1 DEF Prios
<1>4. ToSet(rlist) \subseteq Threads
  BY <1>1, Elements
<1>5. \A m \in Mutexes : mqueue[m] \in Seq(Threads)
  BY <1>1
<1>6. \A m \in Mutexes : Waiting(m) \subseteq Threads
  BY <1>5, Elements DEF Waiting
<1> QED
  BY <1>1, <1>2, <1>3, <1>4, <1>5, <1>6

(* The idle thread is ready whenever another one runs. *)
LEMMA IdleReady ==
  ASSUME IInv, currp # Idle
  PROVE  Idle \in ToSet(rlist) /\ rlist # <<>>
<1>1. Idle \in ToSet(rlist)
  BY Facts DEF IInv, InOnePlace
<1> QED
  BY <1>1, Facts, Elements

(* After a switch the threads S run or are ready, the most urgent by p     *)
(* runs, and the ready list is sorted.                                     *)
Switched(S, p) ==
  /\ currp' \in Threads /\ rlist' \in Seq(Threads)
  /\ {currp'} \cup ToSet(rlist') = S /\ currp' \notin ToSet(rlist')
  /\ IsInjective(rlist') /\ Sorted(rlist', p)
  /\ \A u \in ToSet(rlist') : p[u] <= p[currp']

(* The switch of chSchGoSleepS. *)
LEMMA AwaySwitches ==
  ASSUME NEW q \in Seq(Threads), q # <<>>, IsInjective(q),
         NEW p \in Prios, Sorted(q, p), SwitchAway(q)
  PROVE  Switched(ToSet(q), p)
BY FirstOut DEF SwitchAway, Switched

(* chSchWakeupS *)
LEMMA WakeupSwitches ==
  ASSUME NEW q \in Seq(Threads), IsInjective(q), NEW p \in Prios, Sorted(q, p),
         currp \in Threads, currp \notin ToSet(q),
         NEW t \in Threads, t \notin ToSet(q), t # currp,
         \A u \in ToSet(q) : p[u] <= p[currp] \/ p[u] <= p[t],
         WakeupS(q, t, p)
  PROVE  Switched(ToSet(q) \cup {currp, t}, p)
<1>0. ToSet(q) \subseteq Threads /\ \A u \in Threads : p[u] \in Nat
  BY Elements DEF Prios
<1>1. CASE p[t] <= p[currp]
  <2>1. rlist' = ReadyI(q, t, p) /\ currp' = currp
    BY <1>1 DEF WakeupS
  <2>2. /\ rlist' \in Seq(Threads) /\ ToSet(rlist') = ToSet(q) \cup {t}
        /\ IsInjective(rlist') /\ Sorted(rlist', p)
    BY <2>1, ReadyKeeps
  <2>3. \A u \in ToSet(q) \cup {t} : p[u] <= p[currp]
    BY <1>0, <1>1
  <2> QED
    BY <2>1, <2>2, <2>3 DEF Switched
<1>2. CASE ~(p[t] <= p[currp])
  <2>1. rlist' = ReadyI(q, currp, p) /\ currp' = t
    BY <1>2 DEF WakeupS
  <2>2. /\ rlist' \in Seq(Threads) /\ ToSet(rlist') = ToSet(q) \cup {currp}
        /\ IsInjective(rlist') /\ Sorted(rlist', p)
    BY <2>1, ReadyKeeps
  <2>3. \A u \in ToSet(q) \cup {currp} : p[u] <= p[t]
    BY <1>0, <1>2
  <2> QED
    BY <2>1, <2>2, <2>3 DEF Switched
<1> QED
  BY <1>1, <1>2

(* The end of an interrupt, with q the ready list by then. *)
LEMMA PreemptSwitches ==
  ASSUME NEW q \in Seq(Threads), IsInjective(q), prio \in Prios, Sorted(q, prio),
         currp \in Threads, currp \notin ToSet(q),
         NEW used \in BOOLEAN, Preempt(q, used)
  PROVE  Switched(ToSet(q) \cup {currp}, prio)
<1> DEFINE more == IF used THEN 0 ELSE 1
<1>0. /\ ToSet(q) \subseteq Threads /\ \A u \in Threads : prio[u] \in Nat
      /\ q = <<>> => ToSet(q) = {}
  BY Elements DEF Prios
<1>1. CASE q # <<>> /\ prio[Head(q)] >= prio[currp] + more
  <2>1. /\ Head(q) \in ToSet(q) /\ \A u \in ToSet(q) : prio[u] <= prio[Head(q)]
        /\ Tail(q) \in Seq(Threads) /\ ToSet(Tail(q)) = ToSet(q) \ {Head(q)}
        /\ IsInjective(Tail(q)) /\ Sorted(Tail(q), prio)
    BY <1>1, FirstOut
  <2>2. /\ currp' = Head(q)
        /\ rlist' \in {ReadyI(Tail(q), currp, prio), ReadyAhead(Tail(q), currp, prio)}
    BY <1>1 DEF Preempt
  <2>3. /\ rlist' \in Seq(Threads) /\ ToSet(rlist') = ToSet(Tail(q)) \cup {currp}
        /\ IsInjective(rlist') /\ Sorted(rlist', prio)
    <3>1. currp \notin ToSet(Tail(q))
      BY <2>1
    <3> DEFINE rest == Tail(q)
    <3>2. /\ rest \in Seq(Threads) /\ IsInjective(rest) /\ Sorted(rest, prio)
          /\ currp \notin ToSet(rest)
          /\ rlist' \in {ReadyI(rest, currp, prio), ReadyAhead(rest, currp, prio)}
      BY <2>1, <2>2, <3>1
    <3> HIDE DEF rest
    <3>3. /\ rlist' \in Seq(Threads) /\ ToSet(rlist') = ToSet(rest) \cup {currp}
          /\ IsInjective(rlist') /\ Sorted(rlist', prio)
      BY <3>2, ReadyKeeps
    <3> QED
      BY <3>3 DEF rest
  <2>4. prio[currp] <= prio[Head(q)]
    BY <1>0, <1>1, <2>1
  <2> QED
    BY <1>0, <2>1, <2>2, <2>3, <2>4 DEF Switched
<1>2. CASE ~(q # <<>> /\ prio[Head(q)] >= prio[currp] + more)
  <2>1. rlist' = q /\ currp' = currp
    BY <1>2 DEF Preempt
  <2>2. ASSUME NEW u \in ToSet(q) PROVE prio[u] <= prio[currp]
    <3>1. q # <<>>
      BY <1>0, <2>2
    <3>2. Head(q) \in ToSet(q) /\ prio[u] <= prio[Head(q)]
      BY <3>1, FirstOut
    <3>3. ~(prio[Head(q)] >= prio[currp] + more) /\ more \in {0, 1}
      BY <1>2, <3>1
    <3> HIDE DEF more
    <3>4. prio[Head(q)] \in Nat /\ prio[currp] \in Nat /\ prio[u] \in Nat
      BY <1>0, <3>2
    <3> QED
      BY <3>2, <3>3, <3>4
  <2> QED
    BY <2>1, <2>2 DEF Switched
<1> QED
  BY <1>1, <1>2

(* A step of the scheduler that has nothing to do with mutexes. *)
LEMMA SwitchKeeps ==
  ASSUME IInv, UNCHANGED <<prio, owner, mqueue, mtxlist>>,
         NEW S, Switched(S, prio), asleep' \subseteq Threads \ {Idle},
         S \cap asleep' = {},
         S \cup asleep' = {currp} \cup ToSet(rlist) \cup asleep
  PROVE  IInv'
<1>1. \A m \in Mutexes : Waiting(m)' = Waiting(m)
  BY DEF Waiting
<1>2. TypeOK'
  BY DEF IInv, TypeOK, Switched
<1>3. InOnePlace'
  <2>1. /\ currp' \notin ToSet(rlist') /\ currp' \notin asleep'
        /\ ToSet(rlist') \cap asleep' = {}
        /\ {currp'} \cup ToSet(rlist') \cup asleep' = {currp} \cup ToSet(rlist) \cup asleep
    BY DEF Switched
  <2>2. \A m \in Mutexes : /\ currp' \notin Waiting(m) /\ Idle \notin Waiting(m)
                           /\ Waiting(m) \cap ToSet(rlist') = {}
                           /\ Waiting(m) \cap asleep' = {}
    BY <2>1 DEF IInv, InOnePlace
  <2>3. \A t \in Threads : \/ t = currp' \/ t \in ToSet(rlist') \/ t \in asleep'
                           \/ \E m \in Mutexes : t \in Waiting(m)
    BY <2>1 DEF IInv, InOnePlace
  <2>4. /\ \A m, n \in Mutexes : m # n => Waiting(m) \cap Waiting(n) = {}
        /\ IsInjective(rlist') /\ \A m \in Mutexes : IsInjective(mqueue'[m])
    BY DEF IInv, InOnePlace, Switched
  <2> QED
    BY <1>1, <2>1, <2>2, <2>3, <2>4 DEF InOnePlace
<1>4. InOrder' /\ HighestRuns'
  BY DEF IInv, InOrder, HighestRuns, Switched
<1>5. Exact' /\ Held' /\ Nested'
  BY <1>1 DEF IInv, Exact, Held, Nested
<1> QED
  BY <1>2, <1>3, <1>4, <1>5 DEF IInv

LEMMA GoSleepKeeps == ASSUME IInv, GoSleep PROVE IInv'
<1>1. Switched(ToSet(rlist), prio)
  BY Facts, IdleReady, AwaySwitches DEF GoSleep, IInv, InOnePlace, InOrder
<1>2. asleep' = asleep \cup {currp} /\ currp # Idle
      /\ UNCHANGED <<prio, owner, mqueue, mtxlist>>
  BY DEF GoSleep
<1>3. ToSet(rlist) \cap asleep' = {}
  BY <1>2 DEF IInv, InOnePlace
<1> QED
  BY <1>1, <1>2, <1>3, Facts, SwitchKeeps

LEMMA YieldKeeps == ASSUME IInv, Yield PROVE IInv'
<1>1. /\ rlist # <<>> /\ currp' = Head(rlist)
      /\ rlist' = ReadyI(Tail(rlist), currp, prio)
      /\ prio[Head(rlist)] >= prio[currp]
      /\ UNCHANGED <<asleep, prio, owner, mqueue, mtxlist>>
  BY DEF Yield
<1>2. /\ Head(rlist) \in ToSet(rlist)
      /\ \A u \in ToSet(rlist) : prio[u] <= prio[Head(rlist)]
      /\ Tail(rlist) \in Seq(Threads) /\ ToSet(Tail(rlist)) = ToSet(rlist) \ {Head(rlist)}
      /\ IsInjective(Tail(rlist)) /\ Sorted(Tail(rlist), prio)
  BY <1>1, Facts, FirstOut DEF IInv, InOnePlace, InOrder
<1>3. currp \notin ToSet(rlist) /\ currp \notin asleep /\ ToSet(rlist) \cap asleep = {}
  BY DEF IInv, InOnePlace
<1>4. /\ rlist' \in Seq(Threads) /\ ToSet(rlist') = ToSet(Tail(rlist)) \cup {currp}
      /\ IsInjective(rlist') /\ Sorted(rlist', prio)
  BY <1>1, <1>2, <1>3, Facts, ReadyKeeps
<1>5. prio[currp] <= prio[Head(rlist)]
  BY <1>1, <1>2, Facts
<1>6. Switched(ToSet(rlist) \cup {currp}, prio)
  BY <1>1, <1>2, <1>3, <1>4, <1>5, Facts DEF Switched
<1> QED
  BY <1>1, <1>3, <1>6, Facts, SwitchKeeps

LEMMA WakeKeeps ==
  ASSUME IInv, NEW t \in asleep, Wake(t) PROVE IInv'
<1>1. /\ asleep' = asleep \ {t} /\ WakeupS(rlist, t, prio)
      /\ UNCHANGED <<prio, owner, mqueue, mtxlist>>
  BY DEF Wake
<1>2. /\ currp \notin ToSet(rlist) /\ currp \notin asleep
      /\ ToSet(rlist) \cap asleep = {}
      /\ IsInjective(rlist) /\ Sorted(rlist, prio)
      /\ \A u \in ToSet(rlist) : prio[u] <= prio[currp]
  BY DEF IInv, InOnePlace, InOrder, HighestRuns
<1>3. Switched(ToSet(rlist) \cup {currp, t}, prio)
  BY <1>1, <1>2, Facts, WakeupSwitches
<1> QED
  BY <1>1, <1>2, <1>3, Facts, SwitchKeeps

LEMMA InterruptKeeps ==
  ASSUME IInv, NEW t \in asleep, NEW used \in BOOLEAN, Interrupt(t, used)
  PROVE  IInv'
<1> DEFINE q == ReadyI(rlist, t, prio)
<1>1. /\ asleep' = asleep \ {t} /\ Preempt(q, used)
      /\ UNCHANGED <<prio, owner, mqueue, mtxlist>>
  BY DEF Interrupt
<1>2. /\ currp \notin ToSet(rlist) /\ currp \notin asleep
      /\ ToSet(rlist) \cap asleep = {}
      /\ IsInjective(rlist) /\ Sorted(rlist, prio)
  BY DEF IInv, InOnePlace, InOrder
<1>3. /\ q \in Seq(Threads) /\ ToSet(q) = ToSet(rlist) \cup {t}
      /\ IsInjective(q) /\ Sorted(q, prio)
  BY <1>2, Facts, ReadyKeeps
<1> HIDE DEF q
<1>4. Switched(ToSet(q) \cup {currp}, prio)
  BY <1>1, <1>2, <1>3, Facts, PreemptSwitches
<1> QED
  BY <1>1, <1>2, <1>3, <1>4, Facts, SwitchKeeps

LEMMA QuantumKeeps == ASSUME IInv, Quantum PROVE IInv'
<1>1. Preempt(rlist, TRUE) /\ UNCHANGED <<asleep, prio, owner, mqueue, mtxlist>>
  BY DEF Quantum
<1>2. /\ currp \notin ToSet(rlist) /\ currp \notin asleep
      /\ ToSet(rlist) \cap asleep = {}
      /\ IsInjective(rlist) /\ Sorted(rlist, prio)
  BY DEF IInv, InOnePlace, InOrder
<1>3. Switched(ToSet(rlist) \cup {currp}, prio)
  BY <1>1, <1>2, Facts, PreemptSwitches, TRUE \in BOOLEAN
<1> QED
  BY <1>1, <1>2, <1>3, Facts, SwitchKeeps

----------------------------------------------------------------------------
(* The chain of chMtxLockS.  Passes says what Followed says, element by    *)
(* element; Reach(y) is the rest of the chain from y on.                   *)
Passes(S) ==
  \A x \in Mutexes : \A u \in Waiting(x) :
    u \in S /\ prio[owner[x]] < prio[currp] => owner[x] \in S

Reach(y) == {t \in Threads : \A S \in SUBSET Threads : y \in S /\ Passes(S) => t \in S}

LEMMA FollowedPasses == ASSUME NEW S PROVE Followed(S) <=> Passes(S)
BY DEF Followed, Passes, Waiting

(* The start of the chain is boosted or nobody is. *)
LEMMA BoostedIs ==
  ASSUME NEW m \in Mutexes
  PROVE  /\ prio[owner[m]] < prio[currp] => Boosted(m) = Reach(owner[m])
         /\ ~(prio[owner[m]] < prio[currp]) => Boosted(m) = {}
<1>1. Boosted(m) = {t \in Threads : \A S \in SUBSET Threads :
        (prio[owner[m]] < prio[currp] => owner[m] \in S) /\ Passes(S) => t \in S}
  BY FollowedPasses DEF Boosted
<1>2. CASE prio[owner[m]] < prio[currp]
  BY <1>1, <1>2 DEF Reach
<1>3. CASE ~(prio[owner[m]] < prio[currp])
  <2>1. {} \in SUBSET Threads /\ Passes({})
    BY DEF Passes
  <2> QED
    BY <1>1, <1>3, <2>1
<1> QED
  BY <1>2, <1>3

(* A set that the chain does not leave has all that can be reached. *)
LEMMA ReachWithin ==
  ASSUME NEW y, NEW S \in SUBSET Threads, y \in S, Passes(S)
  PROVE  Reach(y) \subseteq S
BY DEF Reach

(* One step of the chain. *)
LEMMA ReachNext ==
  ASSUME IInv, NEW x \in Mutexes, NEW y \in Waiting(x),
         NEW a \in Reach(y), a # y
  PROVE  a \in Reach(owner[x])
<1>1. a \in Threads /\ y \in Threads
  BY Facts DEF Reach
<1> SUFFICES ASSUME NEW S \in SUBSET Threads, owner[x] \in S, Passes(S) PROVE a \in S
  BY <1>1 DEF Reach
<1>2. Passes(S \cup {y})
  <2> SUFFICES ASSUME NEW z \in Mutexes, NEW u \in Waiting(z), u \in S \cup {y},
                      prio[owner[z]] < prio[currp]
               PROVE  owner[z] \in S
    BY DEF Passes
  <2>1. CASE u \in S
    BY <2>1 DEF Passes
  <2>2. CASE u = y
    BY <2>2 DEF IInv, InOnePlace
  <2> QED
    BY <2>1, <2>2
<1>3. S \cup {y} \in SUBSET Threads /\ y \in S \cup {y}
  BY <1>1
<1>4. a \in S \cup {y}
  BY <1>2, <1>3 DEF Reach
<1> QED
  BY <1>4

(* The threads past x in the chain: they hold x or a mutex after it. *)
Past(x) == {y \in Threads : \E z \in Mutexes : owner[z] = y /\ x <= z}

LEMMA PastPasses ==
  ASSUME IInv, NEW x \in Mutexes
  PROVE  /\ Passes(Past(x)) /\ Waiting(x) \cap Past(x) = {}
         /\ \A z \in Mutexes : \A u \in Waiting(z) : u \in Past(x) \/ z = x =>
              owner[z] \in Past(x)
<1>1. \A z \in Mutexes : z \in Nat
  BY Facts
<1>2. \A z \in Mutexes : Waiting(z) # {} => owner[z] \in Threads
  BY Facts DEF IInv, Held
<1>3. ASSUME NEW z \in Mutexes, NEW u \in Waiting(z), u \in Past(x) \/ z = x
      PROVE  owner[z] \in Past(x)
  <2>1. x <= z
    <3>1. CASE u \in Past(x)
      <4>1. PICK w \in Mutexes : owner[w] = u /\ x <= w
        BY <3>1 DEF Past
      <4>2. w < z
        BY <4>1 DEF IInv, Nested
      <4> QED
        BY <1>1, <4>1, <4>2
    <3>2. CASE z = x
      BY <1>1, <3>2
    <3> QED
      BY <1>3, <3>1, <3>2
  <2> QED
    BY <1>2, <2>1 DEF Past
<1>4. Passes(Past(x))
  BY <1>3 DEF Passes
<1>5. ASSUME NEW u \in Waiting(x), u \in Past(x) PROVE FALSE
  <2>1. PICK w \in Mutexes : owner[w] = u /\ x <= w
    BY <1>5 DEF Past
  <2>2. w < x
    BY <2>1 DEF IInv, Nested
  <2> QED
    BY <1>1, <2>1, <2>2
<1> QED
  BY <1>3, <1>4, <1>5

(* The chain has one thread in each queue. *)
LEMMA OneInQueue ==
  ASSUME IInv, NEW m \in Mutexes, owner[m] # None, NEW x \in Mutexes,
         NEW a \in Boosted(m) \cap Waiting(x), NEW b \in Boosted(m) \cap Waiting(x)
  PROVE  a = b
<1> SUFFICES ASSUME a # b PROVE FALSE
  OBVIOUS
<1>1. Boosted(m) = Reach(owner[m]) /\ owner[m] \in Threads
  BY BoostedIs, Facts
<1> DEFINE S == {y \in Threads : a \in Reach(y) \/ y \in Past(x)}
<1>2. Passes(S)
  <2> SUFFICES ASSUME NEW z \in Mutexes, NEW y \in Waiting(z), y \in S,
                      prio[owner[z]] < prio[currp]
               PROVE  owner[z] \in S
    BY DEF Passes
  <2>0. owner[z] \in Threads
    BY Facts DEF IInv, Held
  <2>1. CASE y \in Past(x)
    BY <2>0, <2>1, PastPasses
  <2>2. CASE a \in Reach(y) /\ a = y
    <3>1. z = x
      BY <2>2 DEF IInv, InOnePlace
    <3> QED
      BY <2>0, <3>1, PastPasses
  <2>3. CASE a \in Reach(y) /\ a # y
    BY <2>0, <2>3, ReachNext
  <2> QED
    BY <2>1, <2>2, <2>3
<1>3. S \in SUBSET Threads /\ owner[m] \in S
  BY <1>1
<1>4. b \in S
  BY <1>1, <1>2, <1>3, ReachWithin
<1>5. a \in Reach(b)
  BY <1>4, PastPasses
<1>6. a \in Reach(owner[x])
  BY <1>5, ReachNext
<1>7. owner[x] \in Past(x) /\ Past(x) \in SUBSET Threads /\ Passes(Past(x))
  BY PastPasses DEF Past
<1>8. a \in Past(x)
  BY <1>6, <1>7, ReachWithin
<1> QED
  BY <1>8, PastPasses

(* It ends at the first thread that does not wait for a mutex. *)
LEMMA OneOutside ==
  ASSUME IInv, NEW m \in Mutexes, owner[m] # None,
         NEW a \in Boosted(m), NEW b \in Boosted(m),
         \A x \in Mutexes : a \notin Waiting(x) /\ b \notin Waiting(x)
  PROVE  a = b
<1>1. Boosted(m) = Reach(owner[m]) /\ owner[m] \in Threads
  BY BoostedIs, Facts
<1> DEFINE S == {y \in Threads : a \in Reach(y)}
<1>2. Passes(S)
  <2> SUFFICES ASSUME NEW z \in Mutexes, NEW y \in Waiting(z), y \in S,
                      prio[owner[z]] < prio[currp]
               PROVE  owner[z] \in S
    BY DEF Passes
  <2>1. owner[z] \in Threads
    BY Facts DEF IInv, Held
  <2>2. a # y
    OBVIOUS
  <2> QED
    BY <2>1, <2>2, ReachNext
<1>3. S \in SUBSET Threads /\ owner[m] \in S
  BY <1>1
<1>4. a \in Reach(b)
  BY <1>1, <1>2, <1>3, ReachWithin
<1>5. {b} \in SUBSET Threads /\ Passes({b})
  BY <1>1 DEF Passes, Reach
<1> QED
  BY <1>4, <1>5, ReachWithin

(* Who is boosted: less urgent threads, with all the owners that the       *)
(* boosted ones wait for and that are less urgent, and no others.          *)
LEMMA BoostFacts ==
  ASSUME IInv, NEW m \in Mutexes, owner[m] # None
  PROVE  /\ \A t \in Boosted(m) : t \in Threads /\ prio[t] < prio[currp]
         /\ prio[owner[m]] < prio[currp] => owner[m] \in Boosted(m)
         /\ Passes(Boosted(m))
         /\ \A t \in Boosted(m) : \/ t = owner[m]
                                  \/ \E x \in Mutexes :
                                       owner[x] = t /\ Boosted(m) \cap Waiting(x) # {}
<1> DEFINE o == owner[m]
<1>1. o \in Threads /\ \A x \in Mutexes : Waiting(x) # {} => owner[x] \in Threads
  BY Facts DEF IInv, Held
<1>2. CASE ~(prio[o] < prio[currp])
  BY <1>2, BoostedIs DEF Passes
<1>3. CASE prio[o] < prio[currp]
  <2>1. Boosted(m) = Reach(o)
    BY <1>3, BoostedIs
  <2>2. Reach(o) \subseteq {t \in Threads : prio[t] < prio[currp]}
    <3> DEFINE S == {t \in Threads : prio[t] < prio[currp]}
    <3>1. S \in SUBSET Threads /\ o \in S /\ Passes(S)
      BY <1>1, <1>3 DEF Passes
    <3> QED
      BY <3>1, ReachWithin
  <2>3. o \in Reach(o)
    BY <1>1 DEF Reach
  <2>4. Passes(Reach(o))
    <3> SUFFICES ASSUME NEW x \in Mutexes, NEW u \in Waiting(x), u \in Reach(o),
                        prio[owner[x]] < prio[currp]
                 PROVE  owner[x] \in Reach(o)
      BY DEF Passes
    <3> QED
      BY <1>1 DEF Reach, Passes
  <2>5. ASSUME NEW t \in Reach(o), t # o,
               \A x \in Mutexes : owner[x] = t => Reach(o) \cap Waiting(x) = {}
        PROVE  FALSE
    <3> DEFINE S == Reach(o) \ {t}
    <3>1. S \in SUBSET Threads /\ o \in S
      BY <2>3, <2>5 DEF Reach
    <3>2. Passes(S)
      BY <2>4, <2>5 DEF Passes
    <3> QED
      BY <3>1, <3>2, ReachWithin
  <2> QED
    BY <2>1, <2>2, <2>3, <2>4, <2>5
<1> QED
  BY <1>2, <1>3

LEMMA InitInv == Init => IInv
<1> SUFFICES ASSUME Init PROVE IInv
  OBVIOUS
<1>1. /\ currp = Idle /\ rlist = <<>> /\ asleep = Threads \ {Idle} /\ prio = RealPrio
      /\ owner = [m \in Mutexes |-> None]
      /\ mqueue = [m \in Mutexes |-> <<>>]
      /\ mtxlist = [t \in Threads |-> <<>>]
  BY DEF Init
<1>2. ToSet(<<>>) = {} /\ IsInjective(<<>>) /\ \A p : Sorted(<<>>, p)
  BY DEF ToSet, IsInjective, Sorted
<1>3. \A m \in Mutexes : Waiting(m) = {} /\ mqueue[m] = <<>> /\ owner[m] = None
  BY <1>1, <1>2 DEF Waiting
<1>4. \A t \in Threads : mtxlist[t] = <<>> /\ RealPrio[t] \in Nat /\ prio[t] = RealPrio[t]
  BY <1>1, SchedulerAssumption
<1>5. TypeOK
  <2>1. \A t \in Threads : prio[t] >= RealPrio[t]
    BY <1>4
  <2> QED
    BY <1>1, <2>1, SchedulerAssumption DEF TypeOK
<1>6. InOnePlace
  BY <1>1, <1>2, <1>3, SchedulerAssumption DEF InOnePlace
<1>7. InOrder /\ HighestRuns
  BY <1>1, <1>2, <1>3 DEF InOrder, HighestRuns
<1>8. Exact
  BY <1>3, <1>4 DEF Exact
<1>9. Held /\ Nested
  BY <1>2, <1>3, <1>4, SchedulerAssumption DEF Held, Nested
<1> QED
  BY <1>5, <1>6, <1>7, <1>8, <1>9 DEF IInv

(* What the invariant says of the lists of mutexes. *)
LEMMA HeldFacts ==
  ASSUME IInv, NEW t \in Threads
  PROVE  /\ mtxlist[t] \in Seq(Mutexes) /\ IsInjective(mtxlist[t])
         /\ ToSet(mtxlist[t]) = {m \in Mutexes : owner[m] = t}
<1>1. mtxlist[t] \in Seq(Mutexes) /\ IsInjective(mtxlist[t])
  BY DEF IInv, TypeOK, Held
<1>2. ToSet(mtxlist[t]) \subseteq Mutexes
  BY <1>1, Elements
<1>3. \A m \in Mutexes : owner[m] = t <=> m \in ToSet(mtxlist[t])
  BY DEF IInv, Held
<1> QED
  BY <1>1, <1>2, <1>3

(* A step that gives a mutex nobody waits for another owner, or none.      *)
LEMMA OwnerKeeps ==
  ASSUME IInv, NEW m \in Mutexes, Waiting(m) = {},
         UNCHANGED <<currp, rlist, asleep, prio, mqueue>>,
         NEW o \in {currp, None}, owner[m] \in {currp, None},
         owner' = [owner EXCEPT ![m] = o],
         NEW l \in Seq(Mutexes), IsInjective(l),
         mtxlist' = [mtxlist EXCEPT ![currp] = l],
         ToSet(l) \ {m} = ToSet(mtxlist[currp]) \ {m}, m \in ToSet(l) <=> o = currp
  PROVE  IInv'
<1>1. /\ \A x \in Mutexes : Waiting(x)' = Waiting(x)
      /\ \A x \in Mutexes : owner'[x] = IF x = m THEN o ELSE owner[x]
      /\ \A t \in Threads : mtxlist'[t] = IF t = currp THEN l ELSE mtxlist[t]
      /\ o \in Threads \cup {None}
  BY Facts DEF IInv, TypeOK, Waiting
<1>2. TypeOK'
  <2>1. owner' \in [Mutexes -> Threads \cup {None}]
    BY <1>1 DEF IInv, TypeOK
  <2>2. mtxlist' \in [Threads -> Seq(Mutexes)]
    BY DEF IInv, TypeOK
  <2> QED
    BY <2>1, <2>2 DEF IInv, TypeOK
<1>3. InOnePlace' /\ InOrder' /\ HighestRuns'
  BY <1>1 DEF IInv, InOnePlace, InOrder, HighestRuns
<1>4. Exact'
  <2> SUFFICES ASSUME NEW t \in Threads
               PROVE  /\ RealPrio[t] <= prio[t]
                      /\ \A x \in Mutexes : owner'[x] = t =>
                           \A u \in Waiting(x) : prio[u] <= prio[t]
                      /\ \/ prio[t] = RealPrio[t]
                         \/ \E x \in Mutexes : owner'[x] = t /\
                              \E u \in Waiting(x) : prio[u] = prio[t]
    BY <1>1 DEF Exact
  <2>1. \A x \in Mutexes : Waiting(x) # {} => owner'[x] = owner[x]
    BY <1>1
  <2> QED
    BY <2>1 DEF IInv, Exact
<1>5. Held'
  <2>1. ASSUME NEW t \in Threads, NEW x \in Mutexes
        PROVE  owner'[x] = t <=> x \in ToSet(mtxlist'[t])
    <3>1. owner[x] = t <=> x \in ToSet(mtxlist[t])
      BY DEF IInv, Held
    <3>2. t # None
      BY Facts
    <3>3. CASE x # m
      BY <1>1, <3>1, <3>3
    <3>4. CASE x = m
      BY <1>1, <3>1, <3>2, <3>4
    <3> QED
      BY <3>3, <3>4
  <2>2. \A t \in Threads : IsInjective(mtxlist'[t])
    BY <1>1 DEF IInv, Held
  <2>3. \A x \in Mutexes : owner'[x] = None => Waiting(x) = {}
    BY <1>1 DEF IInv, Held
  <2> QED
    BY <1>1, <2>1, <2>2, <2>3 DEF Held
<1>6. Nested'
  <2> SUFFICES ASSUME NEW y \in Mutexes, NEW x \in Mutexes, NEW t \in Waiting(y),
                      owner'[x] = t
               PROVE  x < y
    BY <1>1 DEF Nested
  <2>1. t # currp /\ t # None
    BY Facts DEF IInv, InOnePlace
  <2>2. owner[x] = t
    BY <1>1, <2>1
  <2> QED
    BY <2>2 DEF IInv, Nested
<1> QED
  BY <1>2, <1>3, <1>4, <1>5, <1>6 DEF IInv

(* chMtxLockS on a free mutex. *)
LEMMA LockFreeKeeps ==
  ASSUME IInv, NEW m \in Mutexes, MtxLock(m), owner[m] = None
  PROVE  IInv'
<1> DEFINE l == <<m>> \o mtxlist[currp]
<1>1. /\ owner' = [owner EXCEPT ![m] = currp]
      /\ mtxlist' = [mtxlist EXCEPT ![currp] = l]
      /\ UNCHANGED <<currp, rlist, asleep, prio, mqueue>>
  BY DEF MtxLock
<1>2. /\ mtxlist[currp] \in Seq(Mutexes) /\ IsInjective(mtxlist[currp])
      /\ m \notin ToSet(mtxlist[currp])
  <2>1. currp \in Threads /\ None \notin Threads
    BY Facts
  <2> QED
    BY <2>1, HeldFacts
<1>3. l \in Seq(Mutexes) /\ ToSet(l) = ToSet(mtxlist[currp]) \cup {m} /\ IsInjective(l)
  BY <1>2, Pushed
<1> HIDE DEF l
<1>4. Waiting(m) = {}
  BY DEF IInv, Held
<1>5. ToSet(l) \ {m} = ToSet(mtxlist[currp]) \ {m} /\ m \in ToSet(l)
  BY <1>3
<1> QED
  BY <1>1, <1>3, <1>4, <1>5, OwnerKeeps

(* chMtxUnlock of a mutex nobody waits for. *)
LEMMA UnlockFreeKeeps ==
  ASSUME IInv, MtxUnlock, Waiting(Head(mtxlist[currp])) = {}
  PROVE  IInv'
<1> DEFINE m == Head(mtxlist[currp])
           l == Tail(mtxlist[currp])
<1>1. /\ mtxlist[currp] # <<>> /\ currp \in Threads
      /\ mtxlist[currp] \in Seq(Mutexes) /\ IsInjective(mtxlist[currp])
      /\ ToSet(mtxlist[currp]) = {x \in Mutexes : owner[x] = currp}
  BY Facts, HeldFacts DEF MtxUnlock
<1>2. /\ m \in ToSet(mtxlist[currp]) /\ l \in Seq(Mutexes) /\ IsInjective(l)
      /\ ToSet(l) = ToSet(mtxlist[currp]) \ {m}
  BY <1>1, Popped
<1>3. m \in Mutexes /\ owner[m] = currp
  BY <1>1, <1>2
<1>4. mqueue[m] = <<>>
  <2>1. mqueue[m] \in Seq(Threads)
    BY <1>3, Facts
  <2> QED
    BY <2>1, Elements DEF Waiting
<1>5. /\ owner' = [owner EXCEPT ![m] = None]
      /\ mtxlist' = [mtxlist EXCEPT ![currp] = l]
      /\ UNCHANGED <<currp, rlist, asleep, prio, mqueue>>
  BY <1>4 DEF MtxUnlock
<1>6. None # currp /\ Waiting(m) = {}
  BY <1>1, Facts
<1> HIDE DEF m, l
<1>7. ToSet(l) \ {m} = ToSet(mtxlist[currp]) \ {m} /\ m \notin ToSet(l)
  BY <1>2
<1> QED
  BY <1>2, <1>3, <1>5, <1>6, <1>7, OwnerKeeps

(* chMtxLockS on a mutex that is held: the running thread joins its queue, *)
(* and the chain of owners gets its priority.                              *)
LEMMA LockBlocksKeeps ==
  ASSUME IInv, NEW m \in Mutexes, MtxLock(m), owner[m] # None
  PROVE  IInv'
<1> DEFINE B == Boosted(m)
           Moved(q) == Requeue(q, B, prio')
<1>1. /\ currp # Idle /\ \A x \in ToSet(mtxlist[currp]) : x < m
      /\ prio' = [t \in Threads |-> IF t \in B THEN prio[currp] ELSE prio[t]]
      /\ mqueue' = [x \in Mutexes |->
           IF x = m THEN ReadyI(Moved(mqueue[x]), currp, prio') ELSE Moved(mqueue[x])]
      /\ SwitchAway(Moved(rlist))
      /\ UNCHANGED <<owner, mtxlist, asleep>>
  BY DEF MtxLock
<1>2. /\ prio' \in Prios /\ \A t \in Threads : prio'[t] \in Nat /\ prio[t] \in Nat
      /\ \A t \in Threads : t \in B => prio'[t] = prio[currp] /\ prio[t] < prio[currp]
      /\ \A t \in Threads : t \notin B => prio'[t] = prio[t]
      /\ \A t \in Threads : prio[t] <= prio'[t]
      /\ currp \in Threads /\ currp \notin B /\ prio'[currp] = prio[currp]
  <2>1. /\ currp \in Threads /\ \A t \in Threads : prio[t] \in Nat
        /\ \A t \in B : prio[t] < prio[currp]
    BY Facts, BoostFacts
  <2> HIDE DEF B
  <2>2. \A t \in Threads : prio'[t] = IF t \in B THEN prio[currp] ELSE prio[t]
    BY <1>1
  <2>3. prio' \in Prios
    BY <1>1, <2>1 DEF Prios
  <2>4. currp \notin B
    BY <2>1
  <2> QED
    BY <2>1, <2>2, <2>3, <2>4
<1>3. ASSUME NEW x \in Mutexes
      PROVE  /\ Moved(mqueue[x]) \in Seq(Threads) /\ ToSet(Moved(mqueue[x])) = Waiting(x)
             /\ IsInjective(Moved(mqueue[x])) /\ Sorted(Moved(mqueue[x]), prio')
  <2>1. /\ mqueue[x] \in Seq(Threads) /\ IsInjective(mqueue[x]) /\ Sorted(mqueue[x], prio)
        /\ \A a, b \in B \cap ToSet(mqueue[x]) : a = b
    BY Facts, OneInQueue DEF IInv, InOnePlace, InOrder, Waiting
  <2> HIDE DEF B
  <2> QED
    BY <1>2, <2>1, RequeueKeeps DEF Waiting
<1>4. /\ Moved(rlist) \in Seq(Threads) /\ ToSet(Moved(rlist)) = ToSet(rlist)
      /\ IsInjective(Moved(rlist)) /\ Sorted(Moved(rlist), prio')
  <2>1. /\ rlist \in Seq(Threads) /\ IsInjective(rlist) /\ Sorted(rlist, prio)
    BY Facts DEF IInv, InOnePlace, InOrder
  <2>2. \A a, b \in B \cap ToSet(rlist) : a = b
    BY OneOutside DEF IInv, InOnePlace
  <2> HIDE DEF B
  <2> QED
    BY <1>2, <2>1, <2>2, RequeueKeeps
<1> HIDE DEF Moved
<1>5. Switched(ToSet(rlist), prio')
  <2>1. Moved(rlist) # <<>>
    BY <1>1, <1>4, IdleReady, Elements
  <2> QED
    BY <1>1, <1>2, <1>4, <2>1, AwaySwitches
<1>6. \A x \in Mutexes :
        /\ mqueue'[x] \in Seq(Threads)
        /\ Waiting(x)' = IF x = m THEN Waiting(x) \cup {currp} ELSE Waiting(x)
        /\ IsInjective(mqueue'[x]) /\ Sorted(mqueue'[x], prio')
  <2>1. currp \notin ToSet(Moved(mqueue[m]))
    BY <1>3 DEF IInv, InOnePlace
  <2> DEFINE q == Moved(mqueue[m])
             r == ReadyI(q, currp, prio')
  <2>2. /\ q \in Seq(Threads) /\ ToSet(q) = Waiting(m)
        /\ IsInjective(q) /\ Sorted(q, prio') /\ currp \notin ToSet(q)
    BY <1>3, <2>1
  <2> HIDE DEF q
  <2>3. /\ r \in Seq(Threads) /\ ToSet(r) = ToSet(q) \cup {currp}
        /\ IsInjective(r) /\ Sorted(r, prio')
    BY <1>2, <2>2, ReadyKeeps
  <2> HIDE DEF r
  <2>4. mqueue'[m] = r /\ \A x \in Mutexes : x # m => mqueue'[x] = Moved(mqueue[x])
    BY <1>1 DEF q, r
  <2> QED
    BY <1>3, <2>2, <2>3, <2>4 DEF Waiting
<1>7. TypeOK'
  <2>1. mqueue' \in [Mutexes -> Seq(Threads)]
    BY <1>1, <1>6
  <2>2. \A t \in Threads : prio'[t] >= RealPrio[t]
    <3>1. \A t \in Threads : RealPrio[t] \in Nat /\ prio[t] >= RealPrio[t]
      BY SchedulerAssumption DEF IInv, TypeOK
    <3> QED
      BY <1>2, <3>1
  <2> QED
    BY <1>1, <1>2, <1>5, <2>1, <2>2 DEF IInv, TypeOK, Switched, Prios
<1>8. InOnePlace'
  <2>1. /\ currp' \in ToSet(rlist) /\ ToSet(rlist') = ToSet(rlist) \ {currp'}
        /\ asleep' = asleep /\ IsInjective(rlist')
    BY <1>1, <1>5 DEF Switched
  <2>2. \A t \in Threads : \/ t = currp' \/ t \in ToSet(rlist') \/ t \in asleep'
                           \/ \E x \in Mutexes : t \in Waiting(x)'
    BY <1>6, <2>1 DEF IInv, InOnePlace
  <2>3. /\ currp' \notin ToSet(rlist') /\ currp' \notin asleep'
        /\ ToSet(rlist') \cap asleep' = {}
    BY <2>1 DEF IInv, InOnePlace
  <2>4. \A x \in Mutexes : /\ currp' \notin Waiting(x)' /\ Idle \notin Waiting(x)'
                           /\ Waiting(x)' \cap ToSet(rlist') = {}
                           /\ Waiting(x)' \cap asleep' = {}
    BY <1>1, <1>6, <2>1 DEF IInv, InOnePlace
  <2>5. \A x, y \in Mutexes : x # y => Waiting(x)' \cap Waiting(y)' = {}
    BY <1>6 DEF IInv, InOnePlace
  <2> QED
    BY <1>6, <2>1, <2>2, <2>3, <2>4, <2>5 DEF InOnePlace
<1>9. InOrder' /\ HighestRuns'
  BY <1>5, <1>6 DEF InOrder, HighestRuns, Switched
<1>10. Exact'
  <2>0. /\ \A x \in Mutexes : Waiting(x) \subseteq Threads
        /\ prio[owner[m]] < prio[currp] => owner[m] \in B
        /\ Passes(B)
        /\ \A t \in B : t = owner[m] \/ \E x \in Mutexes :
                                         owner[x] = t /\ B \cap Waiting(x) # {}
    BY Facts, BoostFacts
  <2> HIDE DEF B
  <2> SUFFICES ASSUME NEW t \in Threads
               PROVE  /\ RealPrio[t] <= prio'[t]
                      /\ \A x \in Mutexes : owner[x] = t =>
                           \A u \in Waiting(x)' : prio'[u] <= prio'[t]
                      /\ \/ prio'[t] = RealPrio[t]
                         \/ \E x \in Mutexes : owner[x] = t /\
                              \E u \in Waiting(x)' : prio'[u] = prio'[t]
    BY <1>1 DEF Exact
  <2>1. RealPrio[t] <= prio'[t]
    <3>1. RealPrio[t] \in Nat /\ RealPrio[t] <= prio[t]
      BY SchedulerAssumption DEF IInv, Exact
    <3> QED
      BY <1>2, <3>1
  <2>2. ASSUME NEW x \in Mutexes, owner[x] = t, NEW u \in Waiting(x)'
        PROVE  prio'[u] <= prio'[t]
    <3>1. CASE x = m /\ u = currp
      <4>1. prio[t] < prio[currp] => prio'[t] = prio[currp]
        BY <1>2, <2>0, <2>2, <3>1
      <4> QED
        BY <1>2, <3>1, <4>1
    <3>2. CASE u \in Waiting(x) /\ u \notin B
      <4>1. u \in Threads /\ prio[u] <= prio[t]
        BY <2>0, <2>2, <3>2 DEF IInv, Exact
      <4> QED
        BY <1>2, <3>2, <4>1
    <3>3. CASE u \in Waiting(x) /\ u \in B
      <4>1. u \in Threads /\ (prio[t] < prio[currp] => prio'[t] = prio[currp])
        BY <1>2, <2>0, <2>2, <3>3 DEF Passes
      <4> QED
        BY <1>2, <3>3, <4>1
    <3> QED
      BY <1>6, <3>1, <3>2, <3>3
  <2>3. CASE t \in B
    <3>1. CASE t = owner[m]
      <4>1. currp \in Waiting(m)' /\ prio'[currp] = prio'[t]
        BY <1>2, <1>6, <2>3
      <4> QED
        BY <2>1, <2>2, <3>1, <4>1
    <3>2. ASSUME NEW x \in Mutexes, owner[x] = t, B \cap Waiting(x) # {}
          PROVE  \E u \in Waiting(x)' : prio'[u] = prio'[t]
      <4>1. PICK u \in B : u \in Waiting(x)
        BY <3>2
      <4>2. u \in Waiting(x)' /\ prio'[u] = prio'[t]
        BY <1>2, <1>6, <2>0, <2>3, <4>1
      <4> QED
        BY <4>2
    <3> QED
      BY <2>0, <2>1, <2>2, <2>3, <3>1, <3>2
  <2>4. CASE t \notin B
    <3>1. prio'[t] = prio[t]
      BY <1>2, <2>4
    <3>2. ASSUME NEW x \in Mutexes, owner[x] = t, NEW u \in Waiting(x), prio[u] = prio[t]
          PROVE  u \in Waiting(x)' /\ prio'[u] = prio'[t]
      <4>1. u \in Threads /\ u \in Waiting(x)'
        BY <1>6, <2>0
      <4>2. u \notin B
        BY <1>2, <2>0, <2>4, <3>2, <4>1 DEF Passes
      <4> QED
        BY <1>2, <3>1, <3>2, <4>1, <4>2
    <3>3. \/ prio[t] = RealPrio[t]
          \/ \E x \in Mutexes : owner[x] = t /\ \E u \in Waiting(x) : prio[u] = prio[t]
      BY DEF IInv, Exact
    <3> QED
      BY <2>1, <2>2, <3>1, <3>2, <3>3
  <2> QED
    BY <2>3, <2>4
<1>11. Held'
  BY <1>1, <1>6 DEF IInv, Held
<1>12. Nested'
  <2>1. \A x \in Mutexes : owner[x] = currp => x < m
    BY <1>1, <1>2, HeldFacts
  <2> QED
    BY <1>1, <1>6, <2>1 DEF IInv, Nested
<1> QED
  BY <1>7, <1>8, <1>9, <1>10, <1>11, <1>12 DEF IInv

(* The priority left to a thread that keeps the mutexes R: no lower than   *)
(* its own and than those of the threads that wait for R, and no higher.   *)
LEMMA NewPrioIs ==
  ASSUME IInv, NEW R \in SUBSET {x \in Mutexes : owner[x] = currp}
  PROVE  LET n == NewPrio(currp, R) IN
         /\ n \in Nat /\ RealPrio[currp] <= n
         /\ \A x \in R : \A u \in Waiting(x) : prio[u] <= n
         /\ n = RealPrio[currp] \/ \E x \in R : \E u \in Waiting(x) : prio[u] = n
<1> DEFINE S == {RealPrio[currp]}
                  \cup {prio[Head(mqueue[x])] : x \in {y \in R : mqueue[y] # <<>>}}
           n == NewPrio(currp, R)
<1>1. /\ currp \in Threads /\ RealPrio[currp] \in Nat /\ prio[currp] \in Nat
      /\ RealPrio[currp] <= prio[currp]
      /\ \A u \in Threads : prio[u] \in Nat
  BY Facts, SchedulerAssumption DEF IInv, Exact
<1>2. ASSUME NEW x \in R, mqueue[x] # <<>>
      PROVE  /\ Head(mqueue[x]) \in Waiting(x) /\ prio[Head(mqueue[x])] \in Nat
             /\ prio[Head(mqueue[x])] <= prio[currp]
             /\ \A u \in Waiting(x) : prio[u] <= prio[Head(mqueue[x])]
  <2>1. /\ mqueue[x] \in Seq(Threads) /\ IsInjective(mqueue[x]) /\ Sorted(mqueue[x], prio)
        /\ prio \in Prios /\ x \in Mutexes /\ owner[x] = currp
    BY Facts DEF IInv, InOnePlace, InOrder
  <2>2. /\ Head(mqueue[x]) \in Waiting(x) /\ Head(mqueue[x]) \in Threads
        /\ \A u \in Waiting(x) : prio[u] <= prio[Head(mqueue[x])]
    BY <1>2, <2>1, FirstOut DEF Waiting
  <2>3. prio[Head(mqueue[x])] <= prio[currp]
    BY <1>1, <2>1, <2>2 DEF IInv, Exact
  <2> QED
    BY <1>1, <2>2, <2>3
<1>3. ASSUME NEW x \in R, NEW u \in Waiting(x) PROVE mqueue[x] # <<>>
  BY Facts, Elements DEF Waiting
<1>4. /\ RealPrio[currp] \in S
      /\ \A x \in R : mqueue[x] # <<>> => prio[Head(mqueue[x])] \in S
      /\ \A z \in S : \/ z = RealPrio[currp]
                      \/ \E x \in R : mqueue[x] # <<>> /\ z = prio[Head(mqueue[x])]
  OBVIOUS
<1>5. n = Max(S)
  BY DEF NewPrio
<1> HIDE DEF S, n
<1>6. S \in SUBSET Nat /\ S # {} /\ \A z \in S : z <= prio[currp]
  BY <1>1, <1>2, <1>4
<1>7. n \in S /\ n \in Nat /\ \A z \in S : z <= n
  BY <1>1, <1>5, <1>6, MaxIs
<1>8. ASSUME NEW x \in R, NEW u \in Waiting(x) PROVE prio[u] <= n
  <2>1. /\ prio[u] <= prio[Head(mqueue[x])] /\ prio[Head(mqueue[x])] <= n
        /\ prio[Head(mqueue[x])] \in Nat /\ prio[u] \in Nat
    <3>1. mqueue[x] # <<>> /\ u \in Threads
      BY <1>3, Facts
    <3> QED
      BY <1>1, <1>2, <1>4, <1>7, <3>1
  <2> QED
    BY <1>7, <2>1
<1>9. n = RealPrio[currp] \/ \E x \in R : \E u \in Waiting(x) : prio[u] = n
  <2>1. \/ n = RealPrio[currp]
        \/ \E x \in R : mqueue[x] # <<>> /\ n = prio[Head(mqueue[x])]
    BY <1>4, <1>7
  <2> QED
    BY <1>2, <2>1
<1> QED
  BY <1>4, <1>7, <1>8, <1>9 DEF n

(* chMtxUnlock of a mutex that goes to the first thread that waits for it. *)
LEMMA UnlockPassesKeeps ==
  ASSUME IInv, MtxUnlock, Waiting(Head(mtxlist[currp])) # {}
  PROVE  IInv'
<1> DEFINE m == Head(mtxlist[currp])
           rest == Tail(mtxlist[currp])
           t == Head(mqueue[m])
           left == Tail(mqueue[m])
           n == NewPrio(currp, ToSet(rest))
<1>1. /\ mtxlist[currp] # <<>> /\ currp \in Threads
      /\ mtxlist[currp] \in Seq(Mutexes) /\ IsInjective(mtxlist[currp])
      /\ ToSet(mtxlist[currp]) = {x \in Mutexes : owner[x] = currp}
  BY Facts, HeldFacts DEF MtxUnlock
<1>2. /\ m \in ToSet(mtxlist[currp]) /\ rest \in Seq(Mutexes) /\ IsInjective(rest)
      /\ ToSet(rest) = ToSet(mtxlist[currp]) \ {m}
  BY <1>1, Popped
<1>3. /\ m \in Mutexes /\ owner[m] = currp
      /\ mqueue[m] \in Seq(Threads) /\ IsInjective(mqueue[m]) /\ Sorted(mqueue[m], prio)
      /\ mqueue[m] # <<>> /\ prio \in Prios
  <2>1. m \in Mutexes /\ owner[m] = currp
    BY <1>1, <1>2
  <2>2. /\ mqueue[m] \in Seq(Threads) /\ IsInjective(mqueue[m]) /\ Sorted(mqueue[m], prio)
        /\ prio \in Prios
    BY <2>1, Facts DEF IInv, InOnePlace, InOrder
  <2> QED
    BY <2>1, <2>2, Elements DEF Waiting
<1>4. /\ prio' = [prio EXCEPT ![currp] = n]
      /\ owner' = [owner EXCEPT ![m] = t]
      /\ mqueue' = [mqueue EXCEPT ![m] = left]
      /\ mtxlist' = [mtxlist EXCEPT ![currp] = rest, ![t] = <<m>> \o @]
      /\ WakeupS(rlist, t, prio') /\ asleep' = asleep
  BY <1>3 DEF MtxUnlock
<1> HIDE DEF m, rest
<1>5. /\ t \in Waiting(m) /\ t \in Threads /\ left \in Seq(Threads)
      /\ \A u \in Waiting(m) : prio[u] <= prio[t]
      /\ ToSet(left) = Waiting(m) \ {t} /\ IsInjective(left) /\ Sorted(left, prio)
  BY <1>3, FirstOut DEF Waiting
<1>6. /\ n \in Nat /\ RealPrio[currp] <= n
      /\ \A x \in ToSet(rest) : \A u \in Waiting(x) : prio[u] <= n
      /\ n = RealPrio[currp] \/ \E x \in ToSet(rest) : \E u \in Waiting(x) : prio[u] = n
      /\ ToSet(rest) = {x \in Mutexes : owner[x] = currp /\ x # m}
  BY <1>1, <1>2, NewPrioIs
<1> HIDE DEF t, left, n
<1>7. /\ \A x \in Mutexes : currp \notin Waiting(x) /\ Waiting(x) \cap ToSet(rlist) = {}
                            /\ Waiting(x) \subseteq Threads
      /\ currp \notin ToSet(rlist) /\ ToSet(rlist) \subseteq Threads
      /\ t # currp /\ t \notin ToSet(rlist)
      /\ \A x \in Mutexes : x # m => t \notin Waiting(x)
  BY <1>3, <1>5, Facts DEF IInv, InOnePlace
<1>8. /\ prio' \in Prios /\ prio'[currp] = n
      /\ \A u \in Threads : u # currp => prio'[u] = prio[u]
      /\ \A u \in Threads : prio[u] \in Nat /\ prio'[u] \in Nat
  <2>1. prio' \in Prios /\ prio'[currp] = n
        /\ \A u \in Threads : u # currp => prio'[u] = prio[u]
    BY <1>1, <1>3, <1>4, <1>6 DEF Prios
  <2> QED
    BY <1>3, <2>1 DEF Prios
<1>9. \A x \in Mutexes :
        /\ mqueue'[x] \in Seq(Threads)
        /\ Waiting(x)' = IF x = m THEN Waiting(x) \ {t} ELSE Waiting(x)
        /\ IsInjective(mqueue'[x]) /\ Sorted(mqueue'[x], prio')
  <2> SUFFICES ASSUME NEW x \in Mutexes
               PROVE  /\ mqueue'[x] \in Seq(Threads)
                      /\ Waiting(x)' = IF x = m THEN Waiting(x) \ {t} ELSE Waiting(x)
                      /\ IsInjective(mqueue'[x]) /\ Sorted(mqueue'[x], prio')
    OBVIOUS
  <2>1. mqueue'[x] = IF x = m THEN left ELSE mqueue[x]
    BY <1>4 DEF IInv, TypeOK
  <2>2. /\ mqueue'[x] \in Seq(Threads) /\ IsInjective(mqueue'[x])
        /\ Sorted(mqueue'[x], prio)
    BY <1>5, <2>1, Facts DEF IInv, InOnePlace, InOrder
  <2>3. Waiting(x)' = IF x = m THEN Waiting(x) \ {t} ELSE Waiting(x)
    BY <1>5, <2>1 DEF Waiting
  <2>4. \A u \in ToSet(mqueue'[x]) : prio'[u] = prio[u]
    BY <1>7, <1>8, <2>3 DEF Waiting
  <2>5. Sorted(mqueue'[x], prio')
    BY <2>2, <2>4, SortedSame
  <2> QED
    BY <2>2, <2>3, <2>5
<1>10. Switched(ToSet(rlist) \cup {currp, t}, prio')
  <2>1. rlist \in Seq(Threads) /\ IsInjective(rlist) /\ Sorted(rlist, prio)
    BY Facts DEF IInv, InOnePlace, InOrder
  <2>2. \A u \in ToSet(rlist) : prio'[u] = prio[u]
    BY <1>7, <1>8
  <2>3. Sorted(rlist, prio')
    BY <2>1, <2>2, SortedSame
  <2>4. prio[currp] <= n \/ prio[currp] <= prio[t]
    <3>1. CASE prio[currp] = RealPrio[currp]
      BY <1>6, <3>1
    <3>2. ASSUME NEW x \in Mutexes, owner[x] = currp, NEW u \in Waiting(x),
                 prio[u] = prio[currp]
          PROVE  prio[currp] <= n \/ prio[currp] <= prio[t]
      BY <1>5, <1>6, <3>2
    <3> QED
      BY <1>1, <3>1, <3>2 DEF IInv, Exact
  <2>5. \A u \in ToSet(rlist) : prio'[u] <= prio'[currp] \/ prio'[u] <= prio'[t]
    <3> SUFFICES ASSUME NEW u \in ToSet(rlist)
                 PROVE  prio'[u] <= prio'[currp] \/ prio'[u] <= prio'[t]
      OBVIOUS
    <3>1. prio[u] <= prio[currp] /\ prio'[u] = prio[u] /\ prio'[t] = prio[t] /\ u \in Threads
      BY <1>5, <1>7, <1>8, <2>2 DEF IInv, HighestRuns
    <3> QED
      BY <1>1, <1>5, <1>8, <2>4, <3>1
  <2> QED
    BY <1>1, <1>4, <1>5, <1>7, <1>8, <2>1, <2>3, <2>5, WakeupSwitches
<1>11. \A x \in Mutexes : owner'[x] = IF x = m THEN t ELSE owner[x]
  BY <1>4 DEF IInv, TypeOK
<1> DEFINE l == <<m>> \o mtxlist[t]
<1>12. /\ l \in Seq(Mutexes) /\ ToSet(l) = ToSet(mtxlist[t]) \cup {m} /\ IsInjective(l)
  <2>1. /\ mtxlist[t] \in Seq(Mutexes) /\ IsInjective(mtxlist[t])
        /\ m \notin ToSet(mtxlist[t])
    BY <1>3, <1>5, <1>7, HeldFacts
  <2> QED
    BY <1>3, <2>1, Pushed
<1>13. \A u \in Threads : mtxlist'[u] = IF u = currp THEN rest
                                        ELSE IF u = t THEN l ELSE mtxlist[u]
  BY <1>1, <1>4, <1>5, <1>7 DEF IInv, TypeOK
<1> HIDE DEF l
<1>14. TypeOK'
  <2>1. mqueue' \in [Mutexes -> Seq(Threads)]
    BY <1>4, <1>5 DEF IInv, TypeOK
  <2>2. mtxlist' \in [Threads -> Seq(Mutexes)]
    <3>1. mtxlist' = [u \in Threads |-> mtxlist'[u]]
      BY <1>4 DEF IInv, TypeOK
    <3>2. \A u \in Threads : mtxlist'[u] \in Seq(Mutexes)
      BY <1>2, <1>12, <1>13 DEF IInv, TypeOK
    <3> QED
      BY <3>1, <3>2
  <2>3. owner' \in [Mutexes -> Threads \cup {None}]
    BY <1>4, <1>5 DEF IInv, TypeOK
  <2>4. \A u \in Threads : prio'[u] >= RealPrio[u]
    <3>1. \A u \in Threads : RealPrio[u] \in Nat /\ prio[u] >= RealPrio[u]
      BY SchedulerAssumption DEF IInv, TypeOK
    <3> QED
      BY <1>1, <1>6, <1>8, <3>1
  <2> QED
    BY <1>4, <1>8, <1>10, <2>1, <2>2, <2>3, <2>4 DEF IInv, TypeOK, Switched, Prios
<1>15. InOnePlace'
  <2>1. /\ {currp'} \cup ToSet(rlist') = ToSet(rlist) \cup {currp, t}
        /\ currp' \notin ToSet(rlist') /\ IsInjective(rlist')
    BY <1>10 DEF Switched
  <2>2. \A u \in Threads : \/ u = currp' \/ u \in ToSet(rlist') \/ u \in asleep'
                           \/ \E x \in Mutexes : u \in Waiting(x)'
    BY <1>4, <1>9, <2>1 DEF IInv, InOnePlace
  <2>3. /\ currp' \notin asleep' /\ ToSet(rlist') \cap asleep' = {}
    BY <1>3, <1>4, <1>5, <2>1 DEF IInv, InOnePlace
  <2>4. \A x \in Mutexes : currp' \notin Waiting(x)' /\ Waiting(x)' \cap ToSet(rlist') = {}
    BY <1>7, <1>9, <2>1
  <2>5. \A x \in Mutexes : Idle \notin Waiting(x)' /\ Waiting(x)' \cap asleep' = {}
    BY <1>4, <1>9 DEF IInv, InOnePlace
  <2>6. \A x, y \in Mutexes : x # y => Waiting(x)' \cap Waiting(y)' = {}
    BY <1>9 DEF IInv, InOnePlace
  <2> QED
    BY <1>9, <2>1, <2>2, <2>3, <2>4, <2>5, <2>6 DEF InOnePlace
<1>16. InOrder' /\ HighestRuns'
  BY <1>9, <1>10 DEF InOrder, HighestRuns, Switched
<1>17. Exact'
  <2> SUFFICES ASSUME NEW v \in Threads
               PROVE  /\ RealPrio[v] <= prio'[v]
                      /\ \A x \in Mutexes : owner'[x] = v =>
                           \A u \in Waiting(x)' : prio'[u] <= prio'[v]
                      /\ \/ prio'[v] = RealPrio[v]
                         \/ \E x \in Mutexes : owner'[x] = v /\
                              \E u \in Waiting(x)' : prio'[u] = prio'[v]
    BY DEF Exact
  <2>0. \A x \in Mutexes : \A u \in Waiting(x)' : u \in Waiting(x) /\ prio'[u] = prio[u]
    BY <1>7, <1>8, <1>9
  <2>1. CASE v = currp
    <3>1. \A x \in Mutexes : owner'[x] = v => x \in ToSet(rest)
      BY <1>6, <1>7, <1>11, <2>1
    <3>2. \A x \in ToSet(rest) : /\ x \in Mutexes /\ owner'[x] = v
                                 /\ Waiting(x)' = Waiting(x)
      BY <1>6, <1>9, <1>11, <2>1
    <3> QED
      BY <1>6, <1>8, <2>0, <2>1, <3>1, <3>2
  <2>2. CASE v # currp
    <3>1. prio'[v] = prio[v]
      BY <1>8, <2>2
    <3>2. \A x \in Mutexes : owner'[x] = v => \A u \in Waiting(x)' : prio'[u] <= prio'[v]
      BY <1>5, <1>11, <2>0, <3>1 DEF IInv, Exact
    <3>3. \A x \in Mutexes : owner[x] = v => owner'[x] = v /\ Waiting(x)' = Waiting(x)
      BY <1>3, <1>9, <1>11, <2>2
    <3>4. /\ RealPrio[v] <= prio[v]
          /\ \/ prio[v] = RealPrio[v]
             \/ \E x \in Mutexes : owner[x] = v /\ \E u \in Waiting(x) : prio[u] = prio[v]
      BY DEF IInv, Exact
    <3> QED
      BY <2>0, <3>1, <3>2, <3>3, <3>4
  <2> QED
    BY <2>1, <2>2
<1>18. Held'
  <2>1. ASSUME NEW u \in Threads, NEW x \in Mutexes
        PROVE  owner'[x] = u <=> x \in ToSet(mtxlist'[u])
    <3>1. owner[x] = u <=> x \in ToSet(mtxlist[u])
      BY DEF IInv, Held
    <3>2. CASE u = currp
      BY <1>6, <1>7, <1>11, <1>13, <3>2
    <3>3. CASE u = t
      BY <1>7, <1>11, <1>12, <1>13, <3>1, <3>3
    <3>4. CASE u # currp /\ u # t
      BY <1>3, <1>11, <1>13, <3>1, <3>4
    <3> QED
      BY <3>2, <3>3, <3>4
  <2>2. \A u \in Threads : IsInjective(mtxlist'[u])
    BY <1>2, <1>12, <1>13 DEF IInv, Held
  <2>3. \A x \in Mutexes : owner'[x] = None => Waiting(x)' = {}
    <3>1. t # None
      BY <1>5, Facts
    <3> QED
      BY <1>9, <1>11, <3>1 DEF IInv, Held
  <2> QED
    BY <2>1, <2>2, <2>3 DEF Held
<1>19. Nested'
  <2> SUFFICES ASSUME NEW y \in Mutexes, NEW x \in Mutexes, NEW u \in Waiting(y)',
                      owner'[x] = u
               PROVE  x < y
    BY DEF Nested
  <2>1. u \in Waiting(y) /\ u # t
    BY <1>7, <1>9
  <2>2. owner[x] = u
    BY <1>11, <2>1
  <2> QED
    BY <2>1, <2>2 DEF IInv, Nested
<1> QED
  BY <1>14, <1>15, <1>16, <1>17, <1>18, <1>19 DEF IInv

----------------------------------------------------------------------------
LEMMA NextInv == IInv /\ [Next]_vars => IInv'
<1> SUFFICES ASSUME IInv, [Next]_vars PROVE IInv'
  OBVIOUS
<1>1. CASE UNCHANGED vars
  BY <1>1 DEF vars, IInv, TypeOK, InOnePlace, InOrder, HighestRuns, Exact, Held, Nested,
              Waiting
<1>2. CASE GoSleep
  BY <1>2, GoSleepKeeps
<1>3. CASE Yield
  BY <1>3, YieldKeeps
<1>4. CASE Quantum
  BY <1>4, QuantumKeeps
<1>5. CASE MtxUnlock
  BY <1>5, UnlockFreeKeeps, UnlockPassesKeeps
<1>6. ASSUME NEW t \in asleep, Wake(t) PROVE IInv'
  BY <1>6, WakeKeeps
<1>7. ASSUME NEW t \in asleep, NEW used \in BOOLEAN, Interrupt(t, used) PROVE IInv'
  BY <1>7, InterruptKeeps
<1>8. ASSUME NEW m \in Mutexes, MtxLock(m) PROVE IInv'
  BY <1>8, LockFreeKeeps, LockBlocksKeeps
<1> QED
  BY <1>1, <1>2, <1>3, <1>4, <1>5, <1>6, <1>7, <1>8 DEF Next

(* The whole inductive invariant. *)
THEOREM SchedulerInvariant == Spec => []IInv
BY InitInv, NextInv, PTL DEF Spec

(* Nobody who is ready has a higher priority than the thread that runs,    *)
(* whatever is boosted and given back meanwhile.                           *)
THEOREM HighestAlwaysRuns == Spec => []HighestRuns
<1>1. IInv => HighestRuns
  BY DEF IInv
<1> QED
  BY <1>1, SchedulerInvariant, PTL

(* A thread has the priority that its own and those of the threads that    *)
(* wait for its mutexes give it, in every state.                           *)
THEOREM PriorityAlwaysExact == Spec => []PriorityExact
<1>1. IInv => PriorityExact
  <2> SUFFICES ASSUME IInv, NEW t \in Threads
               PROVE  prio[t] = Max({RealPrio[t]} \cup
                        {prio[u] : u \in UNION {ToSet(mqueue[m]) :
                                                m \in {x \in Mutexes : owner[x] = t}}})
    BY DEF PriorityExact
  <2> DEFINE U == UNION {ToSet(mqueue[m]) : m \in {x \in Mutexes : owner[x] = t}}
             S == {RealPrio[t]} \cup {prio[u] : u \in U}
  <2>1. /\ \A u \in U : \E m \in Mutexes : owner[m] = t /\ u \in Waiting(m)
        /\ \A m \in Mutexes : owner[m] = t => \A u \in Waiting(m) : u \in U
    BY DEF Waiting
  <2> HIDE DEF U
  <2>2. /\ RealPrio[t] \in S /\ \A u \in U : prio[u] \in S
        /\ \A z \in S : z = RealPrio[t] \/ \E u \in U : z = prio[u]
    OBVIOUS
  <2> HIDE DEF S
  <2>3. /\ RealPrio[t] \in Nat /\ \A u \in Threads : prio[u] \in Nat
        /\ \A m \in Mutexes : Waiting(m) \subseteq Threads
    BY Facts, SchedulerAssumption
  <2>4. S \in SUBSET Nat
    BY <2>1, <2>2, <2>3
  <2>5. prio[t] \in S
    BY <2>1, <2>2 DEF IInv, Exact
  <2>6. \A z \in S : z <= prio[t]
    BY <2>1, <2>2 DEF IInv, Exact
  <2>7. Max(S) = prio[t]
    BY <2>4, <2>5, <2>6, MaxUnique
  <2> QED
    BY <2>7 DEF S, U
<1> QED
  BY <1>1, SchedulerInvariant, PTL

(* No thread is lost and none is in two queues, in every state. *)
THEOREM ThreadAlwaysInOnePlace == Spec => []ThreadInOnePlace
<1>1. IInv => ThreadInOnePlace
  <2> SUFFICES ASSUME IInv PROVE ThreadInOnePlace
    OBVIOUS
  <2> DEFINE run == <<"running", 0>>
             ready == <<"ready", 0>>
             sleep == <<"asleep", 0>>
             wait(m) == <<"waiting", m>>
  <2>1. /\ There(run) = {currp} /\ There(ready) = ToSet(rlist) /\ There(sleep) = asleep
        /\ \A m \in Mutexes : There(wait(m)) = Waiting(m)
    BY DEF There, Waiting
  <2>2. /\ run \in Places /\ ready \in Places /\ sleep \in Places
        /\ \A m \in Mutexes : wait(m) \in Places
        /\ \A q \in Places : \/ q = run \/ q = ready \/ q = sleep
                             \/ \E m \in Mutexes : q = wait(m)
    BY DEF Places
  <2> HIDE DEF run, ready, sleep, wait
  <2>3. ASSUME NEW t \in Threads
        PROVE  \E p \in Places : \A q \in Places : t \in There(q) <=> q = p
    <3>1. CASE t = currp
      <4>1. \A q \in Places : t \in There(q) <=> q = run
        BY <2>1, <2>2, <3>1 DEF IInv, InOnePlace
      <4> QED
        BY <2>2, <4>1
    <3>2. CASE t \in ToSet(rlist)
      <4>1. \A q \in Places : t \in There(q) <=> q = ready
        BY <2>1, <2>2, <3>2 DEF IInv, InOnePlace
      <4> QED
        BY <2>2, <4>1
    <3>3. CASE t \in asleep
      <4>1. \A q \in Places : t \in There(q) <=> q = sleep
        BY <2>1, <2>2, <3>3 DEF IInv, InOnePlace
      <4> QED
        BY <2>2, <4>1
    <3>4. ASSUME NEW m \in Mutexes, t \in Waiting(m)
          PROVE  \E p \in Places : \A q \in Places : t \in There(q) <=> q = p
      <4>1. \A q \in Places : t \in There(q) <=> q = wait(m)
        BY <2>1, <2>2, <3>4 DEF IInv, InOnePlace
      <4> QED
        BY <2>2, <4>1
    <3> QED
      BY <3>1, <3>2, <3>3, <3>4 DEF IInv, InOnePlace
  <2> QED
    BY <2>3 DEF IInv, InOnePlace, ThreadInOnePlace
<1> QED
  BY <1>1, SchedulerInvariant, PTL
=============================================================================
