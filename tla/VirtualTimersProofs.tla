------------------------ MODULE VirtualTimersProofs ------------------------
(***************************************************************************)
(* Proofs about VirtualTimers, for any finite set of timers and any width  *)
(* of systime_t: the list stays a list of the armed timers, the clock's    *)
(* windows wrap rightly, and the delta list implements TimerSpec.          *)
(*                                                                         *)
(* The invariant names the list: s, the nodes in their order with the      *)
(* header at both ends, and d, the ticks each of them has left.  A step    *)
(* inserts into s and d, deletes from them or takes one from all of d.     *)
(***************************************************************************)
EXTENDS VirtualTimers, FiniteSetTheorems, FunctionTheorems,
        WellFoundedInduction, TLAPS

(* The armed timers are s[1], ..., s[n], in this order, and s[i] is due in *)
(* d[i] ticks; outside the loop of chVTDoTickI none is due.                *)
Linked(n, s) ==
  /\ n \in Nat
  /\ s \in [0 .. n + 1 -> Nodes]
  /\ s[0] = Header /\ s[n + 1] = Header
  /\ \A i \in 1 .. n : s[i] \in Timers /\ func[s[i]]
  /\ \A v \in Timers : func[v] => \E i \in 1 .. n : s[i] = v
  /\ \A i, j \in 1 .. n : s[i] = s[j] => i = j
  /\ \A i \in 0 .. n : next[s[i]] = s[i + 1] /\ prev[s[i + 1]] = s[i]

Due(n, s, d) ==
  /\ d \in [0 .. n -> 0 .. MaxTime]
  /\ d[0] = 0
  /\ \A i, j \in 0 .. n : i <= j => d[i] <= d[j]
  /\ \A i \in 1 .. n : time[s[i]] = d[i] - d[i - 1]
  /\ time[Header] = MaxTime
  /\ ~ticking => \A i \in 1 .. n : d[i] # 0

IsList(n, s, d) == Linked(n, s) /\ Due(n, s, d)

IInv == TypeOK /\ \E n, s, d : IsList(n, s, d)

----------------------------------------------------------------------------
(* The functions by which the model follows the list. *)

LEMMA LeastNat ==
  ASSUME NEW S \in SUBSET Nat, S # {}
  PROVE  \E x \in S : \A y \in S : x <= y
<1>1. PICK x \in S : \A y \in S : ~ (<<y, x>> \in OpToRel(<, Nat))
  BY NatLessThanWellFounded, WFMin
<1>2. \A y \in S : ~ (y < x)
  BY <1>1 DEF OpToRel
<1> QED
  BY <1>2

(* g is a walk of C steps from x, the j-th of which is step[j]. *)
IsWalk(C, A, x, step, g) ==
  /\ g \in [0 .. C -> A]
  /\ g[0] = x
  /\ \A k \in 1 .. C : g[k] = step[k - 1][g[k - 1]]

LEMMA WalkExists ==
  ASSUME NEW C \in Nat, NEW A, NEW x \in A, NEW step \in [0 .. C -> [A -> A]]
  PROVE  \E g : IsWalk(C, A, x, step, g)
<1> DEFINE W(m, g) == /\ g \in [0 .. m -> A]
                      /\ g[0] = x
                      /\ \A k \in 1 .. m : g[k] = step[k - 1][g[k - 1]]
           Bad == {m \in 0 .. C : ~ \E g : W(m, g)}
<1>1. Bad = {}
  <2> SUFFICES ASSUME Bad # {} PROVE FALSE
    OBVIOUS
  <2>1. PICK m \in Bad : \A y \in Bad : m <= y
    <3>1. Bad \in SUBSET Nat
      OBVIOUS
    <3> QED
      BY <3>1, LeastNat
  <2>2. m \in 0 .. C /\ ~ \E g : W(m, g)
    BY <2>1
  <2>3. m # 0
    <3>1. W(0, [k \in 0 .. 0 |-> x])
      OBVIOUS
    <3> QED
      BY <3>1, <2>2
  <2>4. \E g : W(m - 1, g)
    <3>1. m - 1 \in 0 .. C /\ ~ (m <= m - 1)
      BY <2>2, <2>3
    <3>2. m - 1 \notin Bad
      BY <2>1, <3>1
    <3> QED
      BY <3>1, <3>2
  <2>5. PICK g : W(m - 1, g)
    BY <2>4
  <2> DEFINE h == [k \in 0 .. m |-> IF k = m THEN step[m - 1][g[m - 1]] ELSE g[k]]
  <2>6. W(m, h)
    <3>1. m - 1 \in 0 .. m - 1 /\ m - 1 \in 0 .. C
      BY <2>2, <2>3
    <3>2. step[m - 1][g[m - 1]] \in A
      BY <3>1, <2>5
    <3>3. h \in [0 .. m -> A]
      BY <3>2, <2>5, <2>2
    <3>4. h[0] = x
      BY <2>2, <2>3, <2>5
    <3>5. ASSUME NEW k \in 1 .. m PROVE h[k] = step[k - 1][h[k - 1]]
      <4>1. CASE k = m
        BY <4>1, <2>2, <2>3
      <4>2. CASE k # m
        BY <4>2, <2>2, <2>5
      <4> QED
        BY <4>1, <4>2
    <3> QED
      BY <3>3, <3>4, <3>5
  <2> QED
    BY <2>2, <2>6
<1>2. PICK g : W(C, g)
  BY <1>1
<1> QED
  BY <1>2 DEF IsWalk

(* Nothing else can be said of a walk: where it starts and each step of it *)
(* decide how it goes on.                                                  *)
LEMMA WalkIs ==
  ASSUME NEW C \in Nat, NEW f, NEW g,
         f[0] = g[0],
         \A k \in 1 .. C : f[k - 1] = g[k - 1] => f[k] = g[k]
  PROVE  \A k \in 0 .. C : f[k] = g[k]
<1> DEFINE Bad == {k \in 0 .. C : f[k] # g[k]}
<1> SUFFICES ASSUME Bad # {} PROVE FALSE
  OBVIOUS
<1>1. Bad \in SUBSET Nat
  OBVIOUS
<1>2. PICK m \in Bad : \A y \in Bad : m <= y
  BY <1>1, LeastNat
<1>3. m \in 1 .. C /\ m - 1 \in 0 .. C /\ ~ (m <= m - 1)
  BY <1>2
<1>4. f[m - 1] = g[m - 1]
  BY <1>2, <1>3
<1> QED
  BY <1>2, <1>3, <1>4

LEMMA CardTimers == Cardinality(Timers) \in Nat
BY TimersAssumption, FS_CardinalityType

(* What the recursive definition of Reached says. *)
LEMMA ReachedSteps ==
  ASSUME TypeOK
  PROVE  /\ Reached \in [0 .. Cardinality(Timers) -> Nodes]
         /\ Reached[0] = next[Header]
         /\ \A k \in 1 .. Cardinality(Timers) : Reached[k] = next[Reached[k - 1]]
<1> DEFINE C == Cardinality(Timers)
           F(f) == [k \in 0 .. C |-> IF k = 0 THEN next[Header] ELSE next[f[k - 1]]]
           st == [j \in 0 .. C |-> next]
           x == next[Header]
<1>1. C \in Nat
  BY CardTimers
<1>2. next \in [Nodes -> Nodes] /\ x \in Nodes
  BY DEF TypeOK, Nodes
<1>3. st \in [0 .. C -> [Nodes -> Nodes]]
  BY <1>2
<1>4. \A k \in 1 .. C : st[k - 1] = next
  BY <1>1
<1> HIDE DEF st, C, x
<1>b. PICK g : IsWalk(C, Nodes, x, st, g)
  BY <1>1, <1>2, <1>3, WalkExists
<1>5. /\ g \in [0 .. C -> Nodes]
      /\ g[0] = x /\ \A k \in 1 .. C : g[k] = next[g[k - 1]]
  BY <1>b, <1>4 DEF IsWalk
<1>6. g = F(g)
  BY <1>1, <1>4, <1>5 DEF x
<1>7. Reached = F(Reached)
  BY <1>6 DEF Reached, C
<1>8. /\ Reached[0] = x
      /\ \A k \in 1 .. C : Reached[k] = next[Reached[k - 1]]
  <2> HIDE DEF F
  <2>1. \A k \in 0 .. C :
          F(Reached)[k] = IF k = 0 THEN next[Header] ELSE next[Reached[k - 1]]
    BY DEF F
  <2> QED
    BY <1>1, <1>7, <2>1 DEF x
<1>9. \A k \in 0 .. C : Reached[k] = g[k]
  <2>1. \A k \in 1 .. C : Reached[k - 1] = g[k - 1] => Reached[k] = g[k]
    BY <1>5, <1>8
  <2>2. Reached[0] = g[0]
    BY <1>5, <1>8
  <2> QED
    BY <1>1, <2>1, <2>2, WalkIs
<1>10. Reached \in [0 .. C -> Nodes]
  <2>1. Reached = [k \in 0 .. C |->
                     IF k = 0 THEN next[Header] ELSE next[Reached[k - 1]]]
    BY <1>7
  <2>2. \A k \in 0 .. C : Reached[k] \in Nodes
    BY <1>9, <1>5
  <2> QED
    BY <2>1, <2>2
<1> QED
  BY <1>8, <1>10 DEF C, x

(* What the recursive definition of Passed says. *)
LEMMA PassedSteps ==
  ASSUME TypeOK
  PROVE  /\ Passed \in [0 .. Cardinality(Timers) -> Int]
         /\ Passed[0] = 0
         /\ \A k \in 1 .. Cardinality(Timers) :
              Passed[k] = Passed[k - 1] + time[Reached[k - 1]]
<1> DEFINE C == Cardinality(Timers)
           F(f) == [k \in 0 .. C |->
                      IF k = 0 THEN 0 ELSE f[k - 1] + time[Reached[k - 1]]]
           st == [j \in 0 .. C |-> [y \in Int |-> y + time[Reached[j]]]]
<1>1. C \in Nat
  BY CardTimers
<1>2. \A j \in 0 .. C : time[Reached[j]] \in Int
  <2>1. \A j \in 0 .. C : Reached[j] \in Nodes
    BY ReachedSteps
  <2> QED
    BY <2>1, MaxTimeAssumption DEF TypeOK
<1> HIDE DEF C
<1>3. st \in [0 .. C -> [Int -> Int]]
  BY <1>2
<1>4. \A k \in 1 .. C : \A y \in Int : st[k - 1][y] = y + time[Reached[k - 1]]
  BY <1>1
<1> HIDE DEF st
<1>b. PICK g : IsWalk(C, Int, 0, st, g)
  <2>1. 0 \in Int
    OBVIOUS
  <2> QED
    BY <1>1, <1>3, <2>1, WalkExists
<1>5. /\ g \in [0 .. C -> Int]
      /\ g[0] = 0 /\ \A k \in 1 .. C : g[k] = st[k - 1][g[k - 1]]
  BY <1>b DEF IsWalk
<1>a. \A k \in 1 .. C : g[k] = g[k - 1] + time[Reached[k - 1]]
  <2>1. \A k \in 1 .. C : g[k - 1] \in Int
    BY <1>1, <1>5
  <2> QED
    BY <2>1, <1>4, <1>5
<1>6. g = F(g)
  BY <1>1, <1>a, <1>5
<1>7. Passed = F(Passed)
  BY <1>6 DEF Passed, C
<1>8. /\ Passed[0] = 0
      /\ \A k \in 1 .. C : Passed[k] = Passed[k - 1] + time[Reached[k - 1]]
  <2> HIDE DEF F
  <2>1. \A k \in 0 .. C :
          F(Passed)[k] = IF k = 0 THEN 0 ELSE Passed[k - 1] + time[Reached[k - 1]]
    BY DEF F
  <2> QED
    BY <1>1, <1>7, <2>1
<1>9. \A k \in 0 .. C : Passed[k] = g[k]
  <2>1. \A k \in 1 .. C : Passed[k - 1] = g[k - 1] => Passed[k] = g[k]
    BY <1>a, <1>8
  <2>2. Passed[0] = g[0]
    BY <1>5, <1>8
  <2> QED
    BY <1>1, <2>1, <2>2, WalkIs
<1>10. Passed \in [0 .. C -> Int]
  <2>1. Passed = [k \in 0 .. C |->
                    IF k = 0 THEN 0 ELSE Passed[k - 1] + time[Reached[k - 1]]]
    BY <1>7
  <2>2. \A k \in 0 .. C : Passed[k] \in Int
    BY <1>9, <1>5
  <2> QED
    BY <2>1, <2>2
<1> QED
  BY <1>8, <1>10 DEF C

----------------------------------------------------------------------------
(* The list that the invariant names and what the model computes of it. *)

(* The list is as long as there are timers armed. *)
LEMMA ListLength ==
  ASSUME NEW n, NEW s, Linked(n, s)
  PROVE  /\ n = Cardinality({v \in Timers : func[v]})
         /\ n \in 0 .. Cardinality(Timers)
<1> DEFINE Armed == {v \in Timers : func[v]}
           b == [i \in 1 .. n |-> s[i]]
<1>1. n \in Nat
  BY DEF Linked
<1>2. b \in Bijection(1 .. n, Armed)
  <2>1. b \in [1 .. n -> Armed]
    BY DEF Linked
  <2>2. \A i, j \in 1 .. n : b[i] = b[j] => i = j
    BY DEF Linked
  <2>3. \A v \in Armed : \E i \in 1 .. n : b[i] = v
    BY DEF Linked
  <2> QED
    BY <2>1, <2>2, <2>3, Fun_IsBij
<1>3. Cardinality(Armed) = n
  BY <1>1, <1>2, FS_CountingElements, Fun_ExistsBij
<1>4. Cardinality(Armed) <= Cardinality(Timers)
  BY TimersAssumption, FS_Subset
<1> QED
  BY <1>1, <1>3, <1>4, CardTimers

(* Reached and Passed walk along s and d up to the header. *)
LEMMA WalksAlong ==
  ASSUME TypeOK, NEW n, NEW s, NEW d, IsList(n, s, d)
  PROVE  \A k \in 0 .. n : Reached[k] = s[k + 1] /\ Passed[k] = d[k]
<1>1. n \in Nat /\ n \in 0 .. Cardinality(Timers) /\ Cardinality(Timers) \in Nat
  BY ListLength, CardTimers DEF IsList, Linked
<1> DEFINE g == [k \in 0 .. n |-> s[k + 1]]
<1>2. \A k \in 0 .. n : Reached[k] = g[k]
  <2>1. Reached[0] = g[0]
    BY ReachedSteps, <1>1 DEF IsList, Linked
  <2>2. \A k \in 1 .. n : Reached[k - 1] = g[k - 1] => Reached[k] = g[k]
    BY ReachedSteps, <1>1 DEF IsList, Linked
  <2> HIDE DEF g
  <2> QED
    BY <2>1, <2>2, <1>1, WalkIs
<1>3. \A k \in 0 .. n : Passed[k] = d[k]
  <2>1. Passed[0] = d[0]
    BY PassedSteps DEF IsList, Due
  <2>2. ASSUME NEW k \in 1 .. n, Passed[k - 1] = d[k - 1]
        PROVE  Passed[k] = d[k]
    <3>1. Passed[k] = d[k - 1] + time[Reached[k - 1]]
      BY <2>2, PassedSteps, <1>1
    <3>2. Reached[k - 1] = s[k]
      BY <1>1, <1>2
    <3>3. time[s[k]] = d[k] - d[k - 1] /\ d[k] \in Int /\ d[k - 1] \in Int
      BY <1>1, MaxTimeAssumption DEF IsList, Due
    <3> QED
      BY <3>1, <3>2, <3>3
  <2> QED
    BY <2>1, <2>2, <1>1, WalkIs
<1> QED
  BY <1>1, <1>2, <1>3

(* The loop of chVTSetI ends at the header at the latest: it passes the    *)
(* timers due before n ticks and no other.                                 *)
LEMMA StopIs ==
  ASSUME TypeOK, NEW n, NEW s, NEW d, IsList(n, s, d), NEW t \in 1 .. MaxTime
  PROVE  /\ Stop(t) \in 0 .. n
         /\ d[Stop(t)] < t
         /\ Stop(t) < n => t <= d[Stop(t) + 1]
<1> DEFINE C == Cardinality(Timers)
           P(k) == /\ time[Reached[k]] >= t - Passed[k]
                   /\ \A j \in 0 .. k - 1 : time[Reached[j]] < t - Passed[j]
           Good == {k \in 0 .. n : time[Reached[k]] >= t - Passed[k]}
<1>1. n \in Nat /\ n \in 0 .. C /\ C \in Nat /\ t \in Nat
  <2>1. n \in Nat
    BY DEF IsList, Linked
  <2>2. n \in 0 .. C
    BY ListLength DEF IsList
  <2> QED
    BY <2>1, <2>2, CardTimers, MaxTimeAssumption
<1>2. \A k \in 0 .. n : d[k] \in Nat /\ Passed[k] = d[k] /\ Reached[k] = s[k + 1]
  <2>1. \A k \in 0 .. n : d[k] \in Nat
    BY MaxTimeAssumption DEF IsList, Due
  <2> QED
    BY <2>1, WalksAlong
<1>3. \A k \in 0 .. n - 1 : time[Reached[k]] = d[k + 1] - d[k]
  <2> TAKE k \in 0 .. n - 1
  <2>1. k \in 0 .. n /\ k + 1 \in 1 .. n /\ (k + 1) - 1 = k
    BY <1>1
  <2>2. time[s[k + 1]] = d[k + 1] - d[(k + 1) - 1]
    BY <2>1 DEF IsList, Due
  <2> QED
    BY <1>2, <2>1, <2>2
<1>4. time[Reached[n]] = MaxTime
  BY <1>1, <1>2 DEF IsList, Linked, Due
<1>5. n \in Good
  BY <1>1, <1>2, <1>4, MaxTimeAssumption
<1>6. PICK k \in Good : \A j \in Good : k <= j
  <2>1. Good \in SUBSET Nat /\ Good # {}
    BY <1>1, <1>5
  <2> HIDE DEF Good
  <2> QED
    BY <2>1, LeastNat
<1>7. k \in 0 .. C /\ P(k)
  <2>1. \A j \in 0 .. k - 1 : j \in 0 .. n /\ time[Reached[j]] \in Int
    <3>1. \A j \in 0 .. k - 1 : j \in 0 .. n /\ j \in 0 .. C
      BY <1>1, <1>6
    <3>2. \A j \in 0 .. k - 1 : Reached[j] \in Nodes
      BY <3>1, ReachedSteps
    <3> QED
      BY <3>1, <3>2, MaxTimeAssumption DEF TypeOK
  <2> QED
    BY <1>1, <1>2, <1>6, <2>1, MaxTimeAssumption
<1>8. Stop(t) \in 0 .. C /\ P(Stop(t))
  BY <1>7 DEF Stop
<1>9. Stop(t) \in 0 .. n
  BY <1>1, <1>2, <1>4, <1>8, MaxTimeAssumption
<1>10. d[Stop(t)] < t
  <2>1. CASE Stop(t) = 0
    BY <2>1 DEF IsList, Due
  <2>2. CASE Stop(t) # 0
    <3>1. Stop(t) - 1 \in 0 .. Stop(t) - 1 /\ Stop(t) - 1 \in 0 .. n - 1
      BY <2>2, <1>1, <1>9
    <3>2. d[Stop(t)] - d[Stop(t) - 1] < t - d[Stop(t) - 1]
      BY <3>1, <1>1, <1>2, <1>3, <1>8
    <3> QED
      BY <3>1, <3>2, <1>1, <1>2, <1>9
  <2> QED
    BY <2>1, <2>2
<1>11. Stop(t) < n => t <= d[Stop(t) + 1]
  BY <1>1, <1>2, <1>3, <1>8, <1>9
<1> QED
  BY <1>9, <1>10, <1>11

(* The ticks that Left computes for a timer are those the list names. *)
LEMMA LeftIs ==
  ASSUME TypeOK, NEW n, NEW s, NEW d, IsList(n, s, d)
  PROVE  /\ \A i \in 1 .. n : Left(s[i]) = d[i]
         /\ \A v \in Timers : ~func[v] => Left(v) = -1
<1>1. n \in Nat /\ n \in 0 .. Cardinality(Timers)
  <2>1. n \in Nat
    BY DEF IsList, Linked
  <2> QED
    BY <2>1, ListLength DEF IsList
<1>2. ASSUME NEW i \in 1 .. n
      PROVE  Left(s[i]) = d[i]
  <2> DEFINE P(k) == Reached[k] = s[i] /\ \A j \in 0 .. k - 1 : Reached[j] # s[i]
  <2>1. s[i] \in Timers /\ func[s[i]] /\ s[i] # Header
    BY TimersAssumption DEF IsList, Linked
  <2>2. \A k \in 0 .. n : Reached[k] = s[k + 1] /\ Passed[k] = d[k]
    BY WalksAlong
  <2>3. \A k \in 0 .. n : Reached[k] = s[i] <=> k = i - 1
    <3>1. \A k \in 1 .. n : s[k] = s[i] => k = i
      BY DEF IsList, Linked
    <3>2. s[n + 1] # s[i]
      BY <2>1 DEF IsList, Linked
    <3> QED
      BY <1>1, <2>2, <3>1, <3>2
  <2>4. i - 1 \in 0 .. Cardinality(Timers) /\ P(i - 1)
    BY <1>1, <2>3, CardTimers
  <2> DEFINE c == CHOOSE k \in 0 .. Cardinality(Timers) :
                    Reached[k] = s[i] /\ \A j \in 0 .. k - 1 : Reached[j] # s[i]
  <2>5. c \in 0 .. Cardinality(Timers) /\ P(c)
    BY <2>4
  <2>6. Left(s[i]) = Passed[c] + time[s[i]]
    BY <2>1 DEF Left
  <2> HIDE DEF c
  <2>7. c = i - 1
    <3>1. i - 1 \in 0 .. n
      BY <1>1
    <3>2. ~ (i - 1 < c)
      BY <3>1, <2>3, <2>5, CardTimers
    <3> QED
      BY <1>1, <2>3, <2>5, <3>2, CardTimers
  <2>8. time[s[i]] = d[i] - d[i - 1] /\ d[i] \in Int /\ d[i - 1] \in Int
    BY <1>1, MaxTimeAssumption DEF IsList, Due
  <2> QED
    BY <1>1, <2>2, <2>6, <2>7, <2>8
<1>3. \A v \in Timers : ~func[v] => Left(v) = -1
  BY DEF Left
<1> QED
  BY <1>2, <1>3

----------------------------------------------------------------------------
(* The list is changed in one place. *)

Inserted(f, m, k, x) ==
  [i \in 0 .. m |-> IF i <= k THEN f[i] ELSE IF i = k + 1 THEN x ELSE f[i - 1]]

Removed(f, m, k) == [i \in 0 .. m |-> IF i < k THEN f[i] ELSE f[i + 1]]

(* No node is twice in the list but the header, which is at both ends. *)
LEMMA Distinct ==
  ASSUME NEW n, NEW s, Linked(n, s)
  PROVE  /\ \A i, j \in 0 .. n : s[i] = s[j] => i = j
         /\ \A i, j \in 1 .. n + 1 : s[i] = s[j] => i = j
<1>1. n \in Nat /\ s[0] = Header /\ s[n + 1] = Header
  BY DEF Linked
<1>2. \A i \in 1 .. n : s[i] # Header
  BY TimersAssumption DEF Linked
<1>3. \A i, j \in 1 .. n : s[i] = s[j] => i = j
  BY DEF Linked
<1> QED
  BY <1>1, <1>2, <1>3

(* chVTSetI puts the timer behind those that are due before it. *)
LEMMA SetLinks ==
  ASSUME TypeOK, NEW n, NEW s, NEW d, IsList(n, s, d),
         NEW v \in Timers, NEW t \in 1 .. MaxTime, VTSetI(v, t),
         NEW k \in 0 .. n, k = Stop(t)
  PROVE  Linked(n + 1, Inserted(s, n + 2, k, v))'
<1> DEFINE S == Inserted(s, n + 2, k, v)
<1>1. /\ n \in Nat
      /\ s \in [0 .. n + 1 -> Nodes]
      /\ s[0] = Header /\ s[n + 1] = Header
      /\ \A i \in 1 .. n : s[i] \in Timers /\ func[s[i]]
      /\ \A u \in Timers : func[u] => \E i \in 1 .. n : s[i] = u
      /\ \A i \in 0 .. n : next[s[i]] = s[i + 1] /\ prev[s[i + 1]] = s[i]
  BY DEF IsList, Linked
<1>2. /\ \A i, j \in 0 .. n : s[i] = s[j] => i = j
      /\ \A i, j \in 1 .. n + 1 : s[i] = s[j] => i = j
  BY Distinct DEF IsList
<1>3. Reached[k] = s[k + 1]
  BY WalksAlong
<1>4. prev[s[k + 1]] = s[k] /\ s[k] \in Nodes /\ s[k + 1] \in Nodes
  BY <1>1
<1>5. ~func[v] /\ v \in Nodes /\ v # Header
  BY TimersAssumption DEF VTSetI, Nodes
<1>6. \A i \in 0 .. n + 1 : s[i] # v
  <2>1. \A i \in 1 .. n : s[i] # v
    BY <1>1, <1>5
  <2> QED
    BY <1>1, <1>5, <2>1
<1>7. /\ next' = [next EXCEPT ![v] = s[k + 1], ![s[k]] = v]
      /\ prev' = [prev EXCEPT ![v] = s[k], ![s[k + 1]] = v]
      /\ func' = [func EXCEPT ![v] = TRUE]
  BY <1>3, <1>4 DEF VTSetI
<1>8. /\ next'[v] = s[k + 1] /\ next'[s[k]] = v
      /\ \A u \in Nodes : u # v /\ u # s[k] => next'[u] = next[u]
      /\ prev'[v] = s[k] /\ prev'[s[k + 1]] = v
      /\ \A u \in Nodes : u # v /\ u # s[k + 1] => prev'[u] = prev[u]
      /\ func'[v] /\ \A u \in Timers : u # v => func'[u] = func[u]
  <2>1. s[k] # v /\ s[k + 1] # v
    BY <1>1, <1>6
  <2>2. /\ next'[v] = s[k + 1] /\ next'[s[k]] = v
        /\ \A u \in Nodes : u # v /\ u # s[k] => next'[u] = next[u]
    BY <2>1, <1>4, <1>5, <1>7 DEF TypeOK
  <2>3. /\ prev'[v] = s[k] /\ prev'[s[k + 1]] = v
        /\ \A u \in Nodes : u # v /\ u # s[k + 1] => prev'[u] = prev[u]
    BY <2>1, <1>4, <1>5, <1>7 DEF TypeOK
  <2>4. func'[v] /\ \A u \in Timers : u # v => func'[u] = func[u]
    BY <1>7 DEF TypeOK
  <2> QED
    BY <2>2, <2>3, <2>4
<1>9. /\ S \in [0 .. n + 2 -> Nodes]
      /\ \A i \in 0 .. k : S[i] = s[i]
      /\ S[k + 1] = v
      /\ \A i \in k + 2 .. n + 2 : S[i] = s[i - 1]
  BY <1>1, <1>5 DEF Inserted
<1> HIDE DEF S
<1>10. S[0] = Header /\ S[n + 2] = Header
  <2>1. 0 \in 0 .. k /\ n + 2 \in k + 2 .. n + 2 /\ (n + 2) - 1 = n + 1
    BY <1>1
  <2> QED
    BY <2>1, <1>1, <1>9
<1>11. \A i \in 1 .. n + 1 : S[i] \in Timers /\ func'[S[i]]
  <2>1. \A i \in 1 .. n : s[i] \in Timers /\ func'[s[i]]
    BY <1>1, <1>6, <1>8
  <2> TAKE i \in 1 .. n + 1
  <2>2. CASE i <= k
    <3>1. i \in 0 .. k /\ i \in 1 .. n
      BY <2>2, <1>1
    <3> QED
      BY <2>1, <3>1, <1>9
  <2>3. CASE i = k + 1
    BY <2>3, <1>8, <1>9
  <2>4. CASE i > k + 1
    <3>1. i \in k + 2 .. n + 2 /\ i - 1 \in 1 .. n
      BY <2>4, <1>1
    <3> QED
      BY <2>1, <3>1, <1>9
  <2> QED
    BY <1>1, <2>2, <2>3, <2>4
<1>12. ASSUME NEW u \in Timers, func'[u]
       PROVE  \E i \in 1 .. n + 1 : S[i] = u
  <2>1. CASE u = v
    BY <2>1, <1>1, <1>9
  <2>2. CASE u # v
    <3>1. PICK i \in 1 .. n : s[i] = u
      BY <2>2, <1>1, <1>8, <1>12
    <3>2. CASE i <= k
      BY <3>1, <3>2, <1>1, <1>9
    <3>3. CASE i > k
      <4>1. i + 1 \in k + 2 .. n + 2 /\ i + 1 \in 1 .. n + 1 /\ (i + 1) - 1 = i
        BY <3>3, <1>1
      <4> QED
        BY <3>1, <4>1, <1>9
    <3> QED
      BY <1>1, <3>2, <3>3
  <2> QED
    BY <2>1, <2>2
<1>13. \A i, j \in 1 .. n + 1 : S[i] = S[j] => i = j
  <2> DEFINE q(i) == IF i <= k THEN i ELSE i - 1
  <2>1. ASSUME NEW i \in 1 .. n + 1, i # k + 1
        PROVE  q(i) \in 1 .. n /\ S[i] = s[q(i)]
    <3>1. n \in Nat
      BY <1>1
    <3>2. CASE i <= k
      BY <3>1, <3>2, <1>9
    <3>3. CASE i > k + 1
      BY <3>1, <3>3, <1>9
    <3> QED
      BY <3>1, <3>2, <3>3, <2>1
  <2>2. ASSUME NEW i \in 1 .. n + 1, i # k + 1
        PROVE  S[i] # v
    <3> HIDE DEF q
    <3>1. q(i) \in 0 .. n + 1
      BY <2>1, <2>2, <1>1
    <3> QED
      BY <3>1, <2>1, <2>2, <1>6
  <2>3. \A i, j \in 1 .. n + 1 : i # k + 1 /\ j # k + 1 /\ q(i) = q(j) => i = j
    BY <1>1
  <2>4. \A i, j \in 1 .. n : s[i] = s[j] => i = j
    BY <1>1, <1>2
  <2> HIDE DEF q
  <2> QED
    BY <2>1, <2>2, <2>3, <2>4, <1>9
<1>14. ASSUME NEW i \in 0 .. n + 1
       PROVE  next'[S[i]] = S[i + 1] /\ prev'[S[i + 1]] = S[i]
  <2>1. CASE i < k
    <3>4. i \in 0 .. k /\ i + 1 \in 0 .. k /\ i \in 0 .. n /\ i + 1 \in 1 .. n
      BY <2>1, <1>1
    <3>1. S[i] = s[i] /\ S[i + 1] = s[i + 1] /\ i \in 0 .. n /\ i + 1 \in 1 .. n
      BY <3>4, <1>9
    <3>2. s[i] # s[k] /\ s[i + 1] # s[k + 1]
      BY <2>1, <3>1, <1>1, <1>2
    <3>3. s[i] \in Nodes /\ s[i + 1] \in Nodes /\ s[i] # v /\ s[i + 1] # v
      BY <3>1, <1>1, <1>6
    <3>5. next[s[i]] = s[i + 1] /\ prev[s[i + 1]] = s[i]
      BY <3>1, <1>1
    <3> QED
      BY <3>1, <3>2, <3>3, <3>5, <1>8
  <2>2. CASE i = k
    <3>1. k \in 0 .. k
      BY <1>1
    <3>2. S[i] = s[k] /\ S[i + 1] = v
      BY <3>1, <2>2, <1>9
    <3> QED
      BY <3>2, <1>8
  <2>3. CASE i = k + 1
    <3>1. S[i] = v /\ S[i + 1] = s[k + 1]
      BY <2>3, <1>1, <1>9
    <3> QED
      BY <3>1, <1>8
  <2>4. CASE i > k + 1
    <3>5. /\ i \in k + 2 .. n + 2 /\ i + 1 \in k + 2 .. n + 2 /\ (i + 1) - 1 = i
          /\ i \in 1 .. n + 1 /\ i - 1 \in 0 .. n
      BY <2>4, <1>1
    <3>1. S[i] = s[i - 1] /\ S[i + 1] = s[i] /\ i \in 1 .. n + 1 /\ i - 1 \in 0 .. n
      BY <3>5, <1>9
    <3>2. s[i - 1] # s[k] /\ s[i] # s[k + 1]
      BY <2>4, <3>1, <1>1, <1>2
    <3>3. s[i - 1] \in Nodes /\ s[i] \in Nodes /\ s[i - 1] # v /\ s[i] # v
      BY <3>1, <1>1, <1>6
    <3>4. next[s[i - 1]] = s[i] /\ prev[s[i]] = s[i - 1]
      BY <3>1, <1>1
    <3> QED
      BY <3>1, <3>2, <3>3, <3>4, <1>8
  <2> QED
    BY <1>1, <2>1, <2>2, <2>3, <2>4
<1>15. n + 1 \in Nat /\ (n + 1) + 1 = n + 2
  BY <1>1
<1> QED
  BY <1>9, <1>10, <1>11, <1>12, <1>13, <1>14, <1>15 DEF Linked, S

(* It gets the ticks that remain after theirs, and the one it is put       *)
(* before is left with the difference to it.                               *)
LEMMA SetDue ==
  ASSUME TypeOK, NEW n, NEW s, NEW d, IsList(n, s, d),
         NEW v \in Timers, NEW t \in 1 .. MaxTime, VTSetI(v, t),
         NEW k \in 0 .. n, k = Stop(t)
  PROVE  Due(n + 1, Inserted(s, n + 2, k, v), Inserted(d, n + 1, k, t))'
<1> DEFINE S == Inserted(s, n + 2, k, v)
           D == Inserted(d, n + 1, k, t)
<1>1. /\ n \in Nat /\ t \in 0 .. MaxTime /\ t \in Nat /\ t # 0
      /\ s \in [0 .. n + 1 -> Nodes]
      /\ s[0] = Header /\ s[n + 1] = Header
      /\ \A i \in 1 .. n : s[i] # Header
  BY TimersAssumption, MaxTimeAssumption DEF IsList, Linked
<1>2. /\ d \in [0 .. n -> 0 .. MaxTime]
      /\ \A i \in 0 .. n : d[i] \in Nat
      /\ d[0] = 0
      /\ \A i, j \in 0 .. n : i <= j => d[i] <= d[j]
      /\ \A i \in 1 .. n : time[s[i]] = d[i] - d[i - 1]
      /\ time[Header] = MaxTime
      /\ ~ticking => \A i \in 1 .. n : d[i] # 0
  BY MaxTimeAssumption DEF IsList, Due
<1>3. d[k] < t /\ (k < n => t <= d[k + 1])
  BY StopIs
<1>4. Reached[k] = s[k + 1] /\ Passed[k] = d[k]
  BY WalksAlong
<1>5. ~func[v] /\ v \in Nodes /\ v # Header
  BY TimersAssumption DEF VTSetI, Nodes
<1>6. \A i \in 0 .. n + 1 : s[i] # v
  <2>1. \A i \in 1 .. n : s[i] # v
    BY <1>5 DEF IsList, Linked
  <2> QED
    BY <1>1, <1>5, <2>1
<1>7. \A i, j \in 1 .. n + 1 : s[i] = s[j] => i = j
  BY Distinct DEF IsList
<1>8. /\ time' = [time EXCEPT ![v] = t - d[k],
                              ![s[k + 1]] = IF s[k + 1] = Header
                                              THEN @ ELSE @ - (t - d[k])]
      /\ ticking' = ticking
  BY <1>4 DEF VTSetI
<1>9. /\ time'[v] = t - d[k]
      /\ time'[Header] = MaxTime
      /\ k < n => time'[s[k + 1]] = time[s[k + 1]] - (t - d[k])
      /\ \A u \in Nodes : u # v /\ u # s[k + 1] => time'[u] = time[u]
  <2>1. s[k + 1] \in Nodes /\ s[k + 1] # v /\ Header \in Nodes
    BY <1>1, <1>6 DEF Nodes
  <2>2. k < n => s[k + 1] # Header
    BY <1>1
  <2> QED
    BY <1>2, <1>5, <1>8, <2>1, <2>2 DEF TypeOK
<1>10. /\ S[k + 1] = v
       /\ \A i \in 0 .. k : S[i] = s[i]
       /\ \A i \in k + 2 .. n + 2 : S[i] = s[i - 1]
  BY <1>1 DEF Inserted
<1>11. /\ D \in [0 .. n + 1 -> 0 .. MaxTime]
       /\ D[k + 1] = t
       /\ \A i \in 0 .. k : D[i] = d[i]
       /\ \A i \in k + 2 .. n + 1 : D[i] = d[i - 1]
  BY <1>1, <1>2 DEF Inserted
<1> HIDE DEF S, D
<1>12. D[0] = 0
  BY <1>1, <1>2, <1>11
<1>13. ASSUME NEW i \in 0 .. n + 1, NEW j \in 0 .. n + 1, i <= j
       PROVE  D[i] <= D[j]
  <2>0. n \in Nat /\ \A a, b \in 0 .. n : a <= b => d[a] <= d[b]
    BY <1>1, <1>2
  <2>1. CASE j <= k
    <3>1. i \in 0 .. k /\ j \in 0 .. k /\ i \in 0 .. n /\ j \in 0 .. n
      BY <2>0, <2>1, <1>13
    <3> QED
      BY <2>0, <3>1, <1>11, <1>13
  <2>2. CASE i <= k /\ j = k + 1
    <3>1. D[i] = d[i] /\ d[i] <= d[k] /\ i \in 0 .. n
      BY <2>0, <2>2, <1>11
    <3>2. D[j] = t
      BY <2>2, <1>11
    <3>3. d[k] <= t /\ d[k] \in Int /\ d[i] \in Int /\ t \in Int
      BY <3>1, <1>1, <1>2, <1>3
    <3> QED
      BY <3>1, <3>2, <3>3
  <2>3. CASE i <= k /\ j > k + 1
    <3>1. /\ j - 1 \in 0 .. n /\ i \in 0 .. n /\ i <= j - 1
          /\ j \in k + 2 .. n + 1 /\ i \in 0 .. k
      BY <2>0, <2>3
    <3> QED
      BY <2>0, <3>1, <1>11
  <2>4. CASE i = k + 1 /\ j = k + 1
    BY <2>4, <1>1, <1>11
  <2>5. CASE i = k + 1 /\ j > k + 1
    <3>1. /\ j - 1 \in 0 .. n /\ k + 1 \in 0 .. n /\ k + 1 <= j - 1
          /\ j \in k + 2 .. n + 1 /\ k < n
      BY <2>0, <2>5
    <3>2. d[k + 1] <= d[j - 1] /\ t <= d[k + 1] /\ D[j] = d[j - 1] /\ D[i] = t
      BY <2>0, <2>5, <3>1, <1>3, <1>11
    <3>3. d[k + 1] \in Nat /\ d[j - 1] \in Nat
      BY <3>1, <1>2
    <3> QED
      BY <3>2, <3>3, <1>1
  <2>6. CASE i > k + 1
    <3>1. /\ j - 1 \in 0 .. n /\ i - 1 \in 0 .. n /\ i - 1 <= j - 1
          /\ j \in k + 2 .. n + 1 /\ i \in k + 2 .. n + 1
      BY <2>0, <2>6, <1>13
    <3> QED
      BY <2>0, <3>1, <1>11
  <2> QED
    BY <2>0, <1>13, <2>1, <2>2, <2>3, <2>4, <2>5, <2>6
<1>14. ASSUME NEW i \in 1 .. n + 1
       PROVE  time'[S[i]] = D[i] - D[i - 1]
  <2>0. n \in Nat
    BY <1>1
  <2>1. CASE i <= k
    <3>1. i \in 0 .. k /\ i - 1 \in 0 .. k /\ i \in 1 .. n /\ i \in 0 .. n + 1
      BY <2>0, <2>1
    <3>2. S[i] = s[i] /\ D[i] = d[i] /\ D[i - 1] = d[i - 1]
      BY <3>1, <1>10, <1>11
    <3>3. s[i] # s[k + 1]
      <4>1. i \in 1 .. n + 1 /\ k + 1 \in 1 .. n + 1 /\ i # k + 1
        BY <2>0, <2>1
      <4> QED
        BY <4>1, <1>7
    <3>4. s[i] \in Nodes /\ s[i] # v
      BY <3>1, <1>1, <1>6
    <3> QED
      BY <3>1, <3>2, <3>3, <3>4, <1>2, <1>9
  <2>2. CASE i = k + 1
    <3>1. k \in 0 .. k /\ i - 1 = k
      BY <2>0, <2>2
    <3> QED
      BY <2>2, <3>1, <1>9, <1>10, <1>11
  <2>3. CASE i = k + 2
    <3>1. /\ k < n /\ k + 1 \in 1 .. n /\ i - 1 = k + 1
          /\ i \in k + 2 .. n + 2 /\ i \in k + 2 .. n + 1
      BY <2>0, <2>3
    <3>2. S[i] = s[k + 1] /\ D[i] = d[k + 1] /\ D[i - 1] = t
      BY <3>1, <1>10, <1>11
    <3>3. time[s[k + 1]] = d[k + 1] - d[k] /\ d[k + 1] \in Nat /\ d[k] \in Nat
      <4>1. (k + 1) - 1 = k /\ k + 1 \in 0 .. n
        BY <2>0, <3>1
      <4> QED
        BY <3>1, <4>1, <1>2
    <3> QED
      BY <3>1, <3>2, <3>3, <1>1, <1>9
  <2>4. CASE i > k + 2
    <3>1. /\ i \in k + 2 .. n + 2 /\ i \in k + 2 .. n + 1 /\ i - 1 \in k + 2 .. n + 1
          /\ i - 1 \in 1 .. n /\ i - 1 \in 0 .. n + 1
      BY <2>0, <2>4
    <3>2. S[i] = s[i - 1] /\ D[i] = d[i - 1] /\ D[i - 1] = d[(i - 1) - 1]
      BY <3>1, <1>10, <1>11
    <3>3. s[i - 1] # s[k + 1]
      <4>1. i - 1 \in 1 .. n + 1 /\ k + 1 \in 1 .. n + 1 /\ i - 1 # k + 1
        BY <2>0, <2>4
      <4> QED
        BY <4>1, <1>7
    <3>4. s[i - 1] \in Nodes /\ s[i - 1] # v
      BY <3>1, <1>1, <1>6
    <3> QED
      BY <3>1, <3>2, <3>3, <3>4, <1>2, <1>9
  <2> QED
    BY <2>0, <2>1, <2>2, <2>3, <2>4
<1>15. ASSUME ~ticking', NEW i \in 1 .. n + 1
       PROVE  D[i] # 0
  <2>0. n \in Nat /\ \A a \in 1 .. n : d[a] # 0
    BY <1>1, <1>2, <1>8, <1>15
  <2>1. CASE i <= k
    <3>1. i \in 0 .. k /\ i \in 1 .. n
      BY <2>0, <2>1
    <3> QED
      BY <2>0, <3>1, <1>11
  <2>2. CASE i = k + 1
    BY <2>2, <1>1, <1>11
  <2>3. CASE i > k + 1
    <3>1. i \in k + 2 .. n + 1 /\ i - 1 \in 1 .. n
      BY <2>0, <2>3
    <3> QED
      BY <2>0, <3>1, <1>11
  <2> QED
    BY <2>0, <2>1, <2>2, <2>3
<1> QED
  BY <1>9, <1>11, <1>12, <1>13, <1>14, <1>15 DEF Due, S, D

(* A timer that leaves the list, in chVTResetI or in the loop of           *)
(* chVTDoTickI: its neighbours are linked to each other.                   *)
LEMMA RemoveLinks ==
  ASSUME TypeOK, NEW n, NEW s, Linked(n, s), NEW k \in 1 .. n,
         next' = [next EXCEPT ![s[k - 1]] = s[k + 1]],
         prev' = [prev EXCEPT ![s[k + 1]] = s[k - 1]],
         func' = [func EXCEPT ![s[k]] = FALSE]
  PROVE  Linked(n - 1, Removed(s, n, k))'
<1> DEFINE S == Removed(s, n, k)
<1>1. /\ n \in Nat
      /\ s \in [0 .. n + 1 -> Nodes]
      /\ s[0] = Header /\ s[n + 1] = Header
      /\ \A i \in 1 .. n : s[i] \in Timers /\ func[s[i]]
      /\ \A u \in Timers : func[u] => \E i \in 1 .. n : s[i] = u
      /\ \A i \in 0 .. n : next[s[i]] = s[i + 1] /\ prev[s[i + 1]] = s[i]
  BY DEF Linked
<1>2. /\ \A i, j \in 0 .. n : s[i] = s[j] => i = j
      /\ \A i, j \in 1 .. n + 1 : s[i] = s[j] => i = j
  BY Distinct
<1>3. /\ s[k - 1] \in Nodes /\ s[k + 1] \in Nodes /\ s[k] \in Timers
  BY <1>1
<1>4. /\ next'[s[k - 1]] = s[k + 1]
      /\ \A u \in Nodes : u # s[k - 1] => next'[u] = next[u]
      /\ prev'[s[k + 1]] = s[k - 1]
      /\ \A u \in Nodes : u # s[k + 1] => prev'[u] = prev[u]
      /\ ~func'[s[k]] /\ \A u \in Timers : u # s[k] => func'[u] = func[u]
  BY <1>3 DEF TypeOK
<1>5. /\ S \in [0 .. n -> Nodes]
      /\ \A i \in 0 .. k - 1 : S[i] = s[i]
      /\ \A i \in k .. n : S[i] = s[i + 1]
  BY <1>1 DEF Removed
<1> HIDE DEF S
<1>6. S[0] = Header /\ S[n] = Header
  <2>1. 0 \in 0 .. k - 1 /\ n \in k .. n
    BY <1>1
  <2> QED
    BY <2>1, <1>1, <1>5
<1>7. ASSUME NEW i \in 1 .. n - 1
      PROVE  S[i] \in Timers /\ func'[S[i]]
  <2>0. n \in Nat
    BY <1>1
  <2>1. CASE i < k
    <3>1. i \in 0 .. k - 1 /\ i \in 1 .. n /\ i \in 0 .. n /\ k \in 0 .. n /\ i # k
      BY <2>0, <2>1
    <3> QED
      BY <3>1, <1>1, <1>2, <1>4, <1>5
  <2>2. CASE i >= k
    <3>1. i \in k .. n /\ i + 1 \in 1 .. n /\ i + 1 \in 0 .. n /\ k \in 0 .. n /\ i + 1 # k
      BY <2>0, <2>2
    <3> QED
      BY <3>1, <1>1, <1>2, <1>4, <1>5
  <2> QED
    BY <2>0, <2>1, <2>2
<1>8. ASSUME NEW u \in Timers, func'[u]
      PROVE  \E i \in 1 .. n - 1 : S[i] = u
  <2>0. n \in Nat
    BY <1>1
  <2>1. u # s[k] /\ func[u]
    BY <1>4, <1>8
  <2>2. PICK i \in 1 .. n : s[i] = u
    BY <2>1, <1>1
  <2>3. CASE i < k
    <3>1. i \in 0 .. k - 1 /\ i \in 1 .. n - 1
      BY <2>0, <2>3
    <3> QED
      BY <3>1, <2>2, <1>5
  <2>4. CASE i > k
    <3>1. i - 1 \in k .. n /\ i - 1 \in 1 .. n - 1 /\ (i - 1) + 1 = i
      BY <2>0, <2>4
    <3> QED
      BY <3>1, <2>2, <1>5
  <2> QED
    BY <2>0, <2>1, <2>2, <2>3, <2>4
<1>9. \A i, j \in 1 .. n - 1 : S[i] = S[j] => i = j
  <2> DEFINE q(i) == IF i < k THEN i ELSE i + 1
  <2>0. n \in Nat
    BY <1>1
  <2>1. ASSUME NEW i \in 1 .. n - 1
        PROVE  q(i) \in 0 .. n /\ S[i] = s[q(i)]
    <3>1. CASE i < k
      BY <2>0, <3>1, <1>5
    <3>2. CASE i >= k
      BY <2>0, <3>2, <1>5
    <3> QED
      BY <2>0, <3>1, <3>2
  <2>2. \A i, j \in 1 .. n - 1 : q(i) = q(j) => i = j
    BY <2>0
  <2> HIDE DEF q
  <2> QED
    BY <2>1, <2>2, <1>2
<1>10. ASSUME NEW i \in 0 .. n - 1
       PROVE  next'[S[i]] = S[i + 1] /\ prev'[S[i + 1]] = S[i]
  <2>0. n \in Nat
    BY <1>1
  <2>1. CASE i < k - 1
    <3>1. /\ i \in 0 .. k - 1 /\ i + 1 \in 0 .. k - 1 /\ i \in 0 .. n /\ i \in 0 .. n + 1
          /\ i + 1 \in 0 .. n + 1 /\ i + 1 \in 1 .. n + 1
          /\ k - 1 \in 0 .. n /\ k + 1 \in 1 .. n + 1 /\ i # k - 1 /\ i + 1 # k + 1
      BY <2>0, <2>1
    <3>2. S[i] = s[i] /\ S[i + 1] = s[i + 1]
      BY <3>1, <1>5
    <3>3. s[i] # s[k - 1] /\ s[i + 1] # s[k + 1]
      BY <3>1, <1>2
    <3>4. s[i] \in Nodes /\ s[i + 1] \in Nodes
      BY <3>1, <1>1
    <3>5. next[s[i]] = s[i + 1] /\ prev[s[i + 1]] = s[i]
      BY <3>1, <1>1
    <3> QED
      BY <3>2, <3>3, <3>4, <3>5, <1>4
  <2>2. CASE i = k - 1
    <3>1. i \in 0 .. k - 1 /\ i + 1 = k /\ k \in k .. n
      BY <2>0, <2>2
    <3>2. S[i] = s[k - 1] /\ S[i + 1] = s[k + 1]
      BY <3>1, <2>2, <1>5
    <3> QED
      BY <3>2, <1>4
  <2>3. CASE i > k - 1
    <3>1. /\ i \in k .. n /\ i + 1 \in k .. n
          /\ i + 1 \in 0 .. n /\ (i + 1) + 1 \in 1 .. n + 1
          /\ i + 1 \in 0 .. n + 1 /\ (i + 1) + 1 \in 0 .. n + 1
          /\ k - 1 \in 0 .. n /\ k + 1 \in 1 .. n + 1
          /\ i + 1 # k - 1 /\ (i + 1) + 1 # k + 1
      BY <2>0, <2>3
    <3>2. S[i] = s[i + 1] /\ S[i + 1] = s[(i + 1) + 1]
      BY <3>1, <1>5
    <3>3. s[i + 1] # s[k - 1] /\ s[(i + 1) + 1] # s[k + 1]
      BY <3>1, <1>2
    <3>4. s[i + 1] \in Nodes /\ s[(i + 1) + 1] \in Nodes
      BY <3>1, <1>1
    <3>5. next[s[i + 1]] = s[(i + 1) + 1] /\ prev[s[(i + 1) + 1]] = s[i + 1]
      BY <3>1, <1>1
    <3> QED
      BY <3>2, <3>3, <3>4, <3>5, <1>4
  <2> QED
    BY <2>0, <2>1, <2>2, <2>3
<1>11. n - 1 \in Nat /\ (n - 1) + 1 = n
  BY <1>1
<1> QED
  BY <1>5, <1>6, <1>7, <1>8, <1>9, <1>10, <1>11 DEF Linked, S

(* The one behind it is due when it was: its difference grows by that of   *)
(* the timer removed.                                                      *)
LEMMA RemoveDue ==
  ASSUME TypeOK, NEW n, NEW s, NEW d, IsList(n, s, d), NEW k \in 1 .. n,
         time'[Header] = MaxTime,
         k < n => time'[s[k + 1]] = time[s[k + 1]] + time[s[k]],
         \A u \in Nodes : u # s[k + 1] => time'[u] = time[u],
         ticking' = ticking
  PROVE  Due(n - 1, Removed(s, n, k), Removed(d, n - 1, k))'
<1> DEFINE S == Removed(s, n, k)
           D == Removed(d, n - 1, k)
<1>1. n \in Nat /\ s \in [0 .. n + 1 -> Nodes]
  BY DEF IsList, Linked
<1>2. /\ d \in [0 .. n -> 0 .. MaxTime]
      /\ \A i \in 0 .. n : d[i] \in Nat
      /\ d[0] = 0
      /\ \A i, j \in 0 .. n : i <= j => d[i] <= d[j]
      /\ \A i \in 1 .. n : time[s[i]] = d[i] - d[i - 1]
      /\ ~ticking => \A i \in 1 .. n : d[i] # 0
  BY MaxTimeAssumption DEF IsList, Due
<1>3. \A i, j \in 1 .. n + 1 : s[i] = s[j] => i = j
  BY Distinct DEF IsList
<1>4. /\ \A i \in 0 .. k - 1 : S[i] = s[i]
      /\ \A i \in k .. n : S[i] = s[i + 1]
  BY <1>1 DEF Removed
<1>5. /\ D \in [0 .. n - 1 -> 0 .. MaxTime]
      /\ \A i \in 0 .. k - 1 : D[i] = d[i]
      /\ \A i \in k .. n - 1 : D[i] = d[i + 1]
  <2>1. \A i \in 0 .. n - 1 : i \in 0 .. n /\ i + 1 \in 0 .. n
    BY <1>1
  <2>2. \A i \in 0 .. n - 1 : D[i] = IF i < k THEN d[i] ELSE d[i + 1]
    BY DEF Removed
  <2>3. D \in [0 .. n - 1 -> 0 .. MaxTime]
    BY <2>1, <1>2 DEF Removed
  <2>4. \A i \in 0 .. k - 1 : i \in 0 .. n - 1 /\ i < k
    BY <1>1
  <2>5. \A i \in k .. n - 1 : i \in 0 .. n - 1 /\ ~ (i < k)
    BY <1>1
  <2> HIDE DEF D
  <2> QED
    BY <2>2, <2>3, <2>4, <2>5
<1> HIDE DEF S, D
<1>6. D[0] = 0
  <2>1. 0 \in 0 .. k - 1
    OBVIOUS
  <2> QED
    BY <2>1, <1>2, <1>5
<1>7. ASSUME NEW i \in 0 .. n - 1, NEW j \in 0 .. n - 1, i <= j
      PROVE  D[i] <= D[j]
  <2> DEFINE q(m) == IF m < k THEN m ELSE m + 1
  <2>0. n \in Nat
    BY <1>1
  <2>1. ASSUME NEW m \in 0 .. n - 1
        PROVE  q(m) \in 0 .. n /\ D[m] = d[q(m)]
    <3>1. CASE m < k
      BY <2>0, <3>1, <1>5
    <3>2. CASE m >= k
      BY <2>0, <3>2, <1>5
    <3> QED
      BY <2>0, <3>1, <3>2
  <2>2. q(i) <= q(j)
    BY <2>0, <1>7
  <2> HIDE DEF q
  <2> QED
    BY <2>1, <2>2, <1>2
<1>8. ASSUME NEW i \in 1 .. n - 1
      PROVE  time'[S[i]] = D[i] - D[i - 1]
  <2>0. n \in Nat
    BY <1>1
  <2>1. CASE i < k
    <3>1. /\ i \in 0 .. k - 1 /\ i - 1 \in 0 .. k - 1 /\ i \in 1 .. n /\ i \in 0 .. n + 1
          /\ i \in 1 .. n + 1 /\ k + 1 \in 1 .. n + 1 /\ i # k + 1
      BY <2>0, <2>1
    <3>2. S[i] = s[i] /\ D[i] = d[i] /\ D[i - 1] = d[i - 1]
      BY <3>1, <1>4, <1>5
    <3>3. s[i] # s[k + 1] /\ s[i] \in Nodes
      BY <3>1, <1>1, <1>3
    <3> QED
      BY <3>1, <3>2, <3>3, <1>2
  <2>2. CASE i = k
    <3>1. /\ k \in k .. n /\ k \in k .. n - 1 /\ k - 1 \in 0 .. k - 1 /\ k < n
          /\ k + 1 \in 1 .. n /\ (k + 1) - 1 = k
          /\ k \in 0 .. n /\ k - 1 \in 0 .. n /\ k + 1 \in 0 .. n
      BY <2>0, <2>2
    <3>2. S[i] = s[k + 1] /\ D[i] = d[k + 1] /\ D[i - 1] = d[k - 1]
      BY <3>1, <2>2, <1>4, <1>5
    <3>3. time[s[k + 1]] = d[k + 1] - d[k] /\ time[s[k]] = d[k] - d[k - 1]
      BY <3>1, <1>2
    <3>4. d[k + 1] \in Nat /\ d[k] \in Nat /\ d[k - 1] \in Nat
      BY <3>1, <1>2
    <3> QED
      BY <3>1, <3>2, <3>3, <3>4
  <2>3. CASE i > k
    <3>1. /\ i \in k .. n /\ i \in k .. n - 1 /\ i - 1 \in k .. n - 1 /\ (i - 1) + 1 = i
          /\ i + 1 \in 1 .. n /\ (i + 1) - 1 = i
          /\ i + 1 \in 0 .. n + 1 /\ i + 1 \in 1 .. n + 1
          /\ k + 1 \in 1 .. n + 1 /\ i + 1 # k + 1
      BY <2>0, <2>3
    <3>2. S[i] = s[i + 1] /\ D[i] = d[i + 1] /\ D[i - 1] = d[i]
      BY <3>1, <1>4, <1>5
    <3>3. s[i + 1] # s[k + 1] /\ s[i + 1] \in Nodes
      BY <3>1, <1>1, <1>3
    <3> QED
      BY <3>1, <3>2, <3>3, <1>2
  <2> QED
    BY <2>0, <2>1, <2>2, <2>3
<1>9. ASSUME ~ticking', NEW i \in 1 .. n - 1
      PROVE  D[i] # 0
  <2>0. n \in Nat /\ \A a \in 1 .. n : d[a] # 0
    BY <1>1, <1>2, <1>9
  <2>1. CASE i < k
    <3>1. i \in 0 .. k - 1 /\ i \in 1 .. n
      BY <2>0, <2>1
    <3> QED
      BY <2>0, <3>1, <1>5
  <2>2. CASE i >= k
    <3>1. i \in k .. n - 1 /\ i + 1 \in 1 .. n
      BY <2>0, <2>2
    <3> QED
      BY <2>0, <3>1, <1>5
  <2> QED
    BY <2>0, <2>1, <2>2
<1> QED
  BY <1>5, <1>6, <1>7, <1>8, <1>9 DEF Due, S, D

----------------------------------------------------------------------------
(* What each action does to the list. *)

(* chVTSetI inserts the timer. *)
LEMMA SetList ==
  ASSUME TypeOK, NEW n, NEW s, NEW d, IsList(n, s, d),
         NEW v \in Timers, NEW t \in 1 .. MaxTime, VTSetI(v, t)
  PROVE  /\ TypeOK'
         /\ \E k \in 0 .. n :
              IsList(n + 1, Inserted(s, n + 2, k, v), Inserted(d, n + 1, k, t))'
<1>1. PICK k \in 0 .. n : k = Stop(t)
  BY StopIs
<1>2. IsList(n + 1, Inserted(s, n + 2, k, v), Inserted(d, n + 1, k, t))'
  BY <1>1, SetLinks, SetDue DEF IsList
<1>3. /\ n \in Nat /\ s \in [0 .. n + 1 -> Nodes]
      /\ prev[s[k + 1]] \in Nodes /\ s[k + 1] \in Nodes
  BY DEF IsList, Linked, TypeOK
<1>4. /\ d[k] < t /\ (k < n => t <= d[k + 1])
      /\ Reached[k] = s[k + 1] /\ Passed[k] = d[k]
  BY <1>1, StopIs, WalksAlong
<1>5. d[k] \in 0 .. MaxTime /\ (k < n => d[k + 1] \in 0 .. MaxTime)
  BY <1>3 DEF IsList, Due
<1>6. v \in Nodes
  BY DEF Nodes
<1>7. t - d[k] \in 0 .. MaxTime
  BY <1>4, <1>5, MaxTimeAssumption
<1>8. s[k + 1] # Header => time[s[k + 1]] - (t - d[k]) \in 0 .. MaxTime
  <2>1. s[k + 1] # Header => k < n
    BY <1>3 DEF IsList, Linked
  <2>2. k < n => time[s[k + 1]] = d[k + 1] - d[k]
    <3>1. k < n => k + 1 \in 1 .. n /\ (k + 1) - 1 = k
      BY <1>3
    <3> QED
      BY <3>1 DEF IsList, Due
  <2> QED
    BY <1>4, <1>5, <2>1, <2>2, MaxTimeAssumption
<1>9. time' \in [Nodes -> 0 .. MaxTime]
  <2> DEFINE p == s[k + 1]
             x == t - d[k]
             y == IF p = Header THEN time[p] ELSE time[p] - x
  <2>1. time' = [time EXCEPT ![v] = x, ![p] = IF p = Header THEN @ ELSE @ - x]
    BY <1>1, <1>4 DEF VTSetI
  <2>2. p # v => time' = [time EXCEPT ![v] = x, ![p] = y]
    BY <2>1, <1>3, <1>6 DEF TypeOK
  <2>3. p # v
    <3>1. k + 1 \in 1 .. n \/ k + 1 = n + 1
      BY <1>3
    <3> QED
      BY <3>1, TimersAssumption DEF IsList, Linked, VTSetI
  <2>4. x \in 0 .. MaxTime /\ y \in 0 .. MaxTime
    BY <1>3, <1>7, <1>8 DEF TypeOK
  <2> HIDE DEF p, x, y
  <2> QED
    BY <2>2, <2>3, <2>4 DEF TypeOK
<1>10. /\ next' = [next EXCEPT ![v] = s[k + 1], ![prev[s[k + 1]]] = v]
       /\ prev' = [prev EXCEPT ![v] = prev[s[k + 1]], ![s[k + 1]] = v]
       /\ func' = [func EXCEPT ![v] = TRUE] /\ UNCHANGED <<systime, ticking>>
  BY <1>1, <1>4 DEF VTSetI
<1>11. TypeOK'
  BY <1>3, <1>6, <1>9, <1>10 DEF TypeOK
<1> QED
  BY <1>2, <1>11

(* chVTResetI removes the timer. *)
LEMMA ResetList ==
  ASSUME TypeOK, NEW n, NEW s, NEW d, IsList(n, s, d),
         NEW v \in Timers, VTResetI(v)
  PROVE  /\ TypeOK'
         /\ \E k \in 1 .. n : /\ s[k] = v
                              /\ IsList(n - 1, Removed(s, n, k), Removed(d, n - 1, k))'
<1>1. PICK k \in 1 .. n : s[k] = v
  BY DEF VTResetI, IsList, Linked
<1>2. n \in Nat /\ s[n + 1] = Header /\ \A i \in 1 .. n : s[i] # Header
  BY TimersAssumption DEF IsList, Linked
<1>3. next[v] = s[k + 1] /\ prev[v] = s[k - 1]
  <2>1. k \in 0 .. n /\ k - 1 \in 0 .. n /\ (k - 1) + 1 = k
    BY <1>2
  <2> QED
    BY <1>1, <2>1 DEF IsList, Linked
<1>4. s[k + 1] \in Nodes /\ s[k - 1] \in Nodes /\ v \in Nodes
  BY <1>2 DEF IsList, Linked, Nodes
<1>5. s[k + 1] = Header <=> k = n
  BY <1>2
<1>6. /\ next' = [next EXCEPT ![s[k - 1]] = s[k + 1]]
      /\ prev' = [prev EXCEPT ![s[k + 1]] = s[k - 1]]
      /\ func' = [func EXCEPT ![s[k]] = FALSE]
      /\ time' = [time EXCEPT ![s[k + 1]] =
                     IF s[k + 1] = Header THEN time[s[k + 1]]
                                          ELSE time[s[k + 1]] + time[v]]
      /\ UNCHANGED <<systime, ticking>>
  BY <1>1, <1>3 DEF VTResetI
<1>7. Linked(n - 1, Removed(s, n, k))'
  BY <1>6, RemoveLinks DEF IsList
<1>8. /\ time'[Header] = MaxTime
      /\ k < n => time'[s[k + 1]] = time[s[k + 1]] + time[s[k]]
      /\ \A u \in Nodes : u # s[k + 1] => time'[u] = time[u]
  <2>1. time[Header] = MaxTime /\ Header \in Nodes
    BY DEF IsList, Due, Nodes
  <2> QED
    BY <2>1, <1>1, <1>2, <1>4, <1>5, <1>6 DEF TypeOK
<1>9. Due(n - 1, Removed(s, n, k), Removed(d, n - 1, k))'
  BY <1>6, <1>8, RemoveDue
<1>10. k < n => time[s[k + 1]] + time[v] \in 0 .. MaxTime
  <2> SUFFICES ASSUME k < n PROVE time[s[k + 1]] + time[v] \in 0 .. MaxTime
    OBVIOUS
  <2>1. /\ k + 1 \in 1 .. n /\ (k + 1) - 1 = k
        /\ k + 1 \in 0 .. n /\ k - 1 \in 0 .. n /\ k \in 0 .. n
    BY <1>2
  <2>2. time[s[k + 1]] = d[k + 1] - d[k] /\ time[v] = d[k] - d[k - 1]
    BY <2>1, <1>1 DEF IsList, Due
  <2>3. d[k + 1] \in 0 .. MaxTime /\ d[k] \in 0 .. MaxTime /\ d[k - 1] \in 0 .. MaxTime
    BY <2>1 DEF IsList, Due
  <2>4. d[k - 1] <= d[k + 1]
    BY <2>1 DEF IsList, Due
  <2> QED
    BY <2>2, <2>3, <2>4, MaxTimeAssumption
<1>11. TypeOK'
  <2>1. time' \in [Nodes -> 0 .. MaxTime]
    <3> DEFINE y == IF s[k + 1] = Header THEN time[s[k + 1]]
                                         ELSE time[s[k + 1]] + time[v]
    <3>1. time' = [time EXCEPT ![s[k + 1]] = y]
      BY <1>6
    <3>2. y \in 0 .. MaxTime
      BY <1>2, <1>4, <1>5, <1>10 DEF TypeOK
    <3> HIDE DEF y
    <3> QED
      BY <3>1, <3>2 DEF TypeOK
  <2> QED
    BY <2>1, <1>4, <1>6 DEF TypeOK
<1> QED
  BY <1>1, <1>7, <1>9, <1>11 DEF IsList

(* A round of the loop of chVTDoTickI removes the first timer, which is    *)
(* due.                                                                    *)
LEMMA FireList ==
  ASSUME TypeOK, NEW n, NEW s, NEW d, IsList(n, s, d),
         NEW v \in Timers, FireI(v)
  PROVE  /\ TypeOK'
         /\ n > 0 /\ s[1] = v /\ d[1] = 0
         /\ IsList(n - 1, Removed(s, n, 1), Removed(d, n - 1, 1))'
<1>1. n \in Nat /\ s[0] = Header /\ s[n + 1] = Header
  BY DEF IsList, Linked
<1>2. next[Header] = s[1]
  <2>1. 0 \in 0 .. n /\ 0 + 1 = 1
    BY <1>1
  <2> QED
    BY <1>1, <2>1 DEF IsList, Linked
<1>3. s[1] = v /\ n > 0 /\ 1 \in 1 .. n
  <2>1. s[1] = v /\ v # Header
    BY <1>2, TimersAssumption DEF FireI
  <2>2. n # 0
    BY <1>1, <2>1
  <2> QED
    BY <1>1, <2>1, <2>2
<1>4. /\ next[v] = s[2] /\ s[2] \in Nodes /\ Header \in Nodes
      /\ s[1 - 1] = Header /\ s[1 + 1] = s[2]
  <2>1. 1 \in 0 .. n /\ 1 + 1 = 2 /\ 2 \in 0 .. n + 1 /\ 1 - 1 = 0
    BY <1>1, <1>3
  <2>2. next[s[1]] = s[1 + 1] /\ s[2] \in Nodes
    BY <2>1 DEF IsList, Linked
  <2> QED
    BY <2>1, <2>2, <1>1, <1>3 DEF Nodes
<1>5. /\ next' = [next EXCEPT ![s[1 - 1]] = s[1 + 1]]
      /\ prev' = [prev EXCEPT ![s[1 + 1]] = s[1 - 1]]
      /\ func' = [func EXCEPT ![s[1]] = FALSE]
      /\ time[v] = 0 /\ UNCHANGED <<time, systime, ticking>>
  BY <1>3, <1>4 DEF FireI
<1>6. Linked(n - 1, Removed(s, n, 1))'
  BY <1>3, <1>5, RemoveLinks DEF IsList
<1>7. d[1] = 0
  <2>1. time[s[1]] = d[1] - d[1 - 1] /\ d[0] = 0 /\ 1 - 1 = 0
    BY <1>3 DEF IsList, Due
  <2>2. d[1] \in Int
    BY <1>1, <1>3, MaxTimeAssumption DEF IsList, Due
  <2> QED
    BY <1>3, <1>5, <2>1, <2>2
<1>8. Due(n - 1, Removed(s, n, 1), Removed(d, n - 1, 1))'
  <2>1. /\ time'[Header] = MaxTime
        /\ 1 < n => time'[s[1 + 1]] = time[s[1 + 1]] + time[s[1]]
        /\ \A u \in Nodes : u # s[1 + 1] => time'[u] = time[u]
    <3>1. time[Header] = MaxTime
      BY DEF IsList, Due
    <3>2. time[s[2]] \in Int
      BY <1>4, MaxTimeAssumption DEF TypeOK
    <3> QED
      BY <3>1, <3>2, <1>3, <1>4, <1>5
  <2> QED
    BY <2>1, <1>3, <1>5, RemoveDue
<1>9. TypeOK'
  BY <1>3, <1>4, <1>5 DEF TypeOK
<1> QED
  BY <1>3, <1>6, <1>7, <1>8, <1>9 DEF IsList

(* The tick takes one from the first difference, and so from all that is   *)
(* left; before it nothing is due.                                         *)
Ticked(d, n) == [i \in 0 .. n |-> IF i = 0 THEN 0 ELSE d[i] - 1]

LEMMA TickList ==
  ASSUME TypeOK, NEW n, NEW s, NEW d, IsList(n, s, d), VTDoTickI
  PROVE  /\ TypeOK'
         /\ \A i \in 1 .. n : d[i] # 0
         /\ IsList(n, s, Ticked(d, n))'
<1> DEFINE D == Ticked(d, n)
<1>1. n \in Nat /\ s[0] = Header /\ s[n + 1] = Header /\ s \in [0 .. n + 1 -> Nodes]
  BY DEF IsList, Linked
<1>2. next[Header] = s[1] /\ s[1] \in Nodes /\ Header \in Nodes
  <2>1. 0 \in 0 .. n /\ 0 + 1 = 1
    BY <1>1
  <2>2. next[s[0]] = s[0 + 1]
    BY <2>1 DEF IsList, Linked
  <2> QED
    BY <1>1, <2>1, <2>2 DEF Nodes
<1>3. s[1] = Header <=> n = 0
  <2>1. n > 0 => 1 \in 1 .. n
    BY <1>1
  <2>2. n > 0 => s[1] \in Timers
    BY <2>1 DEF IsList, Linked
  <2> QED
    BY <1>1, <2>2, TimersAssumption
<1>4. /\ d \in [0 .. n -> 0 .. MaxTime]
      /\ \A i \in 0 .. n : d[i] \in Nat /\ d[i] <= MaxTime
      /\ d[0] = 0
      /\ \A i, j \in 0 .. n : i <= j => d[i] <= d[j]
      /\ \A i \in 1 .. n : time[s[i]] = d[i] - d[i - 1]
      /\ time[Header] = MaxTime
  BY MaxTimeAssumption DEF IsList, Due
<1>5. \A i \in 1 .. n : d[i] # 0
  BY DEF VTDoTickI, IsList, Due
<1>6. /\ time' = [time EXCEPT ![s[1]] = IF s[1] = Header THEN time[s[1]]
                                                         ELSE time[s[1]] - 1]
      /\ ticking' = (s[1] # Header)
      /\ systime' = (systime + 1) % (MaxTime + 1)
      /\ UNCHANGED <<next, prev, func>>
  BY <1>2 DEF VTDoTickI
<1>7. Linked(n, s)'
  BY <1>6 DEF IsList, Linked
<1>8. /\ D \in [0 .. n -> 0 .. MaxTime]
      /\ D[0] = 0
      /\ \A i \in 1 .. n : D[i] = d[i] - 1
  <2>1. \A i \in 1 .. n : i \in 0 .. n /\ d[i] - 1 \in 0 .. MaxTime
    BY <1>1, <1>4, <1>5, MaxTimeAssumption
  <2> QED
    BY <2>1, <1>1, MaxTimeAssumption DEF Ticked
<1>9. /\ time'[Header] = MaxTime
      /\ n > 0 => time'[s[1]] = time[s[1]] - 1
      /\ \A u \in Nodes : u # s[1] => time'[u] = time[u]
  BY <1>1, <1>2, <1>3, <1>4, <1>6 DEF TypeOK
<1> HIDE DEF D
<1>10. \A i, j \in 0 .. n : i <= j => D[i] <= D[j]
  <2>1. ASSUME NEW i \in 0 .. n, NEW j \in 0 .. n, i <= j
        PROVE  D[i] <= D[j]
    <3>1. d[i] \in Nat /\ d[j] \in Nat /\ d[i] <= d[j]
      BY <1>4, <2>1
    <3>2. CASE i = 0
      <4>1. D[j] \in 0 .. MaxTime
        BY <1>8
      <4> QED
        BY <3>2, <4>1, <1>8, MaxTimeAssumption
    <3>3. CASE i # 0
      <4>1. i \in 1 .. n /\ j \in 1 .. n
        BY <1>1, <2>1, <3>3
      <4> QED
        BY <4>1, <3>1, <1>8
    <3> QED
      BY <3>2, <3>3
  <2> QED
    BY <2>1
<1>11. ASSUME NEW i \in 1 .. n
       PROVE  time'[s[i]] = D[i] - D[i - 1]
  <2>0. i \in 0 .. n /\ i - 1 \in 0 .. n
    BY <1>1
  <2>1. time[s[i]] = d[i] - d[i - 1] /\ D[i] = d[i] - 1
    BY <1>4, <1>8
  <2>2. d[i] \in Nat /\ d[i - 1] \in Nat
    BY <2>0, <1>4
  <2>3. CASE i = 1
    <3>1. i - 1 = 0 /\ n > 0
      BY <2>3, <1>1
    <3> QED
      BY <2>1, <2>2, <2>3, <3>1, <1>4, <1>8, <1>9
  <2>4. CASE i # 1
    <3>1. i - 1 \in 1 .. n /\ i \in 1 .. n + 1 /\ 1 \in 1 .. n + 1 /\ i \in 0 .. n + 1
      BY <2>4, <1>1
    <3>2. s[i] # s[1] /\ s[i] \in Nodes
      BY <3>1, <2>4, <1>1, Distinct DEF IsList
    <3>3. D[i - 1] = d[i - 1] - 1
      BY <3>1, <1>8
    <3> QED
      BY <2>1, <2>2, <3>2, <3>3, <1>9
  <2> QED
    BY <2>3, <2>4
<1>12. ~ticking' => \A i \in 1 .. n : D[i] # 0
  <2>1. ~ticking' => n = 0
    BY <1>3, <1>6
  <2> QED
    BY <2>1
<1>13. Due(n, s, D)'
  BY <1>8, <1>9, <1>10, <1>11, <1>12 DEF Due
<1>14. time' \in [Nodes -> 0 .. MaxTime]
  <2>1. n > 0 => time[s[1]] - 1 \in 0 .. MaxTime
    <3>1. n > 0 => 1 \in 1 .. n /\ 1 - 1 = 0
      BY <1>1
    <3>2. n > 0 => /\ time[s[1]] = d[1] - d[0] /\ d[1] # 0
                   /\ d[1] \in Nat /\ d[1] <= MaxTime
      BY <1>1, <1>4, <1>5, <3>1
    <3> QED
      BY <3>2, <1>4, MaxTimeAssumption
  <2> DEFINE y == IF s[1] = Header THEN time[s[1]] ELSE time[s[1]] - 1
  <2>2. y \in 0 .. MaxTime
    BY <2>1, <1>1, <1>2, <1>3 DEF TypeOK
  <2>3. time' = [time EXCEPT ![s[1]] = y]
    BY <1>6
  <2> HIDE DEF y
  <2> QED
    BY <2>2, <2>3 DEF TypeOK
<1>15. systime' \in 0 .. MaxTime
  <2> DEFINE M == MaxTime + 1
             x == systime + 1
  <2>1. M \in Nat \ {0} /\ x \in Int
    BY MaxTimeAssumption DEF TypeOK
  <2>2. x % M \in 0 .. M - 1
    <3> HIDE DEF M, x
    <3> QED
      BY <2>1
  <2>3. M - 1 = MaxTime
    BY MaxTimeAssumption
  <2> QED
    BY <1>6, <2>2, <2>3
<1>16. TypeOK'
  BY <1>6, <1>14, <1>15 DEF TypeOK
<1> QED
  BY <1>5, <1>7, <1>13, <1>16 DEF IsList, D

(* The loop of chVTDoTickI ends when nothing is due any more. *)
LEMMA EndList ==
  ASSUME TypeOK, NEW n, NEW s, NEW d, IsList(n, s, d), EndTickI
  PROVE  TypeOK' /\ IsList(n, s, d)'
<1>1. n \in Nat /\ s[0] = Header
  BY DEF IsList, Linked
<1>2. UNCHANGED <<next, prev, time, func, systime>> /\ ticking' = FALSE
  BY DEF EndTickI
<1>3. n > 0 => d[1] # 0
  <2> SUFFICES ASSUME n > 0 PROVE d[1] # 0
    OBVIOUS
  <2>1. 0 \in 0 .. n /\ 1 \in 1 .. n /\ 0 + 1 = 1 /\ 1 - 1 = 0 /\ 1 \in 0 .. n
    BY <1>1
  <2>2. next[s[0]] = s[0 + 1]
    BY <2>1 DEF IsList, Linked
  <2>3. time[s[1]] = d[1] - d[1 - 1] /\ d[0] = 0
    BY <2>1 DEF IsList, Due
  <2>4. time[s[1]] # 0
    BY <2>1, <2>2, <1>1 DEF EndTickI
  <2> QED
    BY <2>1, <2>3, <2>4
<1>4. \A i \in 1 .. n : d[i] # 0
  <2> TAKE i \in 1 .. n
  <2>1. 1 \in 0 .. n /\ i \in 0 .. n /\ 1 <= i /\ n > 0
    BY <1>1
  <2>2. d[1] <= d[i] /\ d[1] \in Nat /\ d[i] \in Nat
    BY <2>1, MaxTimeAssumption DEF IsList, Due
  <2> QED
    BY <2>1, <2>2, <1>3
<1>5. Linked(n, s)'
  BY <1>2 DEF IsList, Linked
<1>6. Due(n, s, d)'
  BY <1>2, <1>4 DEF IsList, Due
<1> QED
  BY <1>2, <1>5, <1>6 DEF IsList, TypeOK

(* _vt_init leaves a list of the header alone. *)
LEMMA InitList ==
  ASSUME Init
  PROVE  TypeOK /\ IsList(0, [i \in 0 .. 1 |-> Header], [i \in 0 .. 0 |-> 0])
<1>1. TypeOK
  <2>1. 0 \in 0 .. MaxTime /\ MaxTime \in 0 .. MaxTime
    BY MaxTimeAssumption
  <2>2. time \in [Nodes -> 0 .. MaxTime]
    BY <2>1 DEF Init
  <2> QED
    BY <2>1, <2>2 DEF Init, TypeOK
<1>2. Linked(0, [i \in 0 .. 1 |-> Header])
  BY DEF Init, Linked, Nodes
<1>3. Due(0, [i \in 0 .. 1 |-> Header], [i \in 0 .. 0 |-> 0])
  BY MaxTimeAssumption DEF Init, Due, Nodes
<1> QED
  BY <1>1, <1>2, <1>3 DEF IsList

----------------------------------------------------------------------------
LEMMA StepInv == IInv /\ [Next]_vars => IInv'
<1> SUFFICES ASSUME IInv, [Next]_vars PROVE IInv'
  OBVIOUS
<1> USE DEF IInv
<1>1. PICK n, s, d : IsList(n, s, d)
  OBVIOUS
<1>2. ASSUME NEW v \in Timers, NEW t \in 1 .. MaxTime, VTSetI(v, t)
      PROVE  IInv'
  BY <1>1, <1>2, SetList
<1>3. ASSUME NEW v \in Timers, VTResetI(v)
      PROVE  IInv'
  BY <1>1, <1>3, ResetList
<1>4. CASE VTDoTickI
  BY <1>1, <1>4, TickList
<1>5. CASE EndTickI
  BY <1>1, <1>5, EndList
<1>6. ASSUME NEW v \in Timers, FireI(v)
      PROVE  IInv'
  BY <1>1, <1>6, FireList
<1>7. CASE UNCHANGED vars
  <2>1. TypeOK'
    BY <1>7 DEF vars, TypeOK
  <2>2. Linked(n, s)'
    BY <1>1, <1>7 DEF vars, IsList, Linked
  <2>3. Due(n, s, d)'
    BY <1>1, <1>7 DEF vars, IsList, Due
  <2> QED
    BY <2>1, <2>2, <2>3 DEF IsList
<1> QED
  BY <1>2, <1>3, <1>4, <1>5, <1>6, <1>7 DEF Next, Loop

(* The list named by the invariant is there in every state. *)
THEOREM TimersInv == Spec => []IInv
<1>1. Init => IInv
  BY InitList DEF IInv
<1> QED
  BY <1>1, StepInv, PTL DEF Spec

LEMMA InvListOK == IInv => ListOK
<1> SUFFICES ASSUME IInv PROVE ListOK
  OBVIOUS
<1>1. TypeOK
  BY DEF IInv
<1>2. PICK n, s, d : IsList(n, s, d)
  BY DEF IInv
<1>3. Linked(n, s) /\ Due(n, s, d)
  BY <1>2 DEF IsList
<1> DEFINE armed == {v \in Timers : func[v]}
<1>4. n = Cardinality(armed) /\ n \in Nat
  <2>1. n \in Nat
    BY <1>3 DEF Linked
  <2> QED
    BY <2>1, <1>3, ListLength
<1>5. \A k \in 0 .. n : Reached[k] = s[k + 1]
  BY <1>1, <1>2, WalksAlong
<1>6. {Reached[k] : k \in 0 .. n - 1} = armed
  <2>1. ASSUME NEW k \in 0 .. n - 1 PROVE Reached[k] \in armed
    <3>1. k \in 0 .. n /\ k + 1 \in 1 .. n
      BY <1>4
    <3> QED
      BY <3>1, <1>3, <1>5 DEF Linked
  <2>2. ASSUME NEW v \in armed PROVE \E k \in 0 .. n - 1 : Reached[k] = v
    <3>1. PICK i \in 1 .. n : s[i] = v
      BY <1>3 DEF Linked
    <3>2. i - 1 \in 0 .. n - 1 /\ i - 1 \in 0 .. n /\ (i - 1) + 1 = i
      BY <1>4
    <3> QED
      BY <3>1, <3>2, <1>5
  <2> QED
    BY <2>1, <2>2
<1>7. Reached[n] = Header /\ time[Header] = MaxTime
  BY <1>3, <1>4, <1>5 DEF Linked, Due
<1>8. \A v \in {Header} \cup {u \in Timers : func[u]} : prev[next[v]] = v
  <2> TAKE v \in {Header} \cup {u \in Timers : func[u]}
  <2>1. \E i \in 0 .. n : s[i] = v
    <3>1. CASE v = Header
      <4>1. 0 \in 0 .. n /\ s[0] = Header
        BY <1>3, <1>4 DEF Linked
      <4> QED
        BY <3>1, <4>1
    <3>2. CASE v # Header
      <4>1. PICK i \in 1 .. n : s[i] = v
        BY <3>2, <1>3 DEF Linked
      <4> QED
        BY <4>1, <1>4
    <3> QED
      BY <3>1, <3>2
  <2> QED
    BY <2>1, <1>3 DEF Linked
<1> QED
  BY <1>1, <1>4, <1>6, <1>7, <1>8 DEF ListOK

(* ListOK: whatever is set, reset and fired, before, during and between    *)
(* ticks, the list holds exactly the armed timers, in both directions.     *)
THEOREM ListStaysOK == Spec => []ListOK
BY TimersInv, InvListOK, PTL

(* The remainders of the differences of two times. *)
LEMMA TurnsOfClock ==
  ASSUME NEW M \in Nat, M # 0, NEW x \in Int
  PROVE  /\ 0 <= x /\ x < M => x % M = x
         /\ x < 0 /\ -M < x => x % M = x + M
<1>1. 0 <= x /\ x < M => x % M = x
  OBVIOUS
<1>2. x < 0 /\ -M < x => x % M = x + M
  OBVIOUS
<1> QED
  BY <1>1, <1>2

LEMMA InvWindowWraps == TypeOK => WindowWraps
<1> SUFFICES ASSUME TypeOK,
                    NEW start \in 0 .. MaxTime, NEW end \in 0 .. MaxTime
             PROVE  TimeIsWithin(start, end) <=>
                      \/ start = end
                      \/ (systime - start) % (MaxTime + 1) < (end - start) % (MaxTime + 1)
  BY DEF WindowWraps
<1> DEFINE M == MaxTime + 1
           x == systime - start
           y == end - start
           a == x % M
           b == y % M
<1>1. /\ M \in Nat /\ M # 0 /\ M = MaxTime + 1 /\ MaxTime \in Nat
      /\ systime \in Nat /\ systime < M /\ start \in Nat /\ start < M
      /\ end \in Nat /\ end < M
      /\ x \in Int /\ x = systime - start /\ y \in Int /\ y = end - start
  BY MaxTimeAssumption DEF TypeOK
<1> HIDE DEF M, x, y
<1>2. a = IF x >= 0 THEN x ELSE x + M
  <2>1. x < M /\ -M < x
    BY <1>1
  <2>2. CASE x >= 0
    BY <2>1, <2>2, <1>1, TurnsOfClock
  <2>3. CASE x < 0
    BY <2>1, <2>3, <1>1, TurnsOfClock
  <2> QED
    BY <1>1, <2>2, <2>3
<1>3. b = IF y >= 0 THEN y ELSE y + M
  <2>1. y < M /\ -M < y
    BY <1>1
  <2>2. CASE y >= 0
    BY <2>1, <2>2, <1>1, TurnsOfClock
  <2>3. CASE y < 0
    BY <2>1, <2>3, <1>1, TurnsOfClock
  <2> QED
    BY <1>1, <2>2, <2>3
<1> HIDE DEF a, b
<1>4. TimeIsWithin(start, end) <=> start = end \/ a < b
  BY <1>1, <1>2, <1>3 DEF TimeIsWithin
<1> QED
  BY <1>4 DEF a, b, x, y, M

(* WindowWraps: chTimeIsWithin is right in every width of systime_t, and   *)
(* the systime that chVTDoTickI counts stays inside that width.            *)
THEOREM WindowsWrap == Spec => []WindowWraps
<1>1. IInv => WindowWraps
  BY InvWindowWraps DEF IInv
<1> QED
  BY <1>1, TimersInv, PTL

----------------------------------------------------------------------------
(* The delta list implements TimerSpec. *)

(* Left reads the list that the invariant names, in any state. *)
Reads ==
  \A n, s, d : TypeOK /\ IsList(n, s, d) =>
    /\ \A i \in 1 .. n : Left(s[i]) = d[i]
    /\ \A v \in Timers : ~func[v] => Left(v) = -1

LEMMA LeftReads == Reads
BY LeftIs DEF Reads

(* In the state before and in the one after a step. *)
LEMMA LeftReadsNext == Reads /\ Reads'
BY LeftReads, PTL

(* Each node of the list is a timer with some ticks left. *)
LEMMA ListTimers ==
  ASSUME NEW n, NEW s, NEW d, IsList(n, s, d)
  PROVE  /\ n \in Nat
         /\ \A i \in 1 .. n : s[i] \in Timers /\ func[s[i]] /\ d[i] \in Nat
         /\ \A u \in Timers : func[u] => \E i \in 1 .. n : s[i] = u
         /\ \A i, j \in 1 .. n : s[i] = s[j] => i = j
<1>1. n \in Nat
  BY DEF IsList, Linked
<1>2. \A i \in 1 .. n : i \in 0 .. n
  BY <1>1
<1>3. \A i \in 1 .. n : d[i] \in Nat
  BY <1>2, MaxTimeAssumption DEF IsList, Due
<1> QED
  BY <1>1, <1>3 DEF IsList, Linked

LEMMA SetLeft ==
  ASSUME IInv, NEW v \in Timers, NEW t \in 1 .. MaxTime, VTSetI(v, t)
  PROVE  Left(v) = -1 /\ \A u \in Timers : Left(u)' = IF u = v THEN t ELSE Left(u)
<1>1. TypeOK /\ \E n, s, d : IsList(n, s, d)
  BY DEF IInv
<1>2. PICK n, s, d : IsList(n, s, d)
  BY <1>1
<1>3. TypeOK' /\ \E k \in 0 .. n :
         IsList(n + 1, Inserted(s, n + 2, k, v), Inserted(d, n + 1, k, t))'
  BY <1>1, <1>2, SetList
<1>4. PICK k \in 0 .. n :
         IsList(n + 1, Inserted(s, n + 2, k, v), Inserted(d, n + 1, k, t))'
  BY <1>3
<1> DEFINE S == Inserted(s, n + 2, k, v)
           D == Inserted(d, n + 1, k, t)
<1>5. n \in Nat
  BY <1>2, ListTimers
<1>6. /\ S[k + 1] = v /\ D[k + 1] = t
      /\ \A i \in 0 .. k : S[i] = s[i] /\ D[i] = d[i]
      /\ \A i \in k + 2 .. n + 1 : S[i] = s[i - 1] /\ D[i] = d[i - 1]
  BY <1>5 DEF Inserted
<1> HIDE DEF S, D
<1>7. /\ \A i \in 1 .. n + 1 : Left(S[i])' = D[i]
      /\ \A u \in Timers : ~func'[u] => Left(u)' = -1
  <2>1. TypeOK' /\ IsList(n + 1, S, D)'
    BY <1>3, <1>4 DEF S, D
  <2> QED
    BY <2>1, LeftReadsNext DEF Reads
<1>8. /\ \A i \in 1 .. n : Left(s[i]) = d[i]
      /\ \A u \in Timers : ~func[u] => Left(u) = -1
  BY <1>1, <1>2, LeftIs
<1>9. ~func[v] /\ \A u \in Timers : u # v => func'[u] = func[u]
  BY <1>1 DEF VTSetI, TypeOK
<1>10. Left(v)' = t
  <2>1. k + 1 \in 1 .. n + 1
    BY <1>5
  <2> QED
    BY <2>1, <1>6, <1>7
<1>11. ASSUME NEW u \in Timers, u # v PROVE Left(u)' = Left(u)
  <2>1. CASE ~func[u]
    BY <2>1, <1>7, <1>8, <1>9, <1>11
  <2>2. CASE func[u]
    <3>1. PICK i \in 1 .. n : s[i] = u
      BY <2>2, <1>2, ListTimers
    <3>2. CASE i <= k
      <4>1. i \in 0 .. k /\ i \in 1 .. n + 1
        BY <3>2, <1>5
      <4> QED
        BY <3>1, <4>1, <1>6, <1>7, <1>8
    <3>3. CASE i > k
      <4>1. i + 1 \in k + 2 .. n + 1 /\ i + 1 \in 1 .. n + 1 /\ (i + 1) - 1 = i
        BY <3>3, <1>5
      <4>2. S[i + 1] = u /\ D[i + 1] = d[i]
        BY <3>1, <4>1, <1>6
      <4> QED
        BY <3>1, <4>1, <4>2, <1>7, <1>8
    <3> QED
      BY <1>5, <3>2, <3>3
  <2> QED
    BY <2>1, <2>2
<1> QED
  BY <1>8, <1>9, <1>10, <1>11

(* The other timers keep their ticks when the k-th leaves. *)
LEMMA RemoveLeft ==
  ASSUME TypeOK, TypeOK', NEW n, NEW s, NEW d, IsList(n, s, d),
         NEW k \in 1 .. n, func' = [func EXCEPT ![s[k]] = FALSE],
         IsList(n - 1, Removed(s, n, k), Removed(d, n - 1, k))'
  PROVE  /\ Left(s[k]) = d[k] /\ d[k] \in Nat
         /\ \A u \in Timers : Left(u)' = IF u = s[k] THEN -1 ELSE Left(u)
<1> DEFINE S == Removed(s, n, k)
           D == Removed(d, n - 1, k)
<1>1. /\ n \in Nat
      /\ \A i \in 1 .. n : s[i] \in Timers /\ d[i] \in Nat
  BY ListTimers
<1>2. /\ \A i \in 0 .. k - 1 : i <= n - 1 => S[i] = s[i] /\ D[i] = d[i]
      /\ \A i \in k .. n - 1 : S[i] = s[i + 1] /\ D[i] = d[i + 1]
  BY <1>1 DEF Removed
<1> HIDE DEF S, D
<1>3. /\ \A i \in 1 .. n - 1 : Left(S[i])' = D[i]
      /\ \A u \in Timers : ~func'[u] => Left(u)' = -1
  <2>1. IsList(n - 1, S, D)'
    BY DEF S, D
  <2> QED
    BY <2>1, LeftReadsNext DEF Reads
<1>4. /\ \A i \in 1 .. n : Left(s[i]) = d[i]
      /\ \A u \in Timers : ~func[u] => Left(u) = -1
  BY LeftIs
<1>5. ~func'[s[k]] /\ \A u \in Timers : u # s[k] => func'[u] = func[u]
  BY <1>1 DEF TypeOK
<1>6. ASSUME NEW u \in Timers, u # s[k] PROVE Left(u)' = Left(u)
  <2>1. CASE ~func[u]
    BY <2>1, <1>3, <1>4, <1>5, <1>6
  <2>2. CASE func[u]
    <3>1. PICK i \in 1 .. n : s[i] = u
      BY <2>2, ListTimers
    <3>2. CASE i < k
      <4>1. i \in 0 .. k - 1 /\ i <= n - 1 /\ i \in 1 .. n - 1
        BY <3>2, <1>1
      <4>2. S[i] = u /\ D[i] = d[i]
        BY <3>1, <4>1, <1>2
      <4> QED
        BY <3>1, <4>1, <4>2, <1>3, <1>4
    <3>3. CASE i > k
      <4>1. i - 1 \in k .. n - 1 /\ i - 1 \in 1 .. n - 1 /\ (i - 1) + 1 = i
        BY <3>3, <1>1
      <4>2. S[i - 1] = u /\ D[i - 1] = d[i]
        BY <3>1, <4>1, <1>2
      <4> QED
        BY <3>1, <4>1, <4>2, <1>3, <1>4
    <3> QED
      BY <1>1, <1>6, <3>1, <3>2, <3>3
  <2> QED
    BY <2>1, <2>2
<1> QED
  BY <1>1, <1>3, <1>4, <1>5, <1>6

LEMMA TickLeft ==
  ASSUME IInv, VTDoTickI
  PROVE  \A u \in Timers :
           /\ Left(u) # 0
           /\ Left(u)' = IF Left(u) # -1 THEN Left(u) - 1 ELSE -1
<1>1. TypeOK /\ \E n, s, d : IsList(n, s, d)
  BY DEF IInv
<1>2. PICK n, s, d : IsList(n, s, d)
  BY <1>1
<1>3. TypeOK' /\ (\A i \in 1 .. n : d[i] # 0) /\ IsList(n, s, Ticked(d, n))'
  BY <1>1, <1>2, TickList
<1>4. n \in Nat /\ \A i \in 1 .. n : d[i] \in Nat
  BY <1>2, ListTimers
<1>5. \A i \in 1 .. n : Ticked(d, n)[i] = d[i] - 1
  BY <1>4 DEF Ticked
<1>6. /\ \A i \in 1 .. n : Left(s[i])' = Ticked(d, n)[i]
      /\ \A u \in Timers : ~func'[u] => Left(u)' = -1
  <2> DEFINE D == Ticked(d, n)
  <2> HIDE DEF D
  <2>1. TypeOK' /\ IsList(n, s, D)'
    BY <1>3 DEF D
  <2>2. /\ \A i \in 1 .. n : Left(s[i])' = D[i]
        /\ \A u \in Timers : ~func'[u] => Left(u)' = -1
    BY <2>1, LeftReadsNext DEF Reads
  <2> QED
    BY <2>2 DEF D
<1>7. /\ \A i \in 1 .. n : Left(s[i]) = d[i]
      /\ \A u \in Timers : ~func[u] => Left(u) = -1
  BY <1>1, <1>2, LeftIs
<1>8. func' = func
  BY DEF VTDoTickI
<1> TAKE u \in Timers
<1>9. CASE ~func[u]
  BY <1>6, <1>7, <1>8, <1>9
<1>10. CASE func[u]
  <2>1. PICK i \in 1 .. n : s[i] = u
    BY <1>2, <1>10, ListTimers
  <2>2. Left(u) = d[i] /\ Left(u)' = d[i] - 1 /\ d[i] \in Nat /\ d[i] # 0
    BY <2>1, <1>3, <1>4, <1>5, <1>6, <1>7
  <2> QED
    BY <2>2
<1> QED
  BY <1>9, <1>10

(* Left reads nothing but the list. *)
LEMMA SameLeft ==
  ASSUME UNCHANGED <<next, time, func>>
  PROVE  \A u \in Timers : Left(u)' = Left(u)
<1>1. Reached' = Reached
  BY DEF Reached
<1>2. Passed' = Passed
  BY <1>1 DEF Passed
<1> QED
  BY <1>1, <1>2 DEF Left

(* Every step of the timers is a step of TimerSpec or leaves what the      *)
(* timers have left as it is.                                              *)
LEMMA StepImplements ==
  ASSUME IInv, [Next]_vars
  PROVE  [Abstract!Next]_([v \in Timers |-> Left(v)])
<1> DEFINE L == [v \in Timers |-> Left(v)]
<1>1. ASSUME NEW v \in Timers, NEW t \in 1 .. MaxTime, VTSetI(v, t)
      PROVE  Abstract!Next
  <2>1. Left(v) = -1 /\ \A u \in Timers : Left(u)' = IF u = v THEN t ELSE Left(u)
    BY <1>1, SetLeft
  <2>2. L' = [L EXCEPT ![v] = t]
    BY <2>1
  <2>3. Abstract!Set(v, t)
    BY <2>1, <2>2 DEF Abstract!Set, Abstract!Armed
  <2> QED
    BY <2>3 DEF Abstract!Next
<1>2. ASSUME NEW v \in Timers, VTResetI(v)
      PROVE  Abstract!Next
  <2>1. TypeOK /\ \E n, s, d : IsList(n, s, d)
    BY DEF IInv
  <2>2. PICK n, s, d : IsList(n, s, d)
    BY <2>1
  <2>3. /\ TypeOK'
        /\ \E k \in 1 .. n : /\ s[k] = v
                             /\ IsList(n - 1, Removed(s, n, k), Removed(d, n - 1, k))'
    BY <1>2, <2>1, <2>2, ResetList
  <2>4. PICK k \in 1 .. n : /\ s[k] = v
                            /\ IsList(n - 1, Removed(s, n, k), Removed(d, n - 1, k))'
    BY <2>3
  <2>5. func' = [func EXCEPT ![s[k]] = FALSE]
    BY <1>2, <2>4 DEF VTResetI
  <2>6. /\ Left(s[k]) = d[k] /\ d[k] \in Nat
        /\ \A u \in Timers : Left(u)' = IF u = s[k] THEN -1 ELSE Left(u)
    <3>1. TypeOK /\ TypeOK' /\ IsList(n, s, d)
      BY <2>1, <2>2, <2>3
    <3>2. IsList(n - 1, Removed(s, n, k), Removed(d, n - 1, k))'
      BY <2>4
    <3> QED
      BY <3>1, <3>2, <2>5, RemoveLeft, ZenonT(60)
  <2>7. Left(v) # -1 /\ \A u \in Timers : Left(u)' = IF u = v THEN -1 ELSE Left(u)
    BY <2>4, <2>6
  <2>8. L' = [L EXCEPT ![v] = -1]
    BY <2>7
  <2>9. Abstract!Reset(v)
    BY <2>7, <2>8 DEF Abstract!Reset, Abstract!Armed
  <2> QED
    BY <2>9 DEF Abstract!Next
<1>3. ASSUME NEW v \in Timers, FireI(v)
      PROVE  Abstract!Next
  <2>1. TypeOK /\ \E n, s, d : IsList(n, s, d)
    BY DEF IInv
  <2>2. PICK n, s, d : IsList(n, s, d)
    BY <2>1
  <2>3. /\ TypeOK' /\ n > 0 /\ s[1] = v /\ d[1] = 0
        /\ IsList(n - 1, Removed(s, n, 1), Removed(d, n - 1, 1))'
    BY <1>3, <2>1, <2>2, FireList
  <2>4. PICK k \in 1 .. n : k = 1
    <3>1. n \in Nat
      BY <2>2, ListTimers
    <3> QED
      BY <3>1, <2>3
  <2>5. /\ func' = [func EXCEPT ![s[k]] = FALSE]
        /\ IsList(n - 1, Removed(s, n, k), Removed(d, n - 1, k))'
    BY <1>3, <2>3, <2>4 DEF FireI
  <2>6. /\ Left(s[k]) = d[k] /\ d[k] \in Nat
        /\ \A u \in Timers : Left(u)' = IF u = s[k] THEN -1 ELSE Left(u)
    <3>1. TypeOK /\ TypeOK' /\ IsList(n, s, d)
      BY <2>1, <2>2, <2>3
    <3>2. IsList(n - 1, Removed(s, n, k), Removed(d, n - 1, k))'
      BY <2>5
    <3>3. func' = [func EXCEPT ![s[k]] = FALSE]
      BY <2>5
    <3> QED
      BY <3>1, <3>2, <3>3, RemoveLeft, ZenonT(60)
  <2>7. Left(v) = 0 /\ \A u \in Timers : Left(u)' = IF u = v THEN -1 ELSE Left(u)
    BY <2>3, <2>4, <2>6
  <2>8. L' = [L EXCEPT ![v] = -1]
    BY <2>7
  <2>9. Abstract!Fire(v)
    BY <2>7, <2>8 DEF Abstract!Fire
  <2> QED
    BY <2>9 DEF Abstract!Next
<1>4. CASE VTDoTickI
  <2>1. \A u \in Timers :
          /\ Left(u) # 0
          /\ Left(u)' = IF Left(u) # -1 THEN Left(u) - 1 ELSE -1
    BY <1>4, TickLeft
  <2>2. Abstract!Tick
    BY <2>1 DEF Abstract!Tick, Abstract!Armed
  <2> QED
    BY <2>2 DEF Abstract!Next
<1>5. CASE EndTickI \/ UNCHANGED vars
  <2>1. \A u \in Timers : Left(u)' = Left(u)
    BY <1>5, SameLeft DEF EndTickI, vars
  <2>2. L' = L
    BY <2>1
  <2> QED
    BY <2>2
<1> QED
  BY <1>1, <1>2, <1>3, <1>4, <1>5 DEF Next, Loop

(* FiresOnTime: for any number of timers, whatever is set and reset by     *)
(* the callbacks and by the interrupts above the tick, a timer fires in    *)
(* the tick it was set for and in no other.                                *)
THEOREM TimersImplement == Spec => FiresOnTime
<1>1. Init => Abstract!Init
  <2> SUFFICES ASSUME Init PROVE Abstract!Init
    OBVIOUS
  <2>1. \A v \in Timers : Left(v) = -1
    BY DEF Init, Left
  <2> QED
    BY <2>1 DEF Abstract!Init
<1>2. IInv /\ [Next]_vars => [Abstract!Next]_([v \in Timers |-> Left(v)])
  BY StepImplements
<1> QED
  BY <1>1, <1>2, TimersInv, PTL DEF Spec, FiresOnTime, Abstract!Spec
=============================================================================
