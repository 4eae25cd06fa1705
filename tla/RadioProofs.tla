---------------------------- MODULE RadioProofs ----------------------------
(***************************************************************************)
(* Proofs about Radio, for every number of threads, every number of        *)
(* commands in wiflyConnect and every pool with three buffers per thread.  *)
(*                                                                         *)
(* The argument: where a thread is tells how many buffers it holds, at     *)
(* most three, and two before each allocation.  If the pool were empty     *)
(* then, every buffer would be in one of fewer places than there are       *)
(* buffers.                                                                *)
(***************************************************************************)
EXTENDS Radio, SequenceTheorems, FiniteSetTheorems, TLAPS

(* Whether wiflyConnect holds its own buffer, and how many buffers the     *)
(* command it is in holds.                                                 *)
Own(t) ==
  IF \/ pc[t] = "return"
     \/ /\ pc[t] \in {"command", "enter", "before", "lines", "read", "after",
                     "cut", "compare"}
        /\ nth[t] > Unbuffered
    THEN 1 ELSE 0

InCommand(t) ==
  IF pc[t] \in {"before", "lines", "read", "after", "cut"} THEN 2
  ELSE IF pc[t] \in {"enter", "compare"} THEN 1 ELSE 0

Counted ==
  \A t \in Threads :
    /\ Len(held[t]) = Own(t) + InCommand(t)
    /\ pc[t] \in {"idle", "return"} => nth[t] = 0
    /\ pc[t] = "buffer" => nth[t] = Unbuffered + 1

(* No buffer is in two places, every place has one, every buffer is in     *)
(* one.                                                                    *)
Apart ==
  /\ \A i, k \in 1 .. Len(free) : free[i] = free[k] => i = k
  /\ \A t, u \in Threads : \A i \in 1 .. Len(held[t]), k \in 1 .. Len(held[u]) :
       held[t][i] = held[u][k] => t = u /\ i = k
  /\ \A i \in 1 .. Len(free) : \A t \in Threads : \A k \in 1 .. Len(held[t]) :
       free[i] # held[t][k]

Present ==
  /\ \A t \in Threads : \A k \in 1 .. Len(held[t]) : held[t][k] \in Buffers
  /\ \A b \in Buffers :
       \/ \E i \in 1 .. Len(free) : free[i] = b
       \/ \E t \in Threads : \E k \in 1 .. Len(held[t]) : held[t][k] = b

IInv == TypeOK /\ Counted /\ Apart /\ Present

USE DEF Labels

----------------------------------------------------------------------------
(* A thread that is about to allocate finds a buffer in the pool. *)
LEMMA PoolSuffices ==
  ASSUME IInv, NEW t \in Threads, Len(held[t]) <= 2
  PROVE  free # <<>>
<1> SUFFICES ASSUME free = <<>> PROVE FALSE
  OBVIOUS
<1> DEFINE Slots == (Threads \X (1 .. 3)) \ {<<t, 3>>}
           Slot(b) == CHOOSE s \in Slots : held[s[1]][s[2]] = b
           f == [b \in Buffers |-> Slot(b)]
<1>1. \A u \in Threads : Len(held[u]) \in 0 .. 3
  <2>1. \A u \in Threads : Own(u) \in 0 .. 1 /\ InCommand(u) \in 0 .. 2
    BY DEF Own, InCommand
  <2>2. \A u \in Threads : Len(held[u]) = Own(u) + InCommand(u)
    BY DEF IInv, Counted
  <2>3. ASSUME NEW a \in 0 .. 1, NEW c \in 0 .. 2
        PROVE  a + c \in 0 .. 3
    OBVIOUS
  <2> QED
    BY <2>1, <2>2, <2>3, Zenon
<1>2. ASSUME NEW b \in Buffers
      PROVE  \E s \in Slots : held[s[1]][s[2]] = b
  <2>1. Len(free) = 0
    BY EmptySeq
  <2>2. PICK u \in Threads : \E k \in 1 .. Len(held[u]) : held[u][k] = b
    BY <2>1 DEF IInv, Present
  <2>5. PICK k \in 1 .. Len(held[u]) : held[u][k] = b
    BY <2>2
  <2>3. k \in 1 .. 3 /\ ~(u = t /\ k = 3)
    BY <1>1, <2>5
  <2>4. <<u, k>> \in Slots
    BY <2>3
  <2> QED
    BY <2>5, <2>4
<1>3. \A b \in Buffers : Slot(b) \in Slots /\ held[Slot(b)[1]][Slot(b)[2]] = b
  BY <1>2
<1>4. IsFiniteSet(Slots) /\ Cardinality(Slots) = 3 * Cardinality(Threads) - 1
  <2>1. IsFiniteSet(1 .. 3) /\ Cardinality(1 .. 3) = 3
    <3>1. ASSUME NEW n \in Nat, n > 0
          PROVE  IsFiniteSet(1 .. n) /\ Cardinality(1 .. n) = n
      <4>1. 1 \in Int /\ n \in Int /\ ~(1 > n) /\ n - 1 + 1 = n
        BY <3>1
      <4> QED
        BY <4>1, FS_Interval, Zenon
    <3>2. 3 \in Nat /\ 3 > 0
      OBVIOUS
    <3> QED
      BY <3>1, <3>2, Zenon
  <2>2. /\ IsFiniteSet(Threads \X (1 .. 3))
        /\ Cardinality(Threads \X (1 .. 3)) = Cardinality(Threads) * 3
    BY <2>1, PoolAssumption, FS_Product
  <2>3. <<t, 3>> \in Threads \X (1 .. 3)
    OBVIOUS
  <2>4. Cardinality(Threads) \in Nat
    BY PoolAssumption, FS_CardinalityType
  <2>5. ASSUME NEW S, NEW x \in S, IsFiniteSet(S)
        PROVE  /\ IsFiniteSet(S \ {x})
               /\ Cardinality(S \ {x}) = Cardinality(S) - 1
    BY <2>5, FS_RemoveElement
  <2>6. /\ IsFiniteSet(Slots)
        /\ Cardinality(Slots) = Cardinality(Threads \X (1 .. 3)) - 1
    BY <2>2, <2>3, <2>5, Zenon
  <2> QED
    BY <2>2, <2>4, <2>6
<1>5. IsFiniteSet(Buffers) /\ Cardinality(Buffers) = WIFLY_MEM_SIZE
  BY PoolAssumption, FS_Interval DEF Buffers
<1>6. Cardinality(Slots) < Cardinality(Buffers)
  BY <1>4, <1>5, PoolAssumption, FS_CardinalityType
<1> HIDE DEF Slots, Slot
<1>7. f \in [Buffers -> Slots] /\ \A b \in Buffers : f[b] = Slot(b)
  BY <1>3
<1> HIDE DEF f
<1>8. PICK a \in Buffers, b \in Buffers : a # b /\ f[a] = f[b]
  BY <1>4, <1>5, <1>6, <1>7, FS_PigeonHole
<1> QED
  BY <1>3, <1>7, <1>8

(* chPoolAllocI moves the first buffer of the pool to the thread. *)
LEMMA AllocMoves ==
  ASSUME IInv, NEW t \in Threads, free # <<>>, Alloc(t)
  PROVE  /\ free' \in Seq(Buffers)
         /\ held' \in [Threads -> Seq(Buffers \cup {NULL})]
         /\ Len(held'[t]) = Len(held[t]) + 1
         /\ \A u \in Threads : u # t => held'[u] = held[u]
         /\ Apart' /\ Present'
<1>1. /\ free \in Seq(Buffers) /\ Len(free) \in Nat \ {0}
      /\ free[1] \in Buffers /\ Head(free) = free[1]
      /\ Tail(free) \in Seq(Buffers) /\ Len(Tail(free)) = Len(free) - 1
      /\ \A i \in 1 .. Len(Tail(free)) : Tail(free)[i] = free[i + 1]
  BY HeadTailProperties, EmptySeq DEF IInv, TypeOK
<1>2. /\ free' = Tail(free)
      /\ held' = [held EXCEPT ![t] = Append(@, free[1])]
  BY <1>1 DEF Alloc
<1>3. held \in [Threads -> Seq(Buffers \cup {NULL})]
  BY DEF IInv, TypeOK
<1>4. /\ held'[t] = Append(held[t], free[1])
      /\ \A u \in Threads : u # t => held'[u] = held[u]
  BY <1>2, <1>3
<1>5. /\ held'[t] \in Seq(Buffers \cup {NULL}) /\ Len(held[t]) \in Nat
      /\ Len(held'[t]) = Len(held[t]) + 1
      /\ \A k \in 1 .. Len(held[t]) : held'[t][k] = held[t][k]
      /\ held'[t][Len(held[t]) + 1] = free[1]
  BY <1>1, <1>3, <1>4, AppendProperties
<1>6. held' \in [Threads -> Seq(Buffers \cup {NULL})]
  BY <1>2, <1>3, <1>5
<1>7. \A i \in 1 .. Len(free') : /\ i + 1 \in 1 .. Len(free) /\ i + 1 # 1
                                 /\ free'[i] = free[i + 1]
  BY <1>1, <1>2
<1>8. \A u \in Threads : \A k \in 1 .. Len(held'[u]) :
        \/ k \in 1 .. Len(held[u]) /\ held'[u][k] = held[u][k]
        \/ u = t /\ k = Len(held[t]) + 1 /\ held'[u][k] = free[1]
  <2>1. ASSUME NEW k \in 1 .. Len(held'[t])
        PROVE  \/ k \in 1 .. Len(held[t]) /\ held'[t][k] = held[t][k]
               \/ k = Len(held[t]) + 1 /\ held'[t][k] = free[1]
    <3>1. k \in 1 .. Len(held[t]) \/ k = Len(held[t]) + 1
      BY <1>5
    <3> QED
      BY <1>5, <3>1
  <2> QED
    BY <1>4, <2>1
<1>9. 1 \in 1 .. Len(free)
  BY <1>1
<1>10. Apart'
  <2>1. \A i, k \in 1 .. Len(free') : free'[i] = free'[k] => i = k
    BY <1>7 DEF IInv, Apart
  <2>2. ASSUME NEW u \in Threads, NEW v \in Threads,
               NEW i \in 1 .. Len(held'[u]), NEW k \in 1 .. Len(held'[v]),
               held'[u][i] = held'[v][k]
        PROVE  u = v /\ i = k
    BY <1>8, <1>9, <2>2 DEF IInv, Apart
  <2>3. ASSUME NEW i \in 1 .. Len(free'), NEW u \in Threads,
               NEW k \in 1 .. Len(held'[u])
        PROVE  free'[i] # held'[u][k]
    <3>1. i + 1 \in 1 .. Len(free) /\ i + 1 # 1 /\ free'[i] = free[i + 1]
      BY <1>7
    <3>2. \/ k \in 1 .. Len(held[u]) /\ held'[u][k] = held[u][k]
          \/ held'[u][k] = free[1]
      BY <1>8
    <3>3. free[i + 1] # free[1]
      BY <1>9, <3>1 DEF IInv, Apart
    <3> QED
      BY <3>1, <3>2, <3>3 DEF IInv, Apart
  <2> QED
    BY <2>1, <2>2, <2>3 DEF Apart
<1>11. Present'
  <2>1. ASSUME NEW u \in Threads, NEW k \in 1 .. Len(held'[u])
        PROVE  held'[u][k] \in Buffers
    BY <1>1, <1>8 DEF IInv, Present
  <2>2. ASSUME NEW b \in Buffers
        PROVE  \/ \E i \in 1 .. Len(free') : free'[i] = b
               \/ \E u \in Threads : \E k \in 1 .. Len(held'[u]) : held'[u][k] = b
    <3>1. CASE b = free[1]
      BY <1>5, <3>1
    <3>2. ASSUME NEW i \in 1 .. Len(free), free[i] = b, i # 1
          PROVE  \E k \in 1 .. Len(free') : free'[k] = b
      <4>1. i - 1 \in 1 .. Len(free') /\ free'[i - 1] = free[i]
        BY <1>1, <1>2, <3>2
      <4> QED
        BY <3>2, <4>1
    <3>3. ASSUME NEW u \in Threads, NEW k \in 1 .. Len(held[u]), held[u][k] = b
          PROVE  k \in 1 .. Len(held'[u]) /\ held'[u][k] = b
      <4>1. CASE u # t
        BY <1>4, <3>3, <4>1
      <4>2. CASE u = t
        <5>1. k \in 1 .. Len(held[t]) + 1
          BY <1>5, <3>3, <4>2
        <5> QED
          BY <1>5, <3>3, <4>2, <5>1
      <4> QED
        BY <4>1, <4>2
    <3> QED
      BY <3>1, <3>2, <3>3 DEF IInv, Present
  <2> QED
    BY <2>1, <2>2 DEF Present, Buffers
<1> QED
  BY <1>1, <1>2, <1>4, <1>5, <1>6, <1>10, <1>11

(* chPoolFreeI puts the buffer the thread got last in front of the pool. *)
LEMMA FreeMoves ==
  ASSUME IInv, NEW t \in Threads, Len(held[t]) > 0, Free(t)
  PROVE  /\ free' \in Seq(Buffers)
         /\ held' \in [Threads -> Seq(Buffers \cup {NULL})]
         /\ Len(held'[t]) = Len(held[t]) - 1
         /\ \A u \in Threads : u # t => held'[u] = held[u]
         /\ Apart' /\ Present'
<1> DEFINE n == Len(held[t])
           x == held[t][n]
<1>1. /\ held \in [Threads -> Seq(Buffers \cup {NULL})]
      /\ free \in Seq(Buffers) /\ Len(free) \in Nat /\ n \in Nat \ {0}
  BY DEF IInv, TypeOK
<1>2. n \in 1 .. Len(held[t]) /\ x \in Buffers
  BY <1>1 DEF IInv, Present
<1>3. /\ free' = <<x>> \o free
      /\ held' = [held EXCEPT ![t] = SubSeq(@, 1, n - 1)]
  BY <1>1 DEF Free
<1>4. /\ free' \in Seq(Buffers) /\ Len(free') = Len(free) + 1
      /\ free'[1] = x
      /\ \A i \in 1 .. Len(free) : free'[i + 1] = free[i]
  <2>1. <<x>> \in Seq(Buffers) /\ Len(<<x>>) = 1
    BY <1>2
  <2>2. /\ <<x>> \o free \in Seq(Buffers)
        /\ Len(<<x>> \o free) = 1 + Len(free)
        /\ \A i \in 1 .. 1 + Len(free) :
             (<<x>> \o free)[i] = IF i <= 1 THEN <<x>>[i] ELSE free[i - 1]
    BY <1>1, <2>1, ConcatProperties
  <2> QED
    BY <1>1, <1>3, <2>2
<1>5. /\ held'[t] = SubSeq(held[t], 1, n - 1)
      /\ \A u \in Threads : u # t => held'[u] = held[u]
  BY <1>1, <1>3
<1>6. /\ held'[t] \in Seq(Buffers \cup {NULL}) /\ Len(held'[t]) = n - 1
      /\ \A k \in 1 .. n - 1 : held'[t][k] = held[t][k]
  <2>1. held[t] \in Seq(Buffers \cup {NULL})
    BY <1>1
  <2>2. ASSUME NEW S, NEW s \in Seq(S), NEW m \in 1 .. Len(s)
        PROVE  /\ SubSeq(s, 1, m - 1) \in Seq(S)
               /\ Len(SubSeq(s, 1, m - 1)) = m - 1
               /\ \A k \in 1 .. m - 1 : SubSeq(s, 1, m - 1)[k] = s[k]
    BY SubSeqProperties
  <2> QED
    BY <1>2, <1>5, <2>1, <2>2
<1>7. held' \in [Threads -> Seq(Buffers \cup {NULL})]
  BY <1>1, <1>3, <1>6
<1>8. \A i \in 1 .. Len(free') : \/ i = 1 /\ free'[i] = x
                                 \/ /\ i - 1 \in 1 .. Len(free)
                                    /\ free'[i] = free[i - 1]
  BY SMTT(30), <1>1, <1>4
<1>9. \A u \in Threads : \A k \in 1 .. Len(held'[u]) :
        /\ k \in 1 .. Len(held[u]) /\ held'[u][k] = held[u][k]
        /\ ~(u = t /\ k = n)
  BY SMTT(30), <1>1, <1>5, <1>6
<1> HIDE DEF n, x
<1>10. held[t][n] = x
  BY DEF x
<1>11. Apart'
  <2>1. ASSUME NEW i \in 1 .. Len(free'), NEW k \in 1 .. Len(free'),
               free'[i] = free'[k]
        PROVE  i = k
    <3>1. \A m \in 1 .. Len(free) : free[m] # x
      BY <1>2, <1>10 DEF IInv, Apart
    <3>2. CASE i = 1 \/ k = 1
      BY <1>8, <2>1, <3>1, <3>2
    <3>3. CASE i # 1 /\ k # 1
      <4>1. /\ i - 1 \in 1 .. Len(free) /\ k - 1 \in 1 .. Len(free)
            /\ free[i - 1] = free[k - 1]
        BY <1>8, <2>1, <3>3
      <4>2. i - 1 = k - 1
        BY <4>1 DEF IInv, Apart
      <4> QED
        BY <4>2
    <3> QED
      BY <3>2, <3>3
  <2>2. ASSUME NEW u \in Threads, NEW v \in Threads,
               NEW i \in 1 .. Len(held'[u]), NEW k \in 1 .. Len(held'[v]),
               held'[u][i] = held'[v][k]
        PROVE  u = v /\ i = k
    BY <1>9, <2>2 DEF IInv, Apart
  <2>3. ASSUME NEW i \in 1 .. Len(free'), NEW u \in Threads,
               NEW k \in 1 .. Len(held'[u])
        PROVE  free'[i] # held'[u][k]
    <3>1. k \in 1 .. Len(held[u]) /\ held'[u][k] = held[u][k]
          /\ ~(u = t /\ k = n)
      BY <1>9
    <3>2. held[u][k] # x
      BY <1>2, <1>10, <3>1 DEF IInv, Apart
    <3>3. \A m \in 1 .. Len(free) : free[m] # held[u][k]
      BY <3>1 DEF IInv, Apart
    <3> QED
      BY <1>8, <3>1, <3>2, <3>3
  <2> QED
    BY <2>1, <2>2, <2>3 DEF Apart
<1>12. Present'
  <2>1. ASSUME NEW u \in Threads, NEW k \in 1 .. Len(held'[u])
        PROVE  held'[u][k] \in Buffers
    BY <1>9 DEF IInv, Present
  <2>2. ASSUME NEW b \in Buffers
        PROVE  \/ \E i \in 1 .. Len(free') : free'[i] = b
               \/ \E u \in Threads : \E k \in 1 .. Len(held'[u]) : held'[u][k] = b
    <3>1. CASE b = x
      <4>1. 1 \in 1 .. Len(free')
        BY <1>1, <1>4
      <4> QED
        BY <1>4, <3>1, <4>1
    <3>2. ASSUME NEW i \in 1 .. Len(free), free[i] = b
          PROVE  \E k \in 1 .. Len(free') : free'[k] = b
      <4>1. i + 1 \in 1 .. Len(free')
        BY <1>1, <1>4
      <4> QED
        BY <1>4, <3>2, <4>1
    <3>3. ASSUME NEW u \in Threads, NEW k \in 1 .. Len(held[u]), held[u][k] = b,
                 b # x
          PROVE  k \in 1 .. Len(held'[u]) /\ held'[u][k] = b
      <4>1. CASE u # t
        BY <1>5, <3>3, <4>1
      <4>2. CASE u = t
        <5>1. k # n /\ k \in 1 .. n - 1
          BY <1>1, <1>10, <3>3, <4>2 DEF n
        <5> QED
          BY <1>6, <3>3, <4>2, <5>1
      <4> QED
        BY <4>1, <4>2
    <3> QED
      BY <3>1, <3>2, <3>3 DEF IInv, Present
  <2> QED
    BY <2>1, <2>2 DEF Present, Buffers
<1> QED
  BY <1>4, <1>5, <1>6, <1>7, <1>11, <1>12 DEF n

----------------------------------------------------------------------------
(* chPoolLoadArray: the whole pool is free. *)
LEMMA InitInv == Init => IInv
<1> SUFFICES ASSUME Init PROVE IInv
  OBVIOUS
<1>1. WIFLY_MEM_SIZE \in Nat /\ 0 \in 0 .. Last
  BY PoolAssumption
<1>2. /\ free \in [1 .. WIFLY_MEM_SIZE -> Buffers]
      /\ \A k \in 1 .. WIFLY_MEM_SIZE : free[k] = WIFLY_MEM_SIZE + 1 - k
  BY <1>1 DEF Init, Buffers
<1>3. free \in Seq(Buffers) /\ Len(free) = WIFLY_MEM_SIZE
  BY <1>1, <1>2
<1>4. \A t \in Threads : held[t] = <<>> /\ Len(held[t]) = 0
                         /\ pc[t] = "idle" /\ nth[t] = 0
  BY EmptySeq DEF Init
<1>5. held \in [Threads -> Seq(Buffers \cup {NULL})]
  BY EmptySeq DEF Init
<1>6. TypeOK
  BY <1>1, <1>3, <1>5 DEF Init, TypeOK
<1>7. Counted
  BY <1>4 DEF Counted, Own, InCommand
<1>8. Apart
  <2>1. \A i, k \in 1 .. Len(free) : free[i] = free[k] => i = k
    BY <1>1, <1>2, <1>3
  <2> QED
    BY <1>4, <2>1 DEF Apart
<1>9. Present
  <2>1. ASSUME NEW b \in Buffers
        PROVE  \E i \in 1 .. Len(free) : free[i] = b
    <3>1. WIFLY_MEM_SIZE + 1 - b \in 1 .. WIFLY_MEM_SIZE
          /\ free[WIFLY_MEM_SIZE + 1 - b] = b
      BY <1>1, <1>2 DEF Buffers
    <3> QED
      BY <1>3, <3>1
  <2> QED
    BY <1>4, <2>1 DEF Present
<1> QED
  BY <1>6, <1>7, <1>8, <1>9 DEF IInv

(* A step of thread t that allocates: one buffer more where it is. *)
LEMMA AllocStep ==
  ASSUME IInv, NEW t \in Threads, Alloc(t), TypeOK',
         Len(held[t]) <= 2,
         \A u \in Threads : u # t => pc'[u] = pc[u] /\ nth'[u] = nth[u],
         Own(t)' + InCommand(t)' = Own(t) + InCommand(t) + 1,
         pc'[t] \notin {"idle", "return", "buffer"}
  PROVE  IInv'
<1>1. free # <<>>
  BY PoolSuffices
<1>2. /\ Len(held'[t]) = Len(held[t]) + 1
      /\ \A u \in Threads : u # t => held'[u] = held[u]
      /\ Apart' /\ Present'
  BY <1>1, AllocMoves
<1>3. ASSUME NEW u \in Threads
      PROVE  /\ Len(held'[u]) = Own(u)' + InCommand(u)'
             /\ pc'[u] \in {"idle", "return"} => nth'[u] = 0
             /\ pc'[u] = "buffer" => nth'[u] = Unbuffered + 1
  <2>1. CASE u = t
    BY <1>2, <2>1 DEF IInv, Counted
  <2>2. CASE u # t
    <3>1. Own(u)' = Own(u) /\ InCommand(u)' = InCommand(u)
      BY <2>2 DEF Own, InCommand
    <3> QED
      BY <1>2, <2>2, <3>1 DEF IInv, Counted
  <2> QED
    BY <2>1, <2>2
<1> QED
  BY <1>2, <1>3 DEF IInv, Counted

(* A step that frees: one buffer less. *)
LEMMA FreeStep ==
  ASSUME IInv, NEW t \in Threads, Free(t), Len(held[t]) > 0, TypeOK',
         \A u \in Threads : u # t => pc'[u] = pc[u] /\ nth'[u] = nth[u],
         Own(t)' + InCommand(t)' = Len(held[t]) - 1,
         pc'[t] \in {"idle", "return"} => nth'[t] = 0,
         pc'[t] = "buffer" => nth'[t] = Unbuffered + 1
  PROVE  IInv'
<1>1. /\ Len(held'[t]) = Len(held[t]) - 1
      /\ \A u \in Threads : u # t => held'[u] = held[u]
      /\ Apart' /\ Present'
  BY FreeMoves
<1>2. ASSUME NEW u \in Threads
      PROVE  /\ Len(held'[u]) = Own(u)' + InCommand(u)'
             /\ pc'[u] \in {"idle", "return"} => nth'[u] = 0
             /\ pc'[u] = "buffer" => nth'[u] = Unbuffered + 1
  <2>1. CASE u = t
    BY <1>1, <2>1
  <2>2. CASE u # t
    <3>1. Own(u)' = Own(u) /\ InCommand(u)' = InCommand(u)
      BY <2>2 DEF Own, InCommand
    <3> QED
      BY <1>1, <2>2, <3>1 DEF IInv, Counted
  <2> QED
    BY <2>1, <2>2
<1> QED
  BY <1>1, <1>2 DEF IInv, Counted

(* A step that leaves the buffers alone. *)
LEMMA QuietStep ==
  ASSUME IInv, UNCHANGED <<free, held>>, TypeOK',
         \A u \in Threads : /\ Own(u)' = Own(u) /\ InCommand(u)' = InCommand(u)
                            /\ pc'[u] \in {"idle", "return"} => nth'[u] = 0
                            /\ pc'[u] = "buffer" => nth'[u] = Unbuffered + 1
  PROVE  IInv'
<1>1. Counted'
  BY DEF IInv, Counted
<1>2. Apart' /\ Present'
  BY DEF IInv, Apart, Present
<1> QED
  BY <1>1, <1>2 DEF IInv

(* Before each allocation a thread holds at most two buffers. *)
LEMMA CallKeeps ==
  ASSUME IInv, NEW t \in Threads, NEW n \in {0, 1}, Call(t, n)
  PROVE  IInv'
<1>1. TypeOK'
  <2>1. TypeOK /\ UNCHANGED <<free, held, answer, calls>>
    BY DEF IInv, Call, pool
  <2>2. nth' \in [Threads -> 0 .. Last] /\ line' \in {"none", "begun"}
    BY <2>1, PoolAssumption DEF TypeOK, Call
  <2>3. pc' \in [Threads -> Labels]
    BY <2>1 DEF TypeOK, Call, Goto
  <2> QED
    BY <2>1, <2>2, <2>3 DEF TypeOK
<1>2. ASSUME NEW u \in Threads
      PROVE  /\ Own(u)' = Own(u) /\ InCommand(u)' = InCommand(u)
             /\ pc'[u] \in {"idle", "return"} => nth'[u] = 0
             /\ pc'[u] = "buffer" => nth'[u] = Unbuffered + 1
  <2>1. /\ pc \in [Threads -> Labels] /\ nth \in [Threads -> 0 .. Last]
        /\ pc[t] = "idle" /\ pc' = [pc EXCEPT ![t] = "command"]
        /\ nth' = [nth EXCEPT ![t] = n]
    BY DEF IInv, TypeOK, Call, Goto
  <2>2. CASE u = t
    <3>1. pc'[u] = "command" /\ nth'[u] = n /\ pc[u] = "idle" /\ nth[u] = 0
      BY <2>1, <2>2 DEF IInv, Counted
    <3> QED
      BY <3>1, PoolAssumption DEF Own, InCommand
  <2>3. CASE u # t
    <3>1. pc'[u] = pc[u] /\ nth'[u] = nth[u]
      BY <2>1, <2>3
    <3> QED
      BY <3>1 DEF IInv, Counted, Own, InCommand
  <2> QED
    BY <2>2, <2>3
<1> QED
  BY <1>1, <1>2, QuietStep DEF Call, pool

(* A line of wifly_loop begins or ends. *)
LEMMA LineKeeps == ASSUME IInv, LineBegins \/ LineEnds PROVE IInv'
<1>1. TypeOK'
  BY DEF IInv, TypeOK, LineBegins, LineEnds, pool
<1>2. UNCHANGED <<free, held, pc, nth>>
  BY DEF LineBegins, LineEnds, pool
<1>3. ASSUME NEW u \in Threads
      PROVE  /\ Own(u)' = Own(u) /\ InCommand(u)' = InCommand(u)
             /\ pc'[u] \in {"idle", "return"} => nth'[u] = 0
             /\ pc'[u] = "buffer" => nth'[u] = Unbuffered + 1
  BY <1>2 DEF IInv, Counted, Own, InCommand
<1> QED
  BY <1>1, <1>2, <1>3, QuietStep

(* The calls of wiflySend and wiflyRead, and what comes back. *)
LEMMA ExchangeKeeps ==
  ASSUME IInv, NEW t \in Threads, Exchange(t)
  PROVE  IInv'
<1>1. calls' \in [Threads -> Int]
  BY DEF IInv, TypeOK, Exchange
<1>2. TypeOK'
  BY <1>1 DEF IInv, TypeOK, Exchange, Goto, pool
<1>3. ASSUME NEW u \in Threads
      PROVE  /\ Own(u)' = Own(u) /\ InCommand(u)' = InCommand(u)
             /\ pc'[u] \in {"idle", "return"} => nth'[u] = 0
             /\ pc'[u] = "buffer" => nth'[u] = Unbuffered + 1
  BY DEF IInv, TypeOK, Counted, Exchange, Goto, Own, InCommand
<1> QED
  BY <1>2, <1>3, QuietStep DEF Exchange, pool

LEMMA ReadKeeps ==
  ASSUME IInv, NEW t \in Threads, ReadLine(t) \/ AnswerEnds(t)
  PROVE  IInv'
<1>1. TypeOK'
  <2>1. TypeOK /\ UNCHANGED <<free, held, nth, answer, line>>
    BY DEF IInv, ReadLine, AnswerEnds, pool
  <2>2. calls' \in [Threads -> Int]
    BY <2>1, PoolAssumption DEF TypeOK, ReadLine, AnswerEnds
  <2>3. pc' \in [Threads -> Labels]
    BY <2>1 DEF TypeOK, ReadLine, AnswerEnds, Goto
  <2> QED
    BY <2>1, <2>2, <2>3 DEF TypeOK
<1>2. ASSUME NEW u \in Threads
      PROVE  /\ Own(u)' = Own(u) /\ InCommand(u)' = InCommand(u)
             /\ pc'[u] \in {"idle", "return"} => nth'[u] = 0
             /\ pc'[u] = "buffer" => nth'[u] = Unbuffered + 1
  BY DEF IInv, TypeOK, Counted, ReadLine, AnswerEnds, Goto, Own, InCommand
<1> QED
  BY <1>1, <1>2, QuietStep DEF ReadLine, AnswerEnds, pool

LEMMA AnswerLineKeeps ==
  ASSUME IInv, NEW t \in Threads, NEW a \in {"expected", "other"},
         AnswerLine(t, a)
  PROVE  IInv'
<1>1. TypeOK'
  BY DEF IInv, TypeOK, AnswerLine, Goto, pool
<1>2. ASSUME NEW u \in Threads
      PROVE  /\ Own(u)' = Own(u) /\ InCommand(u)' = InCommand(u)
             /\ pc'[u] \in {"idle", "return"} => nth'[u] = 0
             /\ pc'[u] = "buffer" => nth'[u] = Unbuffered + 1
  BY DEF IInv, TypeOK, Counted, AnswerLine, Goto, Own, InCommand
<1> QED
  BY <1>1, <1>2, QuietStep DEF AnswerLine, pool

LEMMA SendCommandKeeps ==
  ASSUME IInv, NEW t \in Threads, SendCommand(t)
  PROVE  IInv'
<1>1. Len(held[t]) = Own(t) + InCommand(t) /\ nth[t] \in Nat
  BY DEF IInv, Counted, TypeOK
<1>2. /\ pc[t] = "command" /\ pc'[t] = "enter" /\ nth' = nth
      /\ \A u \in Threads : u # t => pc'[u] = pc[u] /\ nth'[u] = nth[u]
  BY DEF IInv, TypeOK, SendCommand, Goto
<1>3. /\ Own(t)' = Own(t) /\ Own(t) \in {0, 1}
      /\ InCommand(t) = 0 /\ InCommand(t)' = 1
  BY <1>2 DEF Own, InCommand
<1>4. Len(held[t]) <= 2 /\ Own(t)' + InCommand(t)' = Own(t) + InCommand(t) + 1
  BY <1>1, <1>3
<1>5. free # <<>> /\ Alloc(t)
  BY <1>4, PoolSuffices DEF SendCommand
<1>6. TypeOK'
  BY <1>5, AllocMoves DEF IInv, TypeOK, SendCommand, Goto
<1> QED
  BY <1>2, <1>4, <1>5, <1>6, AllocStep

LEMMA EnterCommandKeeps ==
  ASSUME IInv, NEW t \in Threads, EnterCommand(t)
  PROVE  IInv'
<1>1. Len(held[t]) = Own(t) + InCommand(t) /\ nth[t] \in Nat
  BY DEF IInv, Counted, TypeOK
<1>2. /\ pc[t] = "enter" /\ pc'[t] = "before" /\ nth' = nth
      /\ \A u \in Threads : u # t => pc'[u] = pc[u] /\ nth'[u] = nth[u]
  BY DEF IInv, TypeOK, EnterCommand, Goto
<1>3. /\ Own(t)' = Own(t) /\ Own(t) \in {0, 1}
      /\ InCommand(t) = 1 /\ InCommand(t)' = 2
  BY <1>2 DEF Own, InCommand
<1>4. Len(held[t]) <= 2 /\ Own(t)' + InCommand(t)' = Own(t) + InCommand(t) + 1
  BY <1>1, <1>3
<1>5. free # <<>> /\ Alloc(t)
  BY <1>4, PoolSuffices DEF EnterCommand
<1>6. TypeOK'
  <2>1. TypeOK /\ nth' = nth /\ line' = line
    BY DEF IInv, EnterCommand
  <2>2. calls' \in [Threads -> Int]
    BY <2>1, PoolAssumption DEF TypeOK, EnterCommand
  <2>3. /\ pc' \in [Threads -> Labels]
        /\ answer' \in [Threads -> {"none", "expected", "other"}]
    BY <2>1 DEF TypeOK, EnterCommand, Goto
  <2>4. /\ free' \in Seq(Buffers)
        /\ held' \in [Threads -> Seq(Buffers \cup {NULL})]
    BY <1>5, AllocMoves
  <2> QED
    BY <2>1, <2>2, <2>3, <2>4 DEF TypeOK
<1> QED
  BY <1>2, <1>4, <1>5, <1>6, AllocStep

LEMMA ConnectBufferKeeps ==
  ASSUME IInv, NEW t \in Threads, ConnectBuffer(t)
  PROVE  IInv'
<1>1. Len(held[t]) = Own(t) + InCommand(t)
  BY DEF IInv, Counted
<1>2. /\ pc[t] = "buffer" /\ pc'[t] = "command" /\ nth' = nth
      /\ nth[t] = Unbuffered + 1
      /\ \A u \in Threads : u # t => pc'[u] = pc[u] /\ nth'[u] = nth[u]
  BY DEF IInv, TypeOK, Counted, ConnectBuffer, Goto
<1>3. nth[t] > Unbuffered
  BY <1>2, PoolAssumption
<1>4. Own(t) = 0 /\ Own(t)' = 1 /\ InCommand(t) = 0 /\ InCommand(t)' = 0
  BY <1>2, <1>3 DEF Own, InCommand
<1>5. Len(held[t]) <= 2 /\ Own(t)' + InCommand(t)' = Own(t) + InCommand(t) + 1
  BY <1>1, <1>4
<1>6. free # <<>> /\ Alloc(t)
  BY <1>5, PoolSuffices DEF ConnectBuffer
<1>7. TypeOK'
  BY <1>6, AllocMoves DEF IInv, TypeOK, ConnectBuffer, Goto
<1> QED
  BY <1>2, <1>5, <1>6, <1>7, AllocStep

(* Where a thread frees a buffer it has one. *)
LEMMA LeaveCommandPreserves ==
  ASSUME IInv, NEW t \in Threads, LeaveCommand(t)
  PROVE  IInv'
<1>1. Len(held[t]) = Own(t) + InCommand(t)
  BY DEF IInv, Counted
<1>2. /\ pc[t] = "cut" /\ pc'[t] = "compare" /\ nth' = nth
      /\ \A u \in Threads : u # t => pc'[u] = pc[u] /\ nth'[u] = nth[u]
  BY DEF IInv, TypeOK, LeaveCommand, Goto
<1>3. /\ Own(t)' = Own(t) /\ Own(t) \in {0, 1}
      /\ InCommand(t) = 2 /\ InCommand(t)' = 1
  BY <1>2 DEF Own, InCommand
<1>4. Len(held[t]) > 0 /\ Own(t)' + InCommand(t)' = Len(held[t]) - 1
  BY <1>1, <1>3
<1>5. TypeOK'
  BY <1>4, FreeMoves DEF IInv, TypeOK, LeaveCommand, Goto
<1> QED
  BY <1>2, <1>4, <1>5, FreeStep DEF LeaveCommand

LEMMA ConnectReturnKeeps ==
  ASSUME IInv, NEW t \in Threads, ConnectReturn(t)
  PROVE  IInv'
<1>1. Len(held[t]) = Own(t) + InCommand(t) /\ nth[t] = 0
  BY DEF IInv, Counted, ConnectReturn
<1>2. /\ pc[t] = "return" /\ pc'[t] = "idle" /\ nth' = nth
      /\ \A u \in Threads : u # t => pc'[u] = pc[u] /\ nth'[u] = nth[u]
  BY DEF IInv, TypeOK, ConnectReturn, Goto
<1>3. Own(t) = 1 /\ Own(t)' = 0 /\ InCommand(t) = 0 /\ InCommand(t)' = 0
  BY <1>2 DEF Own, InCommand
<1>4. Len(held[t]) > 0 /\ Own(t)' + InCommand(t)' = Len(held[t]) - 1
  BY <1>1, <1>3
<1>5. TypeOK'
  BY <1>4, FreeMoves DEF IInv, TypeOK, ConnectReturn, Goto
<1> QED
  BY <1>1, <1>2, <1>4, <1>5, FreeStep DEF ConnectReturn

(* On every way out of wiflySendCommand what is left to free is right: the *)
(* buffer of wiflyConnect exactly when it has one.                         *)
LEMMA CompareKeeps ==
  ASSUME IInv, NEW t \in Threads, Compare(t)
  PROVE  IInv'
<1> DEFINE next == NextCommand(nth[t], answer[t] = "expected")
<1>1. Len(held[t]) = Own(t) + InCommand(t) /\ nth[t] \in 0 .. Last
  BY DEF IInv, Counted, TypeOK
<1>2. /\ next \in 0 .. Last
      /\ next # 0 => next = nth[t] + 1 /\ nth[t] > 0
  BY <1>1, PoolAssumption DEF NextCommand
<1> HIDE DEF next
<1>3. /\ pc[t] = "compare" /\ nth'[t] = next
      /\ \A u \in Threads : u # t => pc'[u] = pc[u] /\ nth'[u] = nth[u]
  BY DEF IInv, TypeOK, Compare, Goto, next
<1>4. pc'[t] = IF next = 0
                 THEN IF nth[t] > Unbuffered THEN "return" ELSE "idle"
               ELSE IF nth[t] = Unbuffered THEN "buffer" ELSE "command"
  BY DEF IInv, TypeOK, Compare, Goto, next
<1>5. /\ InCommand(t) = 1 /\ InCommand(t)' = 0
      /\ Own(t) = IF nth[t] > Unbuffered THEN 1 ELSE 0
  BY <1>3, <1>4 DEF Own, InCommand
<1>6. Own(t)' = Own(t)
  BY <1>1, <1>2, <1>3, <1>4, <1>5, PoolAssumption DEF Own
<1>7. Len(held[t]) > 0 /\ Own(t)' + InCommand(t)' = Len(held[t]) - 1
  BY <1>1, <1>5, <1>6
<1>8. TypeOK'
  <2>1. /\ free' \in Seq(Buffers)
        /\ held' \in [Threads -> Seq(Buffers \cup {NULL})]
    BY <1>7, FreeMoves DEF Compare
  <2>2. nth' \in [Threads -> 0 .. Last]
    BY <1>2 DEF IInv, TypeOK, Compare, next
  <2>3. /\ pc' \in [Threads -> Labels]
        /\ answer' \in [Threads -> {"none", "expected", "other"}]
    BY DEF IInv, TypeOK, Compare, Goto
  <2>4. calls' \in [Threads -> Int] /\ line' \in {"none", "begun"}
    BY DEF IInv, TypeOK, Compare
  <2> QED
    BY <2>1, <2>2, <2>3, <2>4 DEF TypeOK
<1>9. /\ pc'[t] \in {"idle", "return"} => nth'[t] = 0
      /\ pc'[t] = "buffer" => nth'[t] = Unbuffered + 1
  BY <1>2, <1>3, <1>4
<1> QED
  BY <1>3, <1>7, <1>8, <1>9, FreeStep DEF Compare

(* Every step keeps the invariant. *)
LEMMA NextInv == IInv /\ [Next]_vars => IInv'
<1> SUFFICES ASSUME IInv, [Next]_vars PROVE IInv'
  OBVIOUS
<1>1. CASE UNCHANGED vars
  BY <1>1 DEF vars, pool, IInv, TypeOK, Counted, Own, InCommand, Apart, Present
<1>2. ASSUME NEW t \in Threads, NEW n \in {0, 1}, Call(t, n)
      PROVE  IInv'
  BY <1>2, CallKeeps
<1>3. ASSUME NEW t \in Threads, NEW a \in {"expected", "other"}, AnswerLine(t, a)
      PROVE  IInv'
  BY <1>3, AnswerLineKeeps
<1>4. ASSUME NEW t \in Threads, Step(t)
      PROVE  IInv'
  BY <1>3, <1>4, SendCommandKeeps, EnterCommandKeeps, ExchangeKeeps, ReadKeeps,
     LeaveCommandPreserves, CompareKeeps, ConnectBufferKeeps, ConnectReturnKeeps
     DEF Step
<1> QED
  BY <1>1, <1>2, <1>4, LineKeeps DEF Next

(* The invariant in terms of places. *)
LEMMA InvPlaces == IInv => BufferInOnePlace
<1> SUFFICES ASSUME IInv PROVE BufferInOnePlace
  OBVIOUS
<1>1. /\ free \in Seq(Buffers) /\ DOMAIN free = 1 .. Len(free)
      /\ \A t \in Threads : DOMAIN held[t] = 1 .. Len(held[t])
  BY DEF IInv, TypeOK
<1>2. ASSUME NEW p \in Places
      PROVE  \/ \E i \in 1 .. Len(free) : p = <<"pool", i>> /\ At(p) = free[i]
             \/ \E t \in Threads : \E k \in 1 .. Len(held[t]) :
                  p = <<"held", t, k>> /\ At(p) = held[t][k]
  BY <1>1 DEF Places, At
<1>3. ASSUME NEW i \in 1 .. Len(free)
      PROVE  <<"pool", i>> \in Places /\ At(<<"pool", i>>) = free[i]
  BY <1>1 DEF Places, At
<1>4. ASSUME NEW t \in Threads, NEW k \in 1 .. Len(held[t])
      PROVE  <<"held", t, k>> \in Places /\ At(<<"held", t, k>>) = held[t][k]
  BY <1>1 DEF Places, At
<1>5. ASSUME NEW p \in Places
      PROVE  At(p) \in Buffers
  <2>1. \A i \in 1 .. Len(free) : free[i] \in Buffers
    BY <1>1
  <2> QED
    BY <1>2, <2>1 DEF IInv, Present
<1>6. ASSUME NEW p \in Places, NEW q \in Places, At(p) = At(q)
      PROVE  p = q
  BY <1>2, <1>6 DEF IInv, Apart
<1>7. ASSUME NEW b \in Buffers
      PROVE  \E p \in Places : At(p) = b
  <2>1. CASE \E i \in 1 .. Len(free) : free[i] = b
    BY <1>3, <2>1
  <2>2. CASE \E t \in Threads : \E k \in 1 .. Len(held[t]) : held[t][k] = b
    BY <1>4, <2>2
  <2> QED
    BY <2>1, <2>2 DEF IInv, Present
<1>8. NULL \notin Buffers
  BY DEF NULL, Buffers
<1> QED
  BY <1>5, <1>6, <1>7, <1>8 DEF BufferInOnePlace, IInv

(* Where a thread is in wiflySendCommand, wiflyReadCommand or wiflyConnect *)
(* tells how many buffers it holds, and each buffer is in one place.       *)
THEOREM RadioInvariant == Spec => []IInv
BY InitInv, NextInv, PTL DEF Spec

(* The pool never runs dry and never holds a buffer that is in use, for    *)
(* every number of threads and commands and however the commands end.      *)
THEOREM BuffersStayInOnePlace == Spec => []BufferInOnePlace
BY RadioInvariant, InvPlaces, PTL
=============================================================================
