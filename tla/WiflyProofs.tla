---------------------------- MODULE WiflyProofs ----------------------------
(***************************************************************************)
(* Proofs about Wifly, for every set of senders and every scenario: any    *)
(* lines at any pace, with line errors, breaks and full queues, buffers of *)
(* any size.                                                               *)
(***************************************************************************)
EXTENDS Wifly, SequenceTheorems, FiniteSetTheorems, WellFoundedInduction, TLAPS

Requests == (Senders \cup {Main}) \X {"send", "read"}
Chars    == STRING \cup {"Q_TIMEOUT"}
Kinds    == {"MSG", "OVERFLOW", "HELLO", "ERROR", "VALUE", "OK"}
Marks    == Kinds \X (1 .. MsgLen)

(* Where the wifly thread is in wifly_send, and in wifly_receive. *)
Sending   == {"write", "sendwait", "sendflags"}
Receiving == {"drain", "readwait", "readflags", "readget"}

(* The answer to a line, or to a line that is too long, is on its way: the *)
(* buffers may be full.                                                    *)
Answering ==
  \/ pc \in {"next", "overflow"}
  \/ pc \in Sending /\ ret \in {"next", "overflow"}

(* What the queues and buffers hold; the peer is inside a line. *)
Contents ==
  /\ line < Len(script) => col < Len(script[line + 1])
  /\ iqueue \in Seq(Chars) /\ id \in Seq(Chars)
  /\ oqueue \in Seq(Marks) /\ got \in Seq(Marks) /\ out \in Seq(Marks)
  /\ msgqueue \in Seq(Requests)

(* wifly_send is in the middle of a message exactly when some of it is     *)
(* left, and it was told where to go on; the listener is registered before *)
(* the loop begins.                                                        *)
Progress ==
  /\ pc = "write" <=> out # <<>>
  /\ pc \in Sending => ret \in {"next", "overflow", "release"}
  /\ pc # "register" => registered = TRUE

(* A thread whose message is in the queue sleeps until it is served, and   *)
(* has one message in the queue.                                           *)
Callers ==
  /\ \A k \in 1 .. Len(msgqueue) : msgqueue[k][1] \in asleep \ {serving}
  /\ \A k, l \in 1 .. Len(msgqueue) : msgqueue[k][1] = msgqueue[l][1] => k = l

(* There is room for the next character. *)
Room ==
  /\ n < ReadSize
  /\ ~Answering => Len(id) < IdSize /\ j < ArgsSize
  /\ pc \in Receiving => n < ReadSize - 1

IInv ==
  /\ TypeOK /\ Contents /\ Progress /\ Callers /\ Room
  /\ NoLostWakeup /\ SendCompletes

USE DEF scenario, peer, uart, events, reader, sender, msgs, Sending, Receiving

----------------------------------------------------------------------------
(* The sizes, one by one. *)
LEMMA Sizes ==
  /\ IdSize \in Nat /\ IdSize > 0 /\ ArgsSize \in Nat /\ ArgsSize > 0
  /\ OutSize \in Nat /\ OutSize > 0 /\ MsgLen \in Nat /\ MsgLen > 0
  /\ ReadSize \in Nat /\ ReadSize > 1
BY SizesAssumption

(* The scenario never leaves its type. *)
LEMMA ScenarioType ==
  ASSUME TypeOK
  PROVE  /\ room \in Nat \ {0} /\ quota \in Nat
         /\ script \in Seq(Seq(STRING) \ {<<>>})
<1> DEFINE s == [pace |-> pace, script |-> script, room |-> room, quota |-> quota]
<1>1. s \in [pace : Paces, script : Seq(Seq(STRING) \ {<<>>}),
             room : Nat \ {0}, quota : Nat]
  BY ScenariosAssumption DEF TypeOK
<1>2. s.room \in Nat \ {0} /\ s.quota \in Nat
      /\ s.script \in Seq(Seq(STRING) \ {<<>>})
  BY <1>1
<1> QED
  BY <1>2

(* A message is a sequence of MsgLen marks, and never empty. *)
LEMMA MessageType ==
  ASSUME NEW kind \in Kinds
  PROVE  /\ Message(kind) \in Seq(Marks)
         /\ Len(Message(kind)) = MsgLen
         /\ Message(kind) # <<>>
<1>1. MsgLen \in Nat /\ MsgLen # 0
  BY Sizes
<1>2. Message(kind) \in [1 .. MsgLen -> Marks]
  BY <1>1 DEF Message, Marks
<1>3. Message(kind) \in Seq(Marks) /\ Len(Message(kind)) = MsgLen
  BY <1>1, <1>2
<1> QED
  BY <1>1, <1>3

(* Head and tail of a queue that is not empty. *)
LEMMA TakeFirst ==
  ASSUME NEW S, NEW q \in Seq(S), q # <<>>
  PROVE  /\ Head(q) \in S /\ Head(q) = q[1]
         /\ Tail(q) \in Seq(S)
         /\ Len(q) \in Nat \ {0} /\ Len(Tail(q)) = Len(q) - 1
         /\ \A k \in 1 .. Len(Tail(q)) : Tail(q)[k] = q[k + 1]
BY HeadTailProperties, EmptySeq

(* An element put at the end of a queue. *)
LEMMA PutLast ==
  ASSUME NEW S, NEW q \in Seq(S), NEW x \in S
  PROVE  /\ Append(q, x) \in Seq(S) /\ Append(q, x) # <<>>
         /\ Len(q) \in Nat /\ Len(Append(q, x)) = Len(q) + 1
         /\ \A k \in 1 .. Len(q) : Append(q, x)[k] = q[k]
         /\ Append(q, x)[Len(q) + 1] = x
BY AppendProperties

(* No sequence is shorter than the empty one. *)
LEMMA EmptyLength ==
  ASSUME NEW S
  PROVE  <<>> \in Seq(S) /\ Len(<<>>) = 0
BY EmptySeq

(* The stores of serv_wifly.c are inside their arrays in every state of    *)
(* the invariant.                                                          *)
LEMMA InvIndexBounds == IInv => IndexBounds
BY DEF IInv, IndexBounds, Room, Answering

----------------------------------------------------------------------------
(* main has sent its message, nothing else has happened. *)
LEMMA InitInv == Init => IInv
<1> SUFFICES ASSUME Init PROVE IInv
  OBVIOUS
<1>1. PICK s \in Scenarios : /\ pace = s.pace /\ script = s.script
                             /\ room = s.room /\ quota = s.quota
  BY DEF Init
<1>2. s = [pace |-> pace, script |-> script, room |-> room, quota |-> quota]
  BY <1>1, ScenariosAssumption
<1>3. /\ room \in Nat \ {0} /\ quota \in Nat
      /\ script \in Seq(Seq(STRING) \ {<<>>})
  BY <1>1, ScenariosAssumption
<1>4. TypeOK
  <2>1. [pace |-> pace, script |-> script, room |-> room, quota |-> quota]
          \in Scenarios
    BY <1>2
  <2>2. Len(script) \in Nat /\ Len(<<>>) = 0
    BY <1>3, EmptyLength
  <2>3. {txeie, tcie, busy, registered, pending, read_id} \subseteq BOOLEAN
    BY Zenon DEF Init
  <2> QED
    BY <1>3, <2>1, <2>2, <2>3, Sizes DEF Init, TypeOK
<1>5. /\ msgqueue \in Seq(Requests) /\ Len(msgqueue) = 1
      /\ msgqueue[1] = <<Main, "send">>
  BY DEF Init, Requests
<1>6. Contents
  <2>1. line < Len(script) => script[line + 1] \in Seq(STRING) \ {<<>>}
    BY <1>3 DEF Init
  <2>2. line < Len(script) => col < Len(script[line + 1])
    BY <2>1, EmptySeq DEF Init
  <2> QED
    BY <1>5, <2>2, EmptyLength DEF Init, Contents
<1>7. Callers
  BY <1>5, ScenariosAssumption DEF Init, Callers
<1>8. Progress /\ Room
  BY Sizes, EmptyLength DEF Init, Progress, Room, Answering
<1>9. NoLostWakeup /\ SendCompletes
  BY DEF Init, NoLostWakeup, SendCompletes
<1> QED
  BY <1>4, <1>6, <1>7, <1>8, <1>9 DEF IInv

(* The listener is registered with no flags, and from then on gets them. *)
LEMMA RegisterKeeps == ASSUME IInv, Register PROVE IInv'
<1>1. TypeOK' /\ Contents' /\ Callers'
  BY DEF IInv, TypeOK, Contents, Callers, Register
<1>2. Progress' /\ Room'
  BY DEF IInv, Progress, Room, Answering, Register
<1>3. NoLostWakeup' /\ SendCompletes'
  BY DEF NoLostWakeup, SendCompletes, Register
<1> QED
  BY <1>1, <1>2, <1>3 DEF IInv

(* p_epending is taken: if it was set the flags are taken next. *)
LEMMA EventKeeps == ASSUME IInv, Event PROVE IInv'
<1>1. TypeOK' /\ Contents' /\ Callers'
  BY DEF IInv, TypeOK, Contents, Callers, Event
<1>2. Progress' /\ Room'
  BY DEF IInv, Progress, Room, Answering, Event
<1>3. NoLostWakeup' /\ SendCompletes'
  BY DEF IInv, NoLostWakeup, SendCompletes, Event
<1> QED
  BY <1>1, <1>2, <1>3 DEF IInv

(* The flags are taken: none is left that had to be announced. *)
LEMMA FlagsKeeps == ASSUME IInv, Flags PROVE IInv'
<1>1. TypeOK' /\ Contents' /\ Callers'
  BY DEF IInv, TypeOK, Contents, Callers, Flags
<1>2. Progress' /\ Room'
  BY DEF IInv, Progress, Room, Answering, Flags
<1>3. NoLostWakeup' /\ SendCompletes'
  BY DEF NoLostWakeup, SendCompletes, Flags
<1> QED
  BY <1>1, <1>2, <1>3 DEF IInv

(* callback answers a line that has fitted. *)
LEMMA CallbackKeeps == ASSUME IInv, Callback PROVE IInv'
<1>1. PICK kind \in Kinds : StartSend(kind, "next")
  BY DEF Callback, Kinds
<1>2. Message(kind) \in Seq(Marks) /\ Len(Message(kind)) = MsgLen
      /\ Message(kind) # <<>>
  BY MessageType
<1>3. TypeOK' /\ Contents' /\ Callers'
  BY <1>1, <1>2, Sizes
     DEF IInv, TypeOK, Contents, Callers, Callback, StartSend
<1>4. Progress' /\ Room'
  BY <1>1, <1>2 DEF IInv, Progress, Room, Answering, Callback, StartSend
<1>5. NoLostWakeup' /\ SendCompletes'
  BY <1>1 DEF IInv, NoLostWakeup, SendCompletes, Callback, StartSend
<1> QED
  BY <1>3, <1>4, <1>5 DEF IInv

(* After an answer the next line finds its buffers empty. *)
LEMMA AnsweredKeeps == ASSUME IInv, Answered PROVE IInv'
<1>1. TypeOK' /\ Contents' /\ Callers'
  BY Sizes, EmptyLength
     DEF IInv, TypeOK, Contents, Callers, Answered, NextLine
<1>2. Progress' /\ Room'
  BY Sizes, EmptyLength
     DEF IInv, Progress, Room, Answering, Answered, NextLine
<1>3. NoLostWakeup' /\ SendCompletes'
  BY DEF IInv, NoLostWakeup, SendCompletes, Answered, NextLine
<1> QED
  BY <1>1, <1>2, <1>3 DEF IInv

(* After an overflow too, and the characters that are left are dropped. *)
LEMMA OverflowKeeps == ASSUME IInv, Overflow PROVE IInv'
<1>1. room \in Nat
  BY ScenarioType DEF IInv
<1>2. TypeOK' /\ Contents' /\ Callers'
  BY <1>1, Sizes, EmptyLength
     DEF IInv, TypeOK, Contents, Callers, Overflow, NextLine
<1>3. Progress' /\ Room'
  BY Sizes, EmptyLength
     DEF IInv, Progress, Room, Answering, Overflow, NextLine
<1>4. NoLostWakeup' /\ SendCompletes'
  BY DEF IInv, NoLostWakeup, SendCompletes, Overflow, NextLine
<1> QED
  BY <1>2, <1>3, <1>4 DEF IInv

(* The error branch empties both queues between two messages. *)
LEMMA ResetQueuesKeeps == ASSUME IInv, ResetQueues PROVE IInv'
<1>1. room \in Nat
  BY ScenarioType DEF IInv
<1>2. TypeOK' /\ Contents' /\ Callers'
  BY <1>1, Sizes, EmptyLength
     DEF IInv, TypeOK, Contents, Callers, ResetQueues
<1>3. Progress' /\ Room'
  BY DEF IInv, Progress, Room, Answering, ResetQueues
<1>4. NoLostWakeup' /\ SendCompletes'
  BY DEF IInv, NoLostWakeup, SendCompletes, ResetQueues
<1> QED
  BY <1>2, <1>3, <1>4 DEF IInv

(* The caller that was served goes on; those in the queue sleep on. *)
LEMMA ReleaseKeeps == ASSUME IInv, Release PROVE IInv'
<1>1. TypeOK' /\ Contents'
  BY DEF IInv, TypeOK, Contents, Release
<1>2. \A k \in 1 .. Len(msgqueue) : msgqueue[k] \in Requests
  BY DEF IInv, Contents
<1>3. \A k \in 1 .. Len(msgqueue) : msgqueue[k][1] # None
  BY <1>2, ScenariosAssumption DEF Requests
<1>4. Callers'
  BY <1>3 DEF IInv, Callers, Release
<1>5. Progress' /\ Room'
  BY DEF IInv, Progress, Room, Answering, Release
<1>6. NoLostWakeup' /\ SendCompletes'
  BY DEF IInv, NoLostWakeup, SendCompletes, Release
<1> QED
  BY <1>1, <1>4, <1>5, <1>6 DEF IInv

(* wifly_send takes p_epending, and then the flags. *)
LEMMA SendWaitKeeps == ASSUME IInv, SendWait PROVE IInv'
<1>1. TypeOK' /\ Contents' /\ Callers'
  BY DEF IInv, TypeOK, Contents, Callers, SendWait
<1>2. Progress' /\ Room'
  BY DEF IInv, Progress, Room, Answering, SendWait
<1>3. NoLostWakeup' /\ SendCompletes'
  BY DEF IInv, NoLostWakeup, SendCompletes, SendWait
<1> QED
  BY <1>1, <1>2, <1>3 DEF IInv

(* It goes on waiting only if CHN_OUTPUT_EMPTY was not among the flags it  *)
(* dropped, so that the transmitter has yet to report it.                  *)
LEMMA SendFlagsKeeps == ASSUME IInv, SendFlags PROVE IInv'
<1>1. TypeOK' /\ Contents' /\ Callers'
  BY DEF IInv, TypeOK, Contents, Callers, Progress, SendFlags
<1>2. Progress' /\ Room'
  BY DEF IInv, Progress, Room, Answering, SendFlags
<1>3. NoLostWakeup' /\ SendCompletes'
  BY DEF IInv, NoLostWakeup, SendCompletes, Progress, SendFlags
<1> QED
  BY <1>1, <1>2, <1>3 DEF IInv

(* wifly_receive takes p_epending, or gives up. *)
LEMMA ReadWaitKeeps == ASSUME IInv, ReadWait PROVE IInv'
<1>1. TypeOK' /\ Contents' /\ Callers'
  BY DEF IInv, TypeOK, Contents, Callers, ReadWait
<1>2. Progress' /\ Room'
  BY DEF IInv, Progress, Room, Answering, ReadWait
<1>3. NoLostWakeup' /\ SendCompletes'
  BY DEF IInv, NoLostWakeup, SendCompletes, ReadWait
<1> QED
  BY <1>1, <1>2, <1>3 DEF IInv

(* Then it takes the flags. *)
LEMMA ReadFlagsKeeps == ASSUME IInv, ReadFlags PROVE IInv'
<1>1. TypeOK' /\ Contents' /\ Callers'
  BY DEF IInv, TypeOK, Contents, Callers, ReadFlags
<1>2. Progress' /\ Room'
  BY DEF IInv, Progress, Room, Answering, ReadFlags
<1>3. NoLostWakeup' /\ SendCompletes'
  BY DEF NoLostWakeup, SendCompletes, ReadFlags
<1> QED
  BY <1>1, <1>2, <1>3 DEF IInv

(* A message is taken off the queue: its sender, who sleeps, is served and *)
(* no other message in the queue is his.                                   *)
LEMMA PollKeeps == ASSUME IInv, Poll PROVE IInv'
<1>1. CASE ~(id = <<>> /\ j = 0 /\ msgqueue # <<>>)
  <2>1. TypeOK' /\ Contents' /\ Callers'
    BY <1>1 DEF IInv, TypeOK, Contents, Callers, Poll
  <2>2. Progress' /\ Room'
    BY <1>1 DEF IInv, Progress, Room, Answering, Poll
  <2>3. NoLostWakeup' /\ SendCompletes'
    BY <1>1 DEF IInv, NoLostWakeup, SendCompletes, Poll
  <2> QED
    BY <2>1, <2>2, <2>3 DEF IInv
<1>2. CASE id = <<>> /\ j = 0 /\ msgqueue # <<>>
  <2>1. /\ Head(msgqueue) \in Requests /\ Head(msgqueue) = msgqueue[1]
        /\ Tail(msgqueue) \in Seq(Requests)
        /\ Len(msgqueue) \in Nat \ {0} /\ Len(Tail(msgqueue)) = Len(msgqueue) - 1
        /\ \A k \in 1 .. Len(Tail(msgqueue)) : Tail(msgqueue)[k] = msgqueue[k + 1]
    BY <1>2, TakeFirst DEF IInv, Contents
  <2>2. /\ Message("MSG") \in Seq(Marks) /\ Len(Message("MSG")) = MsgLen
        /\ Message("MSG") # <<>>
    BY MessageType DEF Kinds
  <2>3. /\ serving' = msgqueue[1][1] /\ msgqueue' = Tail(msgqueue)
        /\ asleep' = asleep /\ n' = 0 /\ id' = id /\ j' = j
        /\ \/ pc' = "write" /\ out' = Message("MSG") /\ ret' = "release"
           \/ pc' = "drain" /\ out' = out /\ ret' = ret
    BY <1>2, <2>1 DEF Poll
  <2>4. TypeOK'
    <3>1. serving' \in asleep
      BY <2>1, <2>3 DEF IInv, Callers
    <3> QED
      BY SMTT(30), <2>2, <2>3, <3>1, Sizes DEF IInv, TypeOK, Poll
  <2>5. Contents'
    BY <2>1, <2>2, <2>3 DEF IInv, Contents, Poll
  <2>6. Callers'
    <3>1. ASSUME NEW k \in 1 .. Len(msgqueue')
          PROVE  /\ k + 1 \in 1 .. Len(msgqueue) /\ k + 1 # 1
                 /\ msgqueue'[k] = msgqueue[k + 1]
      BY <2>1, <2>3
    <3>2. ASSUME NEW k \in 1 .. Len(msgqueue')
          PROVE  msgqueue'[k][1] \in asleep' \ {serving'}
      BY <2>1, <2>3, <3>1 DEF IInv, Callers
    <3>3. ASSUME NEW k \in 1 .. Len(msgqueue'), NEW l \in 1 .. Len(msgqueue'),
                 msgqueue'[k][1] = msgqueue'[l][1]
          PROVE  k = l
      BY <3>1, <3>3 DEF IInv, Callers
    <3> QED
      BY <3>2, <3>3 DEF Callers
  <2>7. Progress' /\ Room'
    BY <1>2, <2>2, <2>3, Sizes
       DEF IInv, Progress, Room, Answering, Poll
  <2>8. NoLostWakeup' /\ SendCompletes'
    BY <1>2, <2>3 DEF IInv, NoLostWakeup, SendCompletes, Poll
  <2> QED
    BY <2>4, <2>5, <2>6, <2>7, <2>8 DEF IInv
<1> QED
  BY <1>1, <1>2

(* The line reader puts a character where there is room, and answers as    *)
(* soon as a buffer is full.                                               *)
LEMMA StoreFits ==
  ASSUME IInv, NEW in \in Chars, pc = "get", Store(in)
  PROVE  /\ id' \in Seq(Chars) /\ Len(id') \in 0 .. IdSize
         /\ j' \in 0 .. ArgsSize /\ read_id' \in BOOLEAN
         /\ \/ \E kind \in Kinds, r \in {"overflow", "next"} : StartSend(kind, r)
            \/ /\ Len(id') < IdSize /\ j' < ArgsSize
               /\ pc' \in {"poll", "callback"} /\ UNCHANGED sender
<1>1. /\ id \in Seq(Chars) /\ Len(id) \in Nat /\ Len(id) < IdSize
      /\ j \in Nat /\ j < ArgsSize
  BY DEF IInv, TypeOK, Contents, Room, Answering
<1>2. Append(id, in) \in Seq(Chars) /\ Len(Append(id, in)) = Len(id) + 1
  BY <1>1, PutLast
<1>3. id' \in {id, Append(id, in)} /\ j' \in {j, j + 1}
  BY DEF Store
<1>4. /\ id' \in Seq(Chars) /\ Len(id') \in 0 .. IdSize
      /\ j' \in 0 .. ArgsSize
  BY <1>1, <1>2, <1>3, Sizes
<1>5. read_id' \in BOOLEAN
  BY Zenon DEF Store
<1>6. \/ \E kind \in Kinds, r \in {"overflow", "next"} : StartSend(kind, r)
      \/ ~Full(id', j') /\ pc' \in {"poll", "callback"} /\ UNCHANGED sender
  BY DEF Store, Kinds
<1>7. ~Full(id', j') => Len(id') < IdSize /\ j' < ArgsSize
  BY <1>4, Sizes DEF Full
<1> QED
  BY <1>4, <1>5, <1>6, <1>7

(* The reader takes a character off the queue, or the Q_TIMEOUT of an      *)
(* empty one.                                                              *)
LEMMA GetKeeps == ASSUME IInv, Get PROVE IInv'
<1>1. PICK in \in Chars : /\ Store(in)
                          /\ iqueue' \in Seq(Chars)
                          /\ Len(iqueue') \in Nat /\ Len(iqueue') <= Len(iqueue)
  <2>1. CASE iqueue = <<>>
    <3>1. Store("Q_TIMEOUT") /\ iqueue' = iqueue
      BY <2>1, Zenon DEF Get
    <3>2. iqueue \in Seq(Chars) /\ Len(iqueue) \in Nat
      BY DEF IInv, Contents
    <3>3. /\ iqueue' \in Seq(Chars)
          /\ Len(iqueue') \in Nat /\ Len(iqueue') <= Len(iqueue)
      BY <3>1, <3>2
    <3>4. "Q_TIMEOUT" \in Chars
      BY DEF Chars
    <3> QED
      BY <3>1, <3>3, <3>4, Zenon
  <2>2. CASE iqueue # <<>>
    <3>1. Store(Head(iqueue)) /\ iqueue' = Tail(iqueue)
      BY <2>2, Zenon DEF Get
    <3>2. /\ Head(iqueue) \in Chars /\ Tail(iqueue) \in Seq(Chars)
          /\ Len(iqueue) \in Nat \ {0} /\ Len(Tail(iqueue)) = Len(iqueue) - 1
      BY <2>2, TakeFirst DEF IInv, Contents
    <3>3. /\ iqueue' \in Seq(Chars)
          /\ Len(iqueue') \in Nat /\ Len(iqueue') <= Len(iqueue)
      BY <3>1, <3>2
    <3> QED
      BY <3>1, <3>2, <3>3, Zenon
  <2> QED
    BY <2>1, <2>2
<1>2. pc = "get"
  BY DEF Get
<1>3. /\ id' \in Seq(Chars) /\ Len(id') \in 0 .. IdSize
      /\ j' \in 0 .. ArgsSize /\ read_id' \in BOOLEAN
      /\ \/ \E kind \in Kinds, r \in {"overflow", "next"} : StartSend(kind, r)
         \/ /\ Len(id') < IdSize /\ j' < ArgsSize
            /\ pc' \in {"poll", "callback"} /\ UNCHANGED sender
  BY <1>1, <1>2, StoreFits
<1>4. UNCHANGED <<peer, got, oqueue, uart, events, n, msgs>>
  BY DEF Get
<1>5. Len(iqueue') <= room
  BY <1>1, ScenarioType DEF IInv, TypeOK, Contents
<1>6. CASE \E kind \in Kinds, r \in {"overflow", "next"} : StartSend(kind, r)
  <2>1. PICK kind \in Kinds, r \in {"overflow", "next"} : StartSend(kind, r)
    BY <1>6
  <2>2. /\ Message(kind) \in Seq(Marks) /\ Len(Message(kind)) = MsgLen
        /\ Message(kind) # <<>>
    BY MessageType
  <2>3. pc' = "write" /\ out' = Message(kind) /\ ret' = r
    BY <2>1 DEF StartSend
  <2>4. TypeOK'
    BY <1>3, <1>4, <1>5, <2>2, <2>3, Sizes DEF IInv, TypeOK
  <2>5. Contents' /\ Callers'
    BY <1>1, <1>3, <1>4, <2>2, <2>3 DEF IInv, Contents, Callers
  <2>6. Progress' /\ Room'
    BY <1>2, <1>4, <2>2, <2>3 DEF IInv, Progress, Room, Answering
  <2>7. NoLostWakeup' /\ SendCompletes'
    BY <1>2, <1>4, <2>3 DEF IInv, NoLostWakeup, SendCompletes
  <2> QED
    BY <2>4, <2>5, <2>6, <2>7 DEF IInv
<1>7. CASE /\ Len(id') < IdSize /\ j' < ArgsSize
           /\ pc' \in {"poll", "callback"} /\ UNCHANGED sender
  <2>1. TypeOK'
    BY <1>3, <1>4, <1>5, <1>7 DEF IInv, TypeOK
  <2>2. Contents' /\ Callers'
    BY <1>1, <1>3, <1>4, <1>7 DEF IInv, Contents, Callers
  <2>3. Progress' /\ Room'
    BY <1>2, <1>4, <1>7 DEF IInv, Progress, Room, Answering
  <2>4. NoLostWakeup' /\ SendCompletes'
    BY <1>2, <1>4, <1>7 DEF IInv, NoLostWakeup, SendCompletes
  <2> QED
    BY <2>1, <2>2, <2>3, <2>4 DEF IInv
<1> QED
  BY <1>3, <1>6, <1>7

(* chOQWriteTimeout puts a character where there is room, and arms the     *)
(* transmitter interrupt: it is still armed when the waiting begins.       *)
LEMMA WriteKeeps == ASSUME IInv, Write PROVE IInv'
<1>1. /\ Head(out) \in Marks /\ Tail(out) \in Seq(Marks)
      /\ Len(out) \in Nat \ {0} /\ Len(Tail(out)) = Len(out) - 1
  BY TakeFirst DEF IInv, Contents, Progress, Write
<1>2. /\ Append(oqueue, Head(out)) \in Seq(Marks) /\ Len(oqueue) \in Nat
      /\ Len(Append(oqueue, Head(out))) = Len(oqueue) + 1
  BY <1>1, PutLast DEF IInv, Contents
<1>3. Tail(out) = <<>> <=> Len(out) = 1
  BY <1>1, EmptySeq
<1>4. txeie' \in BOOLEAN
  BY DEF Write
<1>5. TypeOK'
  BY <1>1, <1>2, <1>4, Sizes DEF IInv, TypeOK, Write
<1>6. Contents' /\ Callers'
  BY <1>1, <1>2 DEF IInv, Contents, Callers, Write
<1>7. Progress' /\ Room'
  BY <1>3 DEF IInv, Progress, Room, Answering, Write
<1>8. NoLostWakeup' /\ SendCompletes'
  BY DEF IInv, NoLostWakeup, SendCompletes, Write
<1> QED
  BY <1>5, <1>6, <1>7, <1>8 DEF IInv

(* wifly_receive stores a character where there is room for it and for the *)
(* '\0', and stops when there is no more.                                  *)
LEMMA ReceiveCharKeeps ==
  ASSUME IInv, NEW more \in Receiving, pc \in Receiving,
         iqueue # <<>>, ReceiveChar(more),
         UNCHANGED <<peer, got, oqueue, uart, events, reader, sender, msgs>>,
         NoLostWakeup', SendCompletes'
  PROVE  IInv'
<1>1. /\ Tail(iqueue) \in Seq(Chars) /\ Len(iqueue) \in Nat \ {0}
      /\ Len(Tail(iqueue)) = Len(iqueue) - 1
  BY TakeFirst DEF IInv, Contents
<1>2. room \in Nat /\ <<>> \in Seq(Chars) /\ Len(<<>>) = 0
  BY ScenarioType, EmptyLength DEF IInv
<1>3. iqueue' \in Seq(Chars) /\ Len(iqueue') <= room
  BY <1>1, <1>2 DEF IInv, TypeOK, ReceiveChar
<1>4. /\ n' \in {n, n + 1}
      /\ pc' \in {more, "release"}
      /\ pc' = more => n' # ReadSize - 1
  BY Zenon DEF ReceiveChar
<1>5. n \in Nat /\ n < ReadSize - 1
  BY DEF IInv, TypeOK, Room
<1>6. /\ n' \in 0 .. ReadSize /\ n' < ReadSize
      /\ pc' \in Receiving => n' < ReadSize - 1
  BY <1>4, <1>5, Sizes
<1>7. TypeOK'
  BY <1>3, <1>4, <1>6 DEF IInv, TypeOK
<1>8. Contents' /\ Callers'
  BY <1>3 DEF IInv, Contents, Callers
<1>9. Progress' /\ Room'
  BY <1>4, <1>6 DEF IInv, Progress, Room, Answering
<1> QED
  BY <1>7, <1>8, <1>9 DEF IInv

(* "receive all that is already on the queue" *)
LEMMA DrainKeeps == ASSUME IInv, Drain PROVE IInv'
<1>1. NoLostWakeup' /\ SendCompletes'
  BY DEF IInv, NoLostWakeup, SendCompletes, Drain, ReceiveChar
<1>2. CASE iqueue = <<>>
  <2>1. TypeOK' /\ Contents' /\ Callers'
    BY <1>2 DEF IInv, TypeOK, Contents, Callers, Drain
  <2>2. Progress' /\ Room'
    BY <1>2 DEF IInv, Progress, Room, Answering, Drain
  <2> QED
    BY <1>1, <2>1, <2>2 DEF IInv
<1>3. CASE iqueue # <<>>
  BY <1>1, <1>3, ReceiveCharKeeps DEF Drain
<1> QED
  BY <1>2, <1>3

(* The character an event has announced, or none after all. *)
LEMMA ReadGetKeeps == ASSUME IInv, ReadGet PROVE IInv'
<1>1. NoLostWakeup' /\ SendCompletes'
  BY DEF IInv, NoLostWakeup, SendCompletes, ReadGet, ReceiveChar
<1>2. CASE iqueue = <<>>
  <2>1. TypeOK' /\ Contents' /\ Callers'
    BY <1>2 DEF IInv, TypeOK, Contents, Callers, ReadGet
  <2>2. Progress' /\ Room'
    BY <1>2 DEF IInv, Progress, Room, Answering, ReadGet
  <2> QED
    BY <1>1, <2>1, <2>2 DEF IInv
<1>3. CASE iqueue # <<>>
  BY <1>1, <1>3, ReceiveCharKeeps DEF ReadGet
<1> QED
  BY <1>2, <1>3

(* A thread that does not sleep has no message in the queue: its new one   *)
(* is the only one.                                                        *)
LEMMA MsgSendKeeps ==
  ASSUME IInv, NEW s \in Senders, NEW request \in {"send", "read"},
         MsgSend(s, request)
  PROVE  IInv'
<1>1. <<s, request>> \in Requests
  BY DEF Requests
<1>2. /\ msgqueue' \in Seq(Requests) /\ Len(msgqueue) \in Nat
      /\ Len(msgqueue') = Len(msgqueue) + 1
      /\ \A k \in 1 .. Len(msgqueue) : msgqueue'[k] = msgqueue[k]
      /\ msgqueue'[Len(msgqueue) + 1] = <<s, request>>
  BY <1>1, PutLast DEF IInv, Contents, MsgSend
<1>3. s # serving
  BY ScenariosAssumption DEF IInv, TypeOK, MsgSend
<1>4. TypeOK'
  BY ScenarioType DEF IInv, TypeOK, MsgSend
<1>5. Contents'
  BY <1>2 DEF IInv, Contents, MsgSend
<1>6. Callers'
  <2>1. \A k \in 1 .. Len(msgqueue') :
          \/ k \in 1 .. Len(msgqueue) /\ msgqueue'[k] = msgqueue[k]
          \/ k = Len(msgqueue) + 1 /\ msgqueue'[k][1] = s
    BY <1>2
  <2>2. \A k \in 1 .. Len(msgqueue) : msgqueue[k][1] # s
    BY DEF IInv, Callers, MsgSend
  <2>3. \A k \in 1 .. Len(msgqueue') : msgqueue'[k][1] \in asleep' \ {serving'}
    BY <1>3, <2>1 DEF IInv, Callers, MsgSend
  <2>4. \A k, l \in 1 .. Len(msgqueue') :
          msgqueue'[k][1] = msgqueue'[l][1] => k = l
    BY <2>1, <2>2 DEF IInv, Callers
  <2> QED
    BY <2>3, <2>4 DEF Callers
<1>7. Progress' /\ Room'
  BY DEF IInv, Progress, Room, Answering, MsgSend
<1>8. NoLostWakeup' /\ SendCompletes'
  BY DEF IInv, NoLostWakeup, SendCompletes, MsgSend
<1> QED
  BY <1>4, <1>5, <1>6, <1>7, <1>8 DEF IInv

----------------------------------------------------------------------------
AllFlags == {"input", "empty", "end", "error"}

(* chnAddFlagsI announces what it adds, and once the listener is           *)
(* registered adds all of it.                                              *)
LEMMA AddFlagsAnnounces ==
  ASSUME IInv, NEW f \in SUBSET AllFlags, AddFlags(f), pc' = pc
  PROVE  /\ el_flags' \subseteq AllFlags /\ pending' \in BOOLEAN
         /\ el_flags \subseteq el_flags'
         /\ pc # "register" => f \subseteq el_flags'
         /\ NoLostWakeup'
<1>1. pending' = (pending \/ registered) /\ pending' \in BOOLEAN
  BY DEF AddFlags
<1>2. /\ el_flags' \subseteq AllFlags /\ el_flags \subseteq el_flags'
      /\ pc # "register" => f \subseteq el_flags'
  BY DEF IInv, TypeOK, Progress, AddFlags, AllFlags
<1>3. CASE registered = TRUE
  BY <1>1, <1>2, <1>3 DEF NoLostWakeup
<1>4. CASE registered = FALSE
  <2>1. el_flags' = el_flags /\ (pending => pending')
    BY <1>4 DEF AddFlags
  <2> QED
    BY <1>1, <1>2, <2>1 DEF IInv, NoLostWakeup
<1> QED
  BY <1>1, <1>2, <1>3, <1>4 DEF IInv, TypeOK

(* What an interrupt leaves alone: everything the wifly thread owns. *)
LEMMA InterruptKeeps ==
  ASSUME IInv, UNCHANGED <<scenario, pc, reader, sender, n, msgs, registered>>,
         line' \in 0 .. Len(script) /\ col' \in Nat,
         line' < Len(script) => col' < Len(script[line' + 1]),
         iqueue' \in Seq(Chars) /\ Len(iqueue') <= room,
         oqueue' \in Seq(Marks) /\ Len(oqueue') <= OutSize,
         got' \in Seq(Marks),
         {txeie', tcie', busy'} \subseteq BOOLEAN,
         el_flags' \subseteq AllFlags /\ pending' \in BOOLEAN,
         NoLostWakeup',
         \/ txeie' = txeie /\ el_flags \subseteq el_flags'
         \/ pc # "register" => "empty" \in el_flags'
  PROVE  IInv'
<1>1. TypeOK'
  BY DEF IInv, TypeOK, AllFlags
<1>2. Contents' /\ Callers'
  BY DEF IInv, Contents, Callers
<1>3. Progress' /\ Room'
  BY DEF IInv, Progress, Room, Answering
<1>4. SendCompletes'
  BY DEF IInv, SendCompletes
<1> QED
  BY <1>1, <1>2, <1>3, <1>4 DEF IInv

(* The end of serve_interrupt switches only the completion interrupt. *)
LEMMA EndOfInterruptType ==
  ASSUME TypeOK, NEW done \in BOOLEAN, EndOfInterrupt(done)
  PROVE  /\ {txeie', tcie', busy'} \subseteq BOOLEAN
         /\ txeie' = txeie /\ registered' = registered
<1>1. tcie' \in BOOLEAN /\ busy' \in BOOLEAN
  BY Zenon DEF EndOfInterrupt
<1> QED
  BY <1>1 DEF TypeOK, EndOfInterrupt

(* sdIncomingDataI puts a character only where there is room. *)
LEMMA ReceiveKeeps ==
  ASSUME IInv, NEW err \in BOOLEAN, NEW done \in BOOLEAN, Receive(err, done)
  PROVE  IInv'
<1>1. /\ room \in Nat /\ script \in Seq(Seq(STRING) \ {<<>>})
      /\ Len(script) \in Nat /\ line \in Nat /\ line < Len(script)
      /\ col \in Nat /\ col < Len(script[line + 1])
  BY ScenarioType DEF IInv, TypeOK, Contents, Receive
<1>2. script[line + 1] \in Seq(STRING) /\ Len(script[line + 1]) \in Nat
  BY <1>1
<1>3. script[line + 1][col + 1] \in Chars
  BY <1>1, <1>2 DEF Chars
<1>4. iqueue' \in Seq(Chars) /\ Len(iqueue') <= room
  <2>1. iqueue \in Seq(Chars) /\ Len(iqueue) \in Nat /\ Len(iqueue) <= room
    BY DEF IInv, TypeOK, Contents
  <2>2. CASE Len(iqueue) = room
    BY <2>1, <2>2 DEF Receive
  <2>3. CASE Len(iqueue) # room
    <3>1. iqueue' = Append(iqueue, script[line + 1][col + 1])
      BY <2>3 DEF Receive
    <3>2. iqueue' \in Seq(Chars) /\ Len(iqueue') = Len(iqueue) + 1
      BY <1>3, <2>1, <3>1, PutLast
    <3> QED
      BY <1>1, <2>1, <2>3, <3>2
  <2> QED
    BY <2>2, <2>3
<1>5. /\ line' \in 0 .. Len(script) /\ col' \in Nat
      /\ line' < Len(script) => col' < Len(script[line' + 1])
  <2>1. CASE col + 1 = Len(script[line + 1])
    <3>1. line' = line + 1 /\ col' = 0
      BY <2>1 DEF Receive
    <3>2. line' < Len(script) => script[line' + 1] \in Seq(STRING) \ {<<>>}
      BY <1>1, <3>1
    <3>3. line' < Len(script) => Len(script[line' + 1]) > 0
      BY <3>2, EmptySeq
    <3> QED
      BY <1>1, <3>1, <3>3
  <2>2. CASE col + 1 # Len(script[line + 1])
    BY <1>1, <1>2, <2>2 DEF Receive
  <2> QED
    BY <2>1, <2>2
<1>6. PICK f \in SUBSET AllFlags : AddFlags(f) \/ UNCHANGED events
  <2> DEFINE f == (IF iqueue = <<>> THEN {"input"} ELSE {})
                    \cup (IF Len(iqueue) = room \/ err THEN {"error"} ELSE {})
                    \cup Complete(done)
  <2>1. f \in SUBSET AllFlags
    BY DEF AllFlags, Complete
  <2>2. AddFlags(f) \/ UNCHANGED events
    BY DEF Receive
  <2> QED
    BY <2>1, <2>2
<1>7. /\ el_flags' \subseteq AllFlags /\ pending' \in BOOLEAN
      /\ el_flags \subseteq el_flags' /\ NoLostWakeup'
  <2>1. pc' = pc
    BY DEF Receive
  <2>2. CASE AddFlags(f)
    BY <2>1, <2>2, AddFlagsAnnounces
  <2>3. CASE UNCHANGED events
    BY <2>1, <2>3 DEF IInv, TypeOK, NoLostWakeup, AllFlags
  <2> QED
    BY <1>6, <2>2, <2>3
<1>8. {txeie', tcie', busy'} \subseteq BOOLEAN
      /\ txeie' = txeie /\ registered' = registered
  BY EndOfInterruptType DEF IInv, Receive
<1>9. /\ UNCHANGED <<scenario, pc, reader, sender, n, msgs>>
      /\ oqueue' \in Seq(Marks) /\ Len(oqueue') <= OutSize
      /\ got' \in Seq(Marks)
  BY DEF IInv, TypeOK, Contents, Receive
<1> QED
  BY <1>4, <1>5, <1>7, <1>8, <1>9, InterruptKeeps

(* A break sets a flag, and no queue changes. *)
LEMMA BreakKeeps ==
  ASSUME IInv, NEW done \in BOOLEAN, Break(done)
  PROVE  IInv'
<1>1. {"error"} \cup Complete(done) \in SUBSET AllFlags
  BY DEF Complete, AllFlags
<1>2. /\ el_flags' \subseteq AllFlags /\ pending' \in BOOLEAN
      /\ el_flags \subseteq el_flags' /\ NoLostWakeup'
  BY <1>1, AddFlagsAnnounces DEF Break
<1>3. {txeie', tcie', busy'} \subseteq BOOLEAN
      /\ txeie' = txeie /\ registered' = registered
  BY EndOfInterruptType DEF IInv, Break
<1>4. /\ UNCHANGED <<scenario, pc, reader, sender, n, msgs>>
      /\ line' \in 0 .. Len(script) /\ col' \in Nat
      /\ line' < Len(script) => col' < Len(script[line' + 1])
      /\ iqueue' \in Seq(Chars) /\ Len(iqueue') <= room
      /\ oqueue' \in Seq(Marks) /\ Len(oqueue') <= OutSize
      /\ got' \in Seq(Marks)
  BY DEF IInv, TypeOK, Contents, Break
<1> QED
  BY <1>2, <1>3, <1>4, InterruptKeeps

(* A character leaves the output queue for the peer. *)
LEMMA TransmitKeeps ==
  ASSUME IInv, NEW done \in BOOLEAN, Transmit(done)
  PROVE  IInv'
<1>1. /\ Head(oqueue) \in Marks /\ Tail(oqueue) \in Seq(Marks)
      /\ Len(oqueue) \in Nat \ {0} /\ Len(Tail(oqueue)) = Len(oqueue) - 1
  BY TakeFirst DEF IInv, Contents, Transmit
<1>2. Append(got, Head(oqueue)) \in Seq(Marks)
  BY <1>1, PutLast DEF IInv, Contents
<1>3. /\ oqueue' \in Seq(Marks) /\ Len(oqueue') <= OutSize
      /\ got' \in Seq(Marks)
  BY <1>1, <1>2, Sizes DEF IInv, TypeOK, Transmit
<1>4. /\ el_flags' \subseteq AllFlags /\ pending' \in BOOLEAN
      /\ el_flags \subseteq el_flags' /\ NoLostWakeup'
  <2>1. pc' = pc
    BY DEF Transmit
  <2>2. CASE AddFlags({"end"})
    <3>1. {"end"} \in SUBSET AllFlags
      BY DEF AllFlags
    <3> QED
      BY <2>1, <2>2, <3>1, AddFlagsAnnounces
  <2>3. CASE UNCHANGED events
    BY <2>1, <2>3 DEF IInv, TypeOK, NoLostWakeup, AllFlags
  <2> QED
    BY <2>2, <2>3 DEF Transmit
<1>5. {txeie', tcie', busy'} \subseteq BOOLEAN
      /\ txeie' = txeie /\ registered' = registered
  <2>1. busy' \in BOOLEAN /\ tcie' \in BOOLEAN
    BY Zenon DEF Transmit
  <2> QED
    BY <2>1 DEF IInv, TypeOK, Transmit
<1>6. /\ UNCHANGED <<scenario, pc, reader, sender, n, msgs>>
      /\ line' \in 0 .. Len(script) /\ col' \in Nat
      /\ line' < Len(script) => col' < Len(script[line' + 1])
      /\ iqueue' \in Seq(Chars) /\ Len(iqueue') <= room
  BY DEF IInv, TypeOK, Contents, Transmit
<1> QED
  BY <1>3, <1>4, <1>5, <1>6, InterruptKeeps

(* The transmitter interrupt is switched off, and the flag that a waiting  *)
(* wifly_send needs is set.                                                *)
LEMMA OutputEmptyKeeps ==
  ASSUME IInv, NEW done \in BOOLEAN, OutputEmpty(done)
  PROVE  IInv'
<1>1. {"empty"} \cup Complete(done) \in SUBSET AllFlags
  BY DEF Complete, AllFlags
<1>2. /\ el_flags' \subseteq AllFlags /\ pending' \in BOOLEAN
      /\ pc # "register" => "empty" \in el_flags'
      /\ NoLostWakeup'
  BY <1>1, AddFlagsAnnounces DEF OutputEmpty
<1>3. {txeie', tcie', busy'} \subseteq BOOLEAN /\ registered' = registered
  <2>1. busy' \in BOOLEAN /\ tcie' \in BOOLEAN
    BY Zenon DEF OutputEmpty
  <2> QED
    BY <2>1 DEF OutputEmpty
<1>4. /\ UNCHANGED <<scenario, pc, reader, sender, n, msgs>>
      /\ line' \in 0 .. Len(script) /\ col' \in Nat
      /\ line' < Len(script) => col' < Len(script[line' + 1])
      /\ iqueue' \in Seq(Chars) /\ Len(iqueue') <= room
      /\ oqueue' \in Seq(Marks) /\ Len(oqueue') <= OutSize
      /\ got' \in Seq(Marks)
  BY DEF IInv, TypeOK, Contents, OutputEmpty
<1> QED
  BY <1>2, <1>3, <1>4, InterruptKeeps

(* The completion of a transmission sets a flag that nobody waits for. *)
LEMMA TransmissionEndKeeps == ASSUME IInv, TransmissionEnd PROVE IInv'
<1>1. {"end"} \in SUBSET AllFlags
  BY DEF AllFlags
<1>2. /\ el_flags' \subseteq AllFlags /\ pending' \in BOOLEAN
      /\ el_flags \subseteq el_flags' /\ NoLostWakeup'
  BY <1>1, AddFlagsAnnounces DEF TransmissionEnd
<1>3. {txeie', tcie', busy'} \subseteq BOOLEAN
      /\ txeie' = txeie /\ registered' = registered
  BY EndOfInterruptType DEF IInv, TransmissionEnd
<1>4. /\ UNCHANGED <<scenario, pc, reader, sender, n, msgs>>
      /\ line' \in 0 .. Len(script) /\ col' \in Nat
      /\ line' < Len(script) => col' < Len(script[line' + 1])
      /\ iqueue' \in Seq(Chars) /\ Len(iqueue') <= room
      /\ oqueue' \in Seq(Marks) /\ Len(oqueue') <= OutSize
      /\ got' \in Seq(Marks)
  BY DEF IInv, TypeOK, Contents, TransmissionEnd
<1> QED
  BY <1>2, <1>3, <1>4, InterruptKeeps

----------------------------------------------------------------------------
(* Every step keeps the invariant. *)
LEMMA NextInv == IInv /\ [Next]_vars => IInv'
<1> SUFFICES ASSUME IInv, [Next]_vars PROVE IInv'
  OBVIOUS
<1>1. CASE Loop
  BY <1>1, RegisterKeeps, PollKeeps, EventKeeps, FlagsKeeps, GetKeeps,
     CallbackKeeps, AnsweredKeeps, OverflowKeeps, ResetQueuesKeeps,
     ReleaseKeeps, WriteKeeps, SendWaitKeeps, SendFlagsKeeps, DrainKeeps,
     ReadWaitKeeps, ReadFlagsKeeps, ReadGetKeeps
     DEF Loop
<1>2. CASE \E s \in Senders, request \in {"send", "read"} : MsgSend(s, request)
  BY <1>2, MsgSendKeeps
<1>3. ASSUME NEW done \in BOOLEAN,
             \/ \E err \in BOOLEAN : Receive(err, done)
             \/ Break(done)
             \/ Transmission(done)
      PROVE  IInv'
  BY <1>3, ReceiveKeeps, BreakKeeps, TransmitKeeps, OutputEmptyKeeps
     DEF Transmission
<1>4. CASE TransmissionEnd
  BY <1>4, TransmissionEndKeeps
<1>5. CASE UNCHANGED vars
  <2>1. TypeOK' /\ Contents' /\ Callers'
    BY <1>5 DEF IInv, TypeOK, Contents, Callers, vars
  <2>2. Progress' /\ Room'
    BY <1>5 DEF IInv, Progress, Room, Answering, vars
  <2>3. NoLostWakeup' /\ SendCompletes'
    BY <1>5 DEF IInv, NoLostWakeup, SendCompletes, vars
  <2> QED
    BY <2>1, <2>2, <2>3 DEF IInv
<1> QED
  BY <1>1, <1>2, <1>3, <1>4, <1>5 DEF Next

(* The invariant holds in every state of the service. *)
THEOREM WiflyInvariant == Spec => []IInv
BY InitInv, NextInv, PTL DEF Spec

(* The stores of wifly_loop and wifly_receive stay inside id[], args[] and *)
(* msg[], whatever the peer sends and however long its lines are.          *)
THEOREM IndexBoundsAlways == Spec => []IndexBounds
BY WiflyInvariant, InvIndexBounds, PTL

(* Taking p_epending and taking the flags are two steps, and no flag set   *)
(* between them goes unannounced.                                          *)
THEOREM NoLostWakeupAlways == Spec => []NoLostWakeup
<1>1. IInv => NoLostWakeup
  BY DEF IInv
<1> QED
  BY <1>1, WiflyInvariant, PTL

(* While wifly_send waits for CHN_OUTPUT_EMPTY, the flag is set or the     *)
(* transmitter interrupt that sets it is armed.                            *)
THEOREM SendCompletesAlways == Spec => []SendCompletes
<1>1. IInv => SendCompletes
  BY DEF IInv
<1> QED
  BY <1>1, WiflyInvariant, PTL

----------------------------------------------------------------------------
(* A message is whole, and whole messages one after the other are. *)
LEMMA WholeMessage ==
  ASSUME NEW kind \in Kinds
  PROVE  Whole(Message(kind))
<1>1. Len(Message(kind)) = MsgLen
  BY MessageType
<1>2. \A k \in 1 .. MsgLen : Message(kind)[k] = <<kind, k>>
  BY DEF Message
<1> QED
  BY <1>1, <1>2, Sizes DEF Whole

LEMMA WholeConcat ==
  ASSUME NEW s \in Seq(Marks), NEW m \in Seq(Marks), Whole(s), Whole(m)
  PROVE  Whole(s \o m)
<1>1. Len(s) \in Nat /\ Len(m) \in Nat
  OBVIOUS
<1>2. /\ Len(s \o m) = Len(s) + Len(m)
      /\ \A k \in 1 .. Len(s) : (s \o m)[k] = s[k]
      /\ \A k \in 1 .. Len(m) : (s \o m)[Len(s) + k] = m[k]
  BY ConcatProperties
<1> DEFINE a == s \o m
           Follows(k) ==
             /\ k = 1 => a[k][2] = 1
             /\ k = Len(a) => a[k][2] = MsgLen
             /\ k < Len(a) => a[k + 1] = IF a[k][2] = MsgLen THEN <<a[k + 1][1], 1>>
                                         ELSE <<a[k][1], a[k][2] + 1>>
<1>3. \A k \in 1 .. Len(m) : m[k] = <<m[k][1], m[k][2]>>
  BY DEF Marks
<1>4. ASSUME NEW k \in 1 .. Len(a), k < Len(s)
      PROVE  Follows(k)
  <2>1. k \in 1 .. Len(s) /\ k + 1 \in 1 .. Len(s) /\ k # Len(a)
    BY <1>1, <1>2, <1>4
  <2>2. a[k] = s[k] /\ a[k + 1] = s[k + 1]
    BY <1>2, <2>1
  <2> QED
    BY <1>4, <2>1, <2>2 DEF Whole
<1>5. ASSUME NEW k \in 1 .. Len(a), k = Len(s)
      PROVE  Follows(k)
  <2>1. k \in 1 .. Len(s) /\ a[k] = s[k]
    BY <1>1, <1>2, <1>5
  <2>2. a[k][2] = MsgLen /\ (k = 1 => a[k][2] = 1)
    BY <1>5, <2>1 DEF Whole
  <2>3. k < Len(a) => 1 \in 1 .. Len(m) /\ a[k + 1] = m[1]
    BY <1>1, <1>2, <1>5
  <2>4. k < Len(a) => m[1][2] = 1
    BY <2>3 DEF Whole
  <2>5. k < Len(a) => a[k + 1] = <<a[k + 1][1], 1>>
    BY <1>3, <2>3, <2>4
  <2> QED
    BY <2>2, <2>5
<1>6. ASSUME NEW k \in 1 .. Len(a), k > Len(s)
      PROVE  Follows(k)
  <2> DEFINE i == k - Len(s)
  <2>1. /\ i \in 1 .. Len(m) /\ k = Len(s) + i /\ k + 1 = Len(s) + (i + 1)
        /\ k = 1 => i = 1
        /\ k = Len(a) <=> i = Len(m)
        /\ k < Len(a) => i < Len(m) /\ i + 1 \in 1 .. Len(m)
    BY <1>1, <1>2, <1>6
  <2>2. a[k] = m[i] /\ (k < Len(a) => a[k + 1] = m[i + 1])
    BY <1>2, <2>1
  <2> HIDE DEF a, i
  <2> QED
    BY <2>1, <2>2 DEF Whole
<1> HIDE DEF a
<1>7. Whole(a)
  <2> HIDE DEF Follows
  <2>1. \A k \in 1 .. Len(a) : k < Len(s) \/ k = Len(s) \/ k > Len(s)
    BY <1>1
  <2>2. \A k \in 1 .. Len(a) : Follows(k)
    BY <1>4, <1>5, <1>6, <2>1, Zenon
  <2> QED
    BY <2>2, Zenon DEF Whole, Follows
<1> QED
  BY <1>7 DEF a

(* Moving the first element of one queue to the end of the queue before it *)
(* changes nothing in what the two hold together.                          *)
LEMMA Shift ==
  ASSUME NEW S, NEW p \in Seq(S), NEW q \in Seq(S), q # <<>>
  PROVE  Append(p, Head(q)) \o Tail(q) = p \o q
<1>1. Head(q) \in S /\ <<Head(q)>> \in Seq(S) /\ Tail(q) \in Seq(S)
  BY TakeFirst
<1>2. <<Head(q)>> \o Tail(q) = q
  BY TakeFirst, <1>1
<1>3. Append(p, Head(q)) = p \o <<Head(q)>>
  BY <1>1, AppendIsConcat
<1>4. (p \o <<Head(q)>>) \o Tail(q) = p \o (<<Head(q)>> \o Tail(q))
  BY <1>1, ConcatAssociative
<1> QED
  BY <1>2, <1>3, <1>4

(* What the peer has received, what is queued and what is to be written. *)
AllSent == got \o oqueue \o out

(* Nothing was cut off, and the queues are not about to be reset. *)
Unbroken == pc # "reset" /\ Whole(AllSent)

(* A message is begun only after the one before has been written. *)
LEMMA StartSendWhole ==
  ASSUME IInv, Whole(AllSent), pc # "write", UNCHANGED <<got, oqueue>>,
         NEW kind \in Kinds, NEW r, StartSend(kind, r)
  PROVE  Whole(AllSent')
<1>1. out = <<>> /\ got \in Seq(Marks) /\ oqueue \in Seq(Marks)
  BY DEF IInv, Progress, Contents
<1>2. got \o oqueue \in Seq(Marks)
  BY <1>1, ConcatProperties
<1>3. Whole(got \o oqueue)
  BY <1>1, <1>2, ConcatEmptySeq DEF AllSent
<1>4. AllSent' = (got \o oqueue) \o Message(kind)
  BY DEF AllSent, StartSend
<1>5. Message(kind) \in Seq(Marks) /\ Whole(Message(kind))
  BY MessageType, WholeMessage
<1> QED
  BY <1>2, <1>3, <1>4, <1>5, WholeConcat

(* Writing moves a character into the output queue, the transmitter moves  *)
(* it on to the peer.                                                      *)
LEMMA WriteMoves == ASSUME IInv, Write PROVE AllSent' = AllSent
<1>1. /\ out # <<>> /\ got \in Seq(Marks) /\ oqueue \in Seq(Marks)
      /\ out \in Seq(Marks)
  BY DEF IInv, Progress, Contents, Write
<1>2. Head(out) \in Marks /\ Tail(out) \in Seq(Marks)
  BY <1>1, TakeFirst
<1>3. Append(oqueue, Head(out)) \in Seq(Marks)
  BY <1>1, <1>2, PutLast
<1>4. Append(oqueue, Head(out)) \o Tail(out) = oqueue \o out
  BY <1>1, Shift
<1>5. (got \o Append(oqueue, Head(out))) \o Tail(out)
        = got \o (Append(oqueue, Head(out)) \o Tail(out))
  BY SMTT(30), <1>1, <1>2, <1>3, ConcatAssociative
<1>6. (got \o oqueue) \o out = got \o (oqueue \o out)
  BY <1>1, ConcatAssociative
<1>7. AllSent' = (got \o Append(oqueue, Head(out))) \o Tail(out)
  BY DEF AllSent, Write
<1> QED
  BY <1>4, <1>5, <1>6, <1>7 DEF AllSent

LEMMA TransmitMoves ==
  ASSUME IInv, NEW done \in BOOLEAN, Transmit(done)
  PROVE  AllSent' = AllSent
<1>1. Append(got, Head(oqueue)) \o Tail(oqueue) = got \o oqueue
  BY Shift DEF IInv, Contents, Transmit
<1>2. AllSent' = (Append(got, Head(oqueue)) \o Tail(oqueue)) \o out
  BY DEF AllSent, Transmit
<1> QED
  BY <1>1, <1>2 DEF AllSent

(* No step cuts a message off while no line error is raised. *)
LEMMA NextUnbroken ==
  ASSUME IInv, Unbroken, "error" \notin el_flags, [Next]_vars
  PROVE  Unbroken'
<1>1. pc' # "reset"
  <2>1. CASE Loop
    BY <2>1, Zenon
       DEF Loop, Unbroken, IInv, Progress, Register, Poll, Event, Flags, Get,
           Store, StartSend, Callback, Answered, NextLine, Overflow,
           ResetQueues, Release, Write, SendWait, SendFlags, Drain, ReceiveChar,
           ReadWait, ReadFlags, ReadGet
  <2>2. CASE UNCHANGED pc
    BY <2>2 DEF Unbroken
  <2> QED
    BY <2>1, <2>2
       DEF Next, MsgSend, Receive, Break, Transmission, Transmit, OutputEmpty,
           TransmissionEnd, vars
<1>2. CASE UNCHANGED <<got, oqueue, out>>
  BY <1>1, <1>2 DEF Unbroken, AllSent
<1>3. CASE Poll \/ Get \/ Callback
  <2>1. pc # "write" /\ UNCHANGED <<got, oqueue>>
    BY <1>3 DEF Poll, Get, Callback
  <2>2. \/ UNCHANGED out
        \/ \E kind \in Kinds, r \in {"next", "overflow", "release"} :
             StartSend(kind, r)
    BY <1>3 DEF Poll, Get, Store, Callback, StartSend, Kinds
  <2>3. CASE UNCHANGED out
    BY <1>2, <2>1, <2>3
  <2>4. CASE \E kind \in Kinds, r \in {"next", "overflow", "release"} :
               StartSend(kind, r)
    BY <1>1, <2>1, <2>4, StartSendWhole DEF Unbroken
  <2> QED
    BY <2>2, <2>3, <2>4
<1>4. CASE Write
  BY <1>1, <1>4, WriteMoves DEF Unbroken
<1>5. ASSUME NEW done \in BOOLEAN, Transmit(done)
      PROVE  Unbroken'
  BY <1>1, <1>5, TransmitMoves DEF Unbroken
<1>6. CASE Loop
  <2>1. CASE ResetQueues
    BY <2>1 DEF Unbroken, ResetQueues
  <2>2. CASE \/ Register \/ Event \/ Flags \/ Answered \/ Overflow \/ Release
             \/ SendWait \/ SendFlags \/ Drain \/ ReadWait \/ ReadFlags
             \/ ReadGet
    BY <1>2, <2>2
       DEF Register, Event, Flags, Answered, Overflow, Release, SendWait,
           SendFlags, Drain, ReadWait, ReadFlags, ReadGet
  <2> QED
    BY <1>3, <1>4, <1>6, <2>1, <2>2 DEF Loop
<1>7. CASE ~Loop
  BY <1>2, <1>5, <1>7
     DEF Next, MsgSend, Receive, Break, Transmission, OutputEmpty,
         TransmissionEnd, vars
<1> QED
  BY <1>6, <1>7

(* As long as the driver reports no error (a framing or noise error, a     *)
(* break, or a character for which the input queue had no room) the peer   *)
(* receives whole messages, in whatever way the answers, the comments of   *)
(* other threads and the transmitter interleave.                           *)
THEOREM WholeMessagesWithoutErrors ==
  Spec /\ []("error" \notin el_flags) => []WholeMessages
<1>1. Init => Unbroken
  BY ConcatEmptySeq, EmptyLength DEF Init, Unbroken, AllSent, Whole
<1>2. IInv /\ Unbroken /\ "error" \notin el_flags /\ [Next]_vars => Unbroken'
  BY NextUnbroken
<1>3. Unbroken => WholeMessages
  BY DEF Unbroken, AllSent, WholeMessages
<1> QED
  BY <1>1, <1>2, <1>3, WiflyInvariant, PTL DEF Spec

(* No step changes what the scenario is. *)
LEMMA ScenarioFixed == [Next]_vars => UNCHANGED scenario
BY DEF Next, Loop, Register, Poll, Event, Flags, Get, Callback, Answered,
       Overflow, ResetQueues, Release, Write, SendWait, SendFlags, Drain,
       ReadWait, ReadFlags, ReadGet, MsgSend, Receive, Break, Transmission,
       Transmit, OutputEmpty, TransmissionEnd, vars

(* A peer that waits for its answers, and whose characters are read one by *)
(* one, never overruns the input queue.                                    *)
Paced == pace = "prompt" => "error" \notin el_flags

LEMMA NextPaced ==
  ASSUME IInv, Paced, [Next]_vars
  PROVE  Paced'
<1>1. pace' = pace
  BY ScenarioFixed
<1>2. CASE el_flags' \subseteq el_flags
  BY <1>1, <1>2 DEF Paced
<1>3. ASSUME NEW f, AddFlags(f), "error" \notin f
      PROVE  Paced'
  BY <1>1, <1>3 DEF Paced, AddFlags
<1>4. ASSUME NEW err \in BOOLEAN, NEW done \in BOOLEAN, Receive(err, done)
      PROVE  Paced'
  <2>1. CASE pace # "prompt"
    BY <1>1, <2>1 DEF Paced
  <2>2. CASE pace = "prompt"
    <3>1. iqueue = <<>> /\ ~err /\ Len(iqueue) # room
      BY <1>4, <2>2, ScenarioType, EmptyLength DEF Receive, IInv
    <3>2. \/ AddFlags({"input"} \cup {} \cup Complete(done))
          \/ UNCHANGED events
      BY <1>4, <3>1 DEF Receive
    <3>3. "error" \notin {"input"} \cup {} \cup Complete(done)
      BY DEF Complete
    <3> QED
      BY <1>2, <1>3, <3>2, <3>3
  <2> QED
    BY <2>1, <2>2
<1>5. ASSUME NEW done \in BOOLEAN, Break(done)
      PROVE  Paced'
  BY <1>1, <1>5 DEF Break, Paced
<1>6. ASSUME NEW done \in BOOLEAN, Transmission(done)
      PROVE  Paced'
  <2>1. "error" \notin {"end"} /\ "error" \notin {"empty"} \cup Complete(done)
    BY DEF Complete
  <2> QED
    BY <1>2, <1>3, <1>6, <2>1 DEF Transmission, Transmit, OutputEmpty
<1>7. CASE TransmissionEnd
  BY <1>3, <1>7 DEF TransmissionEnd
<1>8. CASE Loop
  BY <1>2, <1>8
     DEF Loop, Register, Poll, Event, Flags, Get, Callback, Answered,
         Overflow, ResetQueues, Release, Write, SendWait, SendFlags, Drain,
         ReadWait, ReadFlags, ReadGet
<1>9. CASE \E s \in Senders, request \in {"send", "read"} : MsgSend(s, request)
  BY <1>2, <1>9 DEF MsgSend
<1> QED
  BY <1>2, <1>4, <1>5, <1>6, <1>7, <1>8, <1>9 DEF Next, vars

(* A peer that waits for its answers and types no faster than wifly_loop   *)
(* reads receives whole messages, for any lines and any size of the        *)
(* buffers.                                                                *)
THEOREM PromptPeerReceivesWhole ==
  Spec /\ pace = "prompt" => [](pace = "prompt" /\ WholeMessages)
<1>1. Init => Paced
  BY DEF Init, Paced
<1>2. IInv /\ Paced /\ [Next]_vars => Paced'
  BY NextPaced
<1>3. Spec => []Paced
  BY <1>1, <1>2, WiflyInvariant, PTL DEF Spec
<1>4. pace = "prompt" /\ [Next]_vars => (pace = "prompt")'
  BY ScenarioFixed
<1>5. Spec /\ pace = "prompt" => [](pace = "prompt")
  BY <1>4, PTL DEF Spec
<1>6. pace = "prompt" /\ Paced => "error" \notin el_flags
  BY DEF Paced
<1> QED
  BY <1>3, <1>5, <1>6, WholeMessagesWithoutErrors, PTL

----------------------------------------------------------------------------
(* Which answer belongs to which line.                                     *)

(* A set of naturals has a least element. *)
LEMMA LeastNat ==
  ASSUME NEW S \in SUBSET Nat, S # {}
  PROVE  \E x \in S : \A y \in S : x <= y
<1>1. PICK x \in S : \A y \in S : ~ (<<y, x>> \in OpToRel(<, Nat))
  BY NatLessThanWellFounded, WFMin
<1>2. \A y \in S : ~ (y < x)
  BY <1>1 DEF OpToRel
<1> QED
  BY <1>2

(* WordOf is what its recursive definition says, for every line: there is  *)
(* no first character at which it could stop being so.                     *)
LEMMA WordSteps ==
  ASSUME NEW l, Len(l) \in Nat
  PROVE  /\ WordOf(l)[0] = <<>>
         /\ \A k \in 1 .. Len(l) :
              WordOf(l)[k] =
                IF l[k] \in Ends \/ \E b \in 1 .. k : l[b] = " "
                  THEN WordOf(l)[k - 1] ELSE Append(WordOf(l)[k - 1], l[k])
<1> DEFINE C == Len(l)
           B(k) == l[k] \in Ends \/ \E b \in 1 .. k : l[b] = " "
           X(k, w) == IF B(k) THEN w ELSE Append(w, l[k])
           W(m, g) == /\ g = [k \in 0 .. m |-> g[k]]
                      /\ g[0] = <<>>
                      /\ \A k \in 1 .. m : g[k] = X(k, g[k - 1])
           F(f) == [k \in 0 .. C |-> IF k = 0 THEN <<>>
                                     ELSE IF l[k] \in Ends \/ \E b \in 1 .. k : l[b] = " "
                                       THEN f[k - 1] ELSE Append(f[k - 1], l[k])]
           Bad == {m \in 0 .. C : ~ \E g : W(m, g)}
<1>1. Bad = {}
  <2> HIDE DEF X
  <2> SUFFICES ASSUME Bad # {} PROVE FALSE
    OBVIOUS
  <2>1. PICK m \in Bad : \A y \in Bad : m <= y
    <3>1. Bad \in SUBSET Nat
      OBVIOUS
    <3> QED
      BY <3>1, LeastNat
  <2>2. m \in 0 .. C /\ ~ \E g : W(m, g)
    BY <2>1
  <2>3. m # 0
    <3>1. W(0, [k \in 0 .. 0 |-> <<>>])
      OBVIOUS
    <3> QED
      BY <3>1, <2>2
  <2>4. \E g : W(m - 1, g)
    <3>1. m - 1 \in 0 .. C /\ ~ (m <= m - 1)
      BY <2>2, <2>3
    <3>2. m - 1 \notin Bad
      BY <2>1, <3>1
    <3> QED
      BY <3>1, <3>2
  <2>5. PICK g : W(m - 1, g)
    BY <2>4
  <2> DEFINE h == [k \in 0 .. m |-> IF k = m THEN X(m, g[m - 1]) ELSE g[k]]
  <2>6. W(m, h)
    <3>1. h = [k \in 0 .. m |-> h[k]]
      OBVIOUS
    <3>2. h[0] = <<>>
      BY <2>2, <2>3, <2>5
    <3>3. ASSUME NEW k \in 1 .. m PROVE h[k] = X(k, h[k - 1])
      <4>1. CASE k = m
        BY <4>1, <2>2, <2>3
      <4>2. CASE k # m
        <5>1. k \in 1 .. m - 1 /\ k \in 0 .. m /\ k - 1 \in 0 .. m /\ k - 1 # m
          BY <4>2, <2>2
        <5> QED
          BY <4>2, <5>1, <2>5
      <4> QED
        BY <4>1, <4>2
    <3> QED
      BY <3>1, <3>2, <3>3
  <2> QED
    BY <2>2, <2>6
<1>2. PICK g : W(C, g)
  <2>1. C \in 0 .. C
    OBVIOUS
  <2> HIDE DEF W, C
  <2> QED
    BY <1>1, <2>1
<1>3. g = F(g)
  <2>1. ASSUME NEW k \in 0 .. C PROVE g[k] = F(g)[k]
    <3>1. CASE k = 0
      BY <3>1, <1>2
    <3>2. CASE k # 0
      <4>1. k \in 1 .. C
        BY <3>2
      <4>2. g[k] = X(k, g[k - 1])
        BY <4>1, <1>2
      <4> QED
        BY <3>2, <4>2
    <3> QED
      BY <3>1, <3>2
  <2>2. F(g) = [k \in 0 .. C |-> F(g)[k]]
    OBVIOUS
  <2>3. g = [k \in 0 .. C |-> g[k]]
    BY <1>2
  <2> HIDE DEF F
  <2> QED
    BY <2>1, <2>2, <2>3
<1>4. WordOf(l) = F(WordOf(l))
  BY <1>3 DEF WordOf
<1>5. \A k \in 0 .. C : F(WordOf(l))[k] =
         IF k = 0 THEN <<>> ELSE IF l[k] \in Ends \/ \E b \in 1 .. k : l[b] = " "
           THEN WordOf(l)[k - 1] ELSE Append(WordOf(l)[k - 1], l[k])
  OBVIOUS
<1> HIDE DEF F
<1>6. WordOf(l)[0] = <<>>
  <2>1. 0 \in 0 .. C
    OBVIOUS
  <2>2. F(WordOf(l))[0] = <<>>
    BY <2>1, <1>5
  <2>3. WordOf(l)[0] = F(WordOf(l))[0]
    BY <1>4
  <2> QED
    BY <2>2, <2>3
<1>7. ASSUME NEW k \in 1 .. Len(l)
      PROVE  WordOf(l)[k] =
               IF l[k] \in Ends \/ \E b \in 1 .. k : l[b] = " "
                 THEN WordOf(l)[k - 1] ELSE Append(WordOf(l)[k - 1], l[k])
  <2>1. k \in 0 .. C /\ k # 0
    OBVIOUS
  <2>2. WordOf(l)[k] = F(WordOf(l))[k]
    BY <1>4
  <2> QED
    BY <2>1, <2>2, <1>5
<1> QED
  BY <1>6, <1>7

(* The how manieth answer ends at e. *)
Rank(s, e) == Cardinality({i \in AnswerEnds(s) : i <= e})

(* There are finitely many answers. *)
LEMMA EndsFinite ==
  ASSUME NEW s \in Seq(Marks)
  PROVE  /\ AnswerEnds(s) \subseteq 1 .. Len(s)
         /\ IsFiniteSet(AnswerEnds(s)) /\ Cardinality(AnswerEnds(s)) \in Nat
<1>1. Len(s) \in Nat /\ IsFiniteSet(1 .. Len(s))
  BY FS_Interval
<1>2. AnswerEnds(s) \in SUBSET (1 .. Len(s))
  BY DEF AnswerEnds
<1>3. IsFiniteSet(AnswerEnds(s))
  BY <1>1, <1>2, FS_Subset
<1> QED
  BY <1>2, <1>3, FS_CardinalityType

(* What comes later neither ends an earlier answer nor changes its rank. *)
LEMMA EarlierAnswers ==
  ASSUME NEW s \in Seq(Marks), NEW t \in Seq(Marks)
  PROVE  /\ \A i \in 1 .. Len(s) : i \in AnswerEnds(s \o t) <=> i \in AnswerEnds(s)
         /\ \A e \in AnswerEnds(s) : /\ e \in AnswerEnds(s \o t)
                                     /\ (s \o t)[e] = s[e]
                                     /\ Rank(s \o t, e) = Rank(s, e)
<1>1. Len(s) \in Nat /\ Len(t) \in Nat
  OBVIOUS
<1>2. /\ Len(s \o t) = Len(s) + Len(t)
      /\ \A k \in 1 .. Len(s) : (s \o t)[k] = s[k]
  BY ConcatProperties
<1>3. ASSUME NEW i \in 1 .. Len(s)
      PROVE  i \in AnswerEnds(s \o t) <=> i \in AnswerEnds(s)
  <2>1. i \in 1 .. Len(s \o t) /\ (s \o t)[i] = s[i]
    BY <1>1, <1>2
  <2> QED
    BY <2>1 DEF AnswerEnds
<1>4. ASSUME NEW e \in AnswerEnds(s)
      PROVE  /\ e \in AnswerEnds(s \o t)
             /\ (s \o t)[e] = s[e]
             /\ Rank(s \o t, e) = Rank(s, e)
  <2>1. e \in 1 .. Len(s)
    BY DEF AnswerEnds
  <2>2. \A i \in AnswerEnds(s \o t) : i \in Nat /\ i >= 1
    BY <1>1, <1>2 DEF AnswerEnds
  <2>3. \A i \in AnswerEnds(s) : i \in 1 .. Len(s)
    BY DEF AnswerEnds
  <2>4. \A i \in AnswerEnds(s \o t) : i <= e => i \in 1 .. Len(s)
    BY <1>1, <2>1, <2>2
  <2>5. {i \in AnswerEnds(s \o t) : i <= e} = {i \in AnswerEnds(s) : i <= e}
    BY <1>3, <2>3, <2>4
  <2> QED
    BY <1>2, <1>3, <2>1, <2>5 DEF Rank
<1> QED
  BY <1>3, <1>4

(* A message adds an answer at its end, unless it is a comment. *)
LEMMA MessageAnswers ==
  ASSUME NEW s \in Seq(Marks), NEW kind \in Kinds
  PROVE  AnswerEnds(s \o Message(kind)) =
           IF kind = "MSG" THEN AnswerEnds(s)
                           ELSE AnswerEnds(s) \cup {Len(s) + MsgLen}
<1> DEFINE m == Message(kind)
           a == s \o m
<1>1. m \in Seq(Marks) /\ Len(m) = MsgLen /\ Len(s) \in Nat /\ MsgLen \in Nat /\ MsgLen > 0
  BY MessageType, Sizes
<1>2. \A k \in 1 .. MsgLen : m[k] = <<kind, k>>
  BY DEF Message
<1> HIDE DEF m
<1>3. /\ Len(a) = Len(s) + MsgLen
      /\ \A k \in 1 .. MsgLen : a[Len(s) + k] = <<kind, k>>
  <2>1. /\ Len(a) = Len(s) + Len(m)
        /\ \A k \in 1 .. Len(m) : a[Len(s) + k] = m[k]
    <3>1. s \in Seq(Marks) /\ m \in Seq(Marks)
      BY <1>1
    <3> QED
      BY <3>1, ConcatProperties, SMTT(30)
  <2> HIDE DEF a
  <2> QED
    BY <1>1, <1>2, <2>1
<1>4. \A i \in 1 .. Len(s) : i \in AnswerEnds(a) <=> i \in AnswerEnds(s)
  BY <1>1, EarlierAnswers
<1> HIDE DEF a
<1>5. ASSUME NEW i \in Len(s) + 1 .. Len(s) + MsgLen
      PROVE  i \in AnswerEnds(a) <=> kind # "MSG" /\ i = Len(s) + MsgLen
  <2>1. PICK k \in 1 .. MsgLen : i = Len(s) + k
    <3>1. i - Len(s) \in 1 .. MsgLen /\ i = Len(s) + (i - Len(s))
      BY <1>1
    <3> QED
      BY <3>1
  <2>2. a[i] = <<kind, k>>
    BY <2>1, <1>3
  <2>3. a[i][1] = kind /\ a[i][2] = k
    BY <2>2
  <2>4. i \in 1 .. Len(a) /\ (k = MsgLen <=> i = Len(s) + MsgLen)
    <3>1. Len(s) \in Nat /\ MsgLen \in Nat /\ Len(a) = Len(s) + MsgLen
      BY <1>1, <1>3
    <3> QED
      BY <2>1, <3>1
  <2> QED
    BY <2>3, <2>4 DEF AnswerEnds
<1>6. \A i \in AnswerEnds(a) : i \in 1 .. Len(s) \/ i \in Len(s) + 1 .. Len(s) + MsgLen
  <2>1. \A i \in AnswerEnds(a) : i \in 1 .. Len(a)
    BY DEF AnswerEnds
  <2> QED
    BY <2>1, <1>1, <1>3
<1>7. \A i \in AnswerEnds(s) : i \in 1 .. Len(s)
  BY DEF AnswerEnds
<1>8. Len(s) + MsgLen \in Len(s) + 1 .. Len(s) + MsgLen
  BY <1>1
<1> QED
  BY <1>4, <1>5, <1>6, <1>7, <1>8 DEF a, m

(* The answers in s belong to the lines 1 .. c of sc, in this order. *)
Matched(sc, s, c) ==
  /\ Cardinality(AnswerEnds(s)) = c
  /\ \A e \in AnswerEnds(s) : s[e][1] \in Allowed(sc[Rank(s, e)])

(* The answer to the next line may follow. *)
LEMMA NextAnswer ==
  ASSUME NEW sc, NEW s \in Seq(Marks), NEW c \in Nat, Matched(sc, s, c),
         NEW kind \in Kinds, kind # "MSG", kind \in Allowed(sc[c + 1])
  PROVE  Matched(sc, s \o Message(kind), c + 1)
<1> DEFINE m == Message(kind)
           E == AnswerEnds(s)
           x == Len(s) + MsgLen
<1>1. m \in Seq(Marks) /\ Len(m) = MsgLen /\ Len(s) \in Nat /\ MsgLen \in Nat /\ MsgLen > 0
  BY MessageType, Sizes
<1>2. AnswerEnds(s \o m) = E \cup {x}
  BY MessageAnswers
<1>3. /\ E \subseteq 1 .. Len(s) /\ IsFiniteSet(E) /\ Cardinality(E) = c
  BY EndsFinite DEF Matched
<1>4. x \notin E /\ \A i \in E : i <= x
  BY <1>1, <1>3
<1>5. Cardinality(E \cup {x}) = c + 1
  BY <1>3, <1>4, FS_AddElement
<1>6. \A e \in E : (s \o m)[e][1] \in Allowed(sc[Rank(s \o m, e)])
  BY <1>1, EarlierAnswers DEF Matched
<1>7. (s \o m)[x] = <<kind, MsgLen>>
  <2>1. MsgLen \in 1 .. Len(m) /\ m[MsgLen] = <<kind, MsgLen>>
    BY <1>1 DEF Message
  <2> HIDE DEF m
  <2> QED
    BY <1>1, <2>1, ConcatProperties
<1>8. Rank(s \o m, x) = c + 1
  <2>1. {i \in E \cup {x} : i <= x} = E \cup {x}
    BY <1>1, <1>4
  <2> QED
    BY <1>2, <1>5, <2>1 DEF Rank
<1>9. (s \o m)[x][1] \in Allowed(sc[Rank(s \o m, x)])
  BY <1>7, <1>8
<1> QED
  BY <1>2, <1>5, <1>6, <1>9 DEF Matched

(* A comment changes nothing. *)
LEMMA CommentBetween ==
  ASSUME NEW sc, NEW s \in Seq(Marks), NEW c, Matched(sc, s, c)
  PROVE  Matched(sc, s \o Message("MSG"), c)
<1>1. "MSG" \in Kinds /\ Message("MSG") \in Seq(Marks)
  BY MessageType DEF Kinds
<1>2. AnswerEnds(s \o Message("MSG")) = AnswerEnds(s)
  BY <1>1, MessageAnswers
<1>3. \A e \in AnswerEnds(s) : /\ (s \o Message("MSG"))[e] = s[e]
                               /\ Rank(s \o Message("MSG"), e) = Rank(s, e)
  BY <1>1, EarlierAnswers
<1> QED
  BY <1>2, <1>3 DEF Matched

----------------------------------------------------------------------------
(* The order of the answers.                                               *)

(* Where the arguments are in the first k characters of a line. *)
Args(l, k) == {b \in 1 .. k : l[b] \notin Ends /\ \E c \in 1 .. b - 1 : l[c] = " "}

(* A line ends with its only line feed. *)
Proper(sc) ==
  \A i \in 1 .. Len(sc) : \A k \in 1 .. Len(sc[i]) :
    sc[i][k] = "\n" <=> k = Len(sc[i])

(* The word and the arguments of a line fit into id[] and args[], with the *)
(* '\0' after them.                                                        *)
Fitting(sc) ==
  \A i \in 1 .. Len(sc) : \A k \in 0 .. Len(sc[i]) :
    /\ Len(WordOf(sc[i])[k]) < IdSize
    /\ Cardinality(Args(sc[i], k)) < ArgsSize

(* A peer without line errors sends lines, none of them too long. *)
ProperLines ==
  \A s \in Scenarios : s.pace # "noisy" => Proper(s.script) /\ Fitting(s.script)

(* The queue q holds what the peer sent from character ca[0] of line la[0] *)
(* to character c of line l, where la[i] and ca[i] are the lines and the   *)
(* characters before the i-th character of the queue.                      *)
Path(sc, q, l, c, la, ca) ==
  /\ la \in [0 .. Len(q) -> Nat] /\ ca \in [0 .. Len(q) -> Nat]
  /\ la[Len(q)] = l /\ ca[Len(q)] = c
  /\ \A i \in 0 .. Len(q) : la[i] <= l
  /\ \A i \in 1 .. Len(q) :
       /\ la[i - 1] < Len(sc)
       /\ q[i] = sc[la[i - 1] + 1][ca[i - 1] + 1]
       /\ IF q[i] = "\n" THEN la[i] = la[i - 1] + 1 /\ ca[i] = 0
                         ELSE la[i] = la[i - 1] /\ ca[i] = ca[i - 1] + 1

(* No error, no line that does not fit, and only comments to send: the     *)
(* thread never throws characters away, and never reads an empty queue.    *)
Quiet ==
  /\ pc \notin Receiving \cup {"reset", "overflow"}
  /\ ret # "overflow"
  /\ "error" \notin el_flags
  /\ \A k \in 1 .. Len(msgqueue) : msgqueue[k][2] = "send"
  /\ "input" \in el_flags \/ pc = "get" => iqueue # <<>>
  /\ pc = "get" => "input" \notin el_flags

(* The line has been read to its end, its answer is on its way. *)
Closing == pc \in {"callback", "next"} \/ (pc \in Sending /\ ret = "next")

(* The thread has read m characters of the line after line a. *)
Reading(a, m) ==
  a < Len(script) =>
    /\ m < Len(script[a + 1])
    /\ id = WordOf(script[a + 1])[m]
    /\ read_id <=> \A b \in 1 .. m : script[a + 1][b] # " "
    /\ j = Cardinality(Args(script[a + 1], m))

(* a lines have been read, and all but the one in callback are answered. *)
Thread(a, m) ==
  /\ IF Closing THEN m = 0 ELSE Reading(a, m)
  /\ pc = "callback" => /\ a > 0 /\ id = WordOf(script[a])[Len(script[a])]
                        /\ id # <<"*", "h", "*">>
  /\ Matched(script, AllSent, IF pc = "callback" THEN a - 1 ELSE a)

(* The inductive invariant: what is queued continues the line that is      *)
(* being read, and what has been sent answers the lines before.            *)
OInv ==
  pace # "noisy" =>
    /\ Quiet
    /\ \E la, ca : Path(script, iqueue, line, col, la, ca) /\ Thread(la[0], ca[0])

(* The script of a peer without line errors. *)
LEMMA ProperScript ==
  ASSUME TypeOK, ProperLines, pace # "noisy"
  PROVE  Proper(script) /\ Fitting(script)
<1> DEFINE s == [pace |-> pace, script |-> script, room |-> room, quota |-> quota]
<1>1. s \in Scenarios /\ s.pace = pace /\ s.script = script
  BY DEF TypeOK
<1> HIDE DEF s
<1> QED
  BY <1>1 DEF ProperLines

(* The arguments, character by character. *)
LEMMA ArgsSteps ==
  ASSUME NEW l, NEW m \in Nat
  PROVE  /\ Args(l, 0) = {}
         /\ IsFiniteSet(Args(l, m)) /\ Cardinality(Args(l, m)) \in Nat
         /\ Cardinality(Args(l, m + 1)) =
              IF l[m + 1] \notin Ends /\ \E b \in 1 .. m : l[b] = " "
                THEN Cardinality(Args(l, m)) + 1 ELSE Cardinality(Args(l, m))
<1> DEFINE more == l[m + 1] \notin Ends /\ \E b \in 1 .. m : l[b] = " "
<1>1. Args(l, 0) = {}
  <2>1. 1 .. 0 = {}
    OBVIOUS
  <2> QED
    BY <2>1 DEF Args
<1>2. IsFiniteSet(Args(l, m)) /\ Cardinality(Args(l, m)) \in Nat
  <2>1. IsFiniteSet(1 .. m)
    BY FS_Interval
  <2>2. Args(l, m) \in SUBSET (1 .. m)
    BY DEF Args
  <2>3. IsFiniteSet(Args(l, m))
    BY <2>1, <2>2, FS_Subset
  <2> QED
    BY <2>3, FS_CardinalityType
<1>3. m + 1 \notin Args(l, m)
  <2>1. m + 1 \notin 1 .. m
    OBVIOUS
  <2> QED
    BY <2>1 DEF Args
<1>4. (m + 1) - 1 = m /\ 1 .. m + 1 = (1 .. m) \cup {m + 1}
  OBVIOUS
<1>5. Args(l, m + 1) = IF more THEN Args(l, m) \cup {m + 1} ELSE Args(l, m)
  BY <1>4 DEF Args
<1> HIDE DEF more
<1>6. Cardinality(Args(l, m) \cup {m + 1}) = Cardinality(Args(l, m)) + 1
  BY <1>2, <1>3, FS_AddElement
<1>7. Cardinality(Args(l, m + 1)) = IF more THEN Cardinality(Args(l, m)) + 1
                                    ELSE Cardinality(Args(l, m))
  BY <1>5, <1>6
<1> QED
  BY <1>1, <1>2, <1>7 DEF more

(* The first character is taken off the queue. *)
LEMMA PathTake ==
  ASSUME NEW sc, NEW q \in Seq(Chars), q # <<>>, NEW l, NEW c, NEW la, NEW ca,
         Path(sc, q, l, c, la, ca)
  PROVE  /\ la[0] \in Nat /\ ca[0] \in Nat /\ la[0] < Len(sc)
         /\ Head(q) = sc[la[0] + 1][ca[0] + 1]
         /\ \E lb, cb :
              /\ Path(sc, Tail(q), l, c, lb, cb)
              /\ IF Head(q) = "\n" THEN lb[0] = la[0] + 1 /\ cb[0] = 0
                                   ELSE lb[0] = la[0] /\ cb[0] = ca[0] + 1
<1> DEFINE t == Tail(q)
           lb == [i \in 0 .. Len(t) |-> la[i + 1]]
           cb == [i \in 0 .. Len(t) |-> ca[i + 1]]
<1>1. /\ Head(q) = q[1] /\ Len(q) \in Nat \ {0} /\ Len(t) = Len(q) - 1
      /\ \A k \in 1 .. Len(t) : t[k] = q[k + 1]
  BY TakeFirst
<1> HIDE DEF t
<1>2. /\ la \in [0 .. Len(q) -> Nat] /\ ca \in [0 .. Len(q) -> Nat]
      /\ la[Len(q)] = l /\ ca[Len(q)] = c
      /\ \A i \in 0 .. Len(q) : la[i] <= l
  BY DEF Path
<1>3. ASSUME NEW i \in 1 .. Len(q)
      PROVE  /\ la[i - 1] < Len(sc)
             /\ q[i] = sc[la[i - 1] + 1][ca[i - 1] + 1]
             /\ IF q[i] = "\n" THEN la[i] = la[i - 1] + 1 /\ ca[i] = 0
                               ELSE la[i] = la[i - 1] /\ ca[i] = ca[i - 1] + 1
  BY DEF Path
<1>4. 1 \in 1 .. Len(q) /\ 0 \in 0 .. Len(q) /\ 1 - 1 = 0 /\ 0 \in 0 .. Len(t) /\ 0 + 1 = 1
  BY <1>1
<1>5. /\ la[0] \in Nat /\ ca[0] \in Nat /\ la[0] < Len(sc)
      /\ Head(q) = sc[la[0] + 1][ca[0] + 1]
      /\ IF Head(q) = "\n" THEN la[1] = la[0] + 1 /\ ca[1] = 0
                           ELSE la[1] = la[0] /\ ca[1] = ca[0] + 1
  BY <1>1, <1>2, <1>3, <1>4
<1>6. ASSUME NEW i \in 0 .. Len(t)
      PROVE  i + 1 \in 0 .. Len(q) /\ i + 1 \in 1 .. Len(q)
  BY <1>1
<1>7. \A i \in 0 .. Len(t) : lb[i] = la[i + 1] /\ cb[i] = ca[i + 1]
  OBVIOUS
<1>8. lb \in [0 .. Len(t) -> Nat] /\ cb \in [0 .. Len(t) -> Nat]
  BY <1>2, <1>6
<1> HIDE DEF lb, cb
<1>9. /\ lb[Len(t)] = l /\ cb[Len(t)] = c
      /\ \A i \in 0 .. Len(t) : lb[i] <= l
  <2>1. Len(t) \in 0 .. Len(t) /\ Len(t) + 1 = Len(q)
    BY <1>1
  <2> QED
    BY <2>1, <1>2, <1>6, <1>7
<1>10. ASSUME NEW i \in 1 .. Len(t)
       PROVE  /\ lb[i - 1] < Len(sc)
              /\ t[i] = sc[lb[i - 1] + 1][cb[i - 1] + 1]
              /\ IF t[i] = "\n" THEN lb[i] = lb[i - 1] + 1 /\ cb[i] = 0
                                ELSE lb[i] = lb[i - 1] /\ cb[i] = cb[i - 1] + 1
  <2>1. /\ i \in 0 .. Len(t) /\ i - 1 \in 0 .. Len(t)
        /\ (i - 1) + 1 = i /\ (i + 1) - 1 = i /\ i + 1 \in 1 .. Len(q)
    BY <1>1
  <2>2. /\ lb[i] = la[i + 1] /\ cb[i] = ca[i + 1]
        /\ lb[i - 1] = la[i] /\ cb[i - 1] = ca[i] /\ t[i] = q[i + 1]
    BY <2>1, <1>1, <1>7
  <2>3. /\ la[i] < Len(sc)
        /\ q[i + 1] = sc[la[i] + 1][ca[i] + 1]
        /\ IF q[i + 1] = "\n" THEN la[i + 1] = la[i] + 1 /\ ca[i + 1] = 0
                              ELSE la[i + 1] = la[i] /\ ca[i + 1] = ca[i] + 1
    BY <2>1, <1>3
  <2> QED
    BY <2>2, <2>3
<1>11. Path(sc, t, l, c, lb, cb)
  BY <1>8, <1>9, <1>10 DEF Path
<1>12. lb[0] = la[1] /\ cb[0] = ca[1]
  BY <1>4, <1>7
<1>13. \E ld, cd : /\ Path(sc, t, l, c, ld, cd)
                   /\ IF Head(q) = "\n" THEN ld[0] = la[0] + 1 /\ cd[0] = 0
                                        ELSE ld[0] = la[0] /\ cd[0] = ca[0] + 1
  BY <1>5, <1>11, <1>12
<1> QED
  BY <1>5, <1>13 DEF t

(* The next character of the peer is put into the queue. *)
LEMMA PathPut ==
  ASSUME NEW sc, NEW q \in Seq(Chars), NEW x \in Chars, NEW l \in Nat,
         NEW c \in Nat, NEW la, NEW ca, Path(sc, q, l, c, la, ca),
         l < Len(sc), x = sc[l + 1][c + 1], NEW l2 \in Nat, NEW c2 \in Nat,
         IF x = "\n" THEN l2 = l + 1 /\ c2 = 0 ELSE l2 = l /\ c2 = c + 1
  PROVE  \E lb, cb : /\ Path(sc, Append(q, x), l2, c2, lb, cb)
                     /\ lb[0] = la[0] /\ cb[0] = ca[0]
<1> DEFINE p == Append(q, x)
           lb == [i \in 0 .. Len(p) |-> IF i = Len(p) THEN l2 ELSE la[i]]
           cb == [i \in 0 .. Len(p) |-> IF i = Len(p) THEN c2 ELSE ca[i]]
<1>1. /\ Len(q) \in Nat /\ Len(p) = Len(q) + 1
      /\ \A k \in 1 .. Len(q) : p[k] = q[k]
      /\ p[Len(q) + 1] = x
  BY PutLast
<1> HIDE DEF p
<1>2. /\ la \in [0 .. Len(q) -> Nat] /\ ca \in [0 .. Len(q) -> Nat]
      /\ la[Len(q)] = l /\ ca[Len(q)] = c
      /\ \A i \in 0 .. Len(q) : la[i] <= l
  BY DEF Path
<1>3. ASSUME NEW i \in 1 .. Len(q)
      PROVE  /\ la[i - 1] < Len(sc)
             /\ q[i] = sc[la[i - 1] + 1][ca[i - 1] + 1]
             /\ IF q[i] = "\n" THEN la[i] = la[i - 1] + 1 /\ ca[i] = 0
                               ELSE la[i] = la[i - 1] /\ ca[i] = ca[i - 1] + 1
  BY DEF Path
<1>4. /\ \A i \in 0 .. Len(q) : lb[i] = la[i] /\ cb[i] = ca[i]
      /\ lb[Len(p)] = l2 /\ cb[Len(p)] = c2
  <2>1. \A i \in 0 .. Len(q) : i \in 0 .. Len(p) /\ i # Len(p)
    BY <1>1
  <2>2. Len(p) \in 0 .. Len(p)
    BY <1>1
  <2> QED
    BY <2>1, <2>2
<1>5. lb \in [0 .. Len(p) -> Nat] /\ cb \in [0 .. Len(p) -> Nat]
  <2>1. \A i \in 0 .. Len(p) : i # Len(p) => i \in 0 .. Len(q)
    BY <1>1
  <2> QED
    BY <1>2, <2>1
<1> HIDE DEF lb, cb
<1>6. ASSUME NEW i \in 0 .. Len(p) PROVE i \in 0 .. Len(q) \/ i = Len(p)
  BY <1>1
<1>7. l <= l2
  OBVIOUS
<1>8. ASSUME NEW i \in 0 .. Len(p) PROVE lb[i] <= l2
  <2>1. CASE i = Len(p)
    BY <2>1, <1>4
  <2>2. CASE i # Len(p)
    <3>1. i \in 0 .. Len(q)
      BY <1>6, <2>2
    <3>2. lb[i] = la[i] /\ la[i] <= l /\ la[i] \in Nat
      BY <3>1, <1>2, <1>4
    <3> QED
      BY <3>2, <1>7
  <2> QED
    BY <2>1, <2>2
<1>9. ASSUME NEW i \in 1 .. Len(p)
      PROVE  /\ lb[i - 1] < Len(sc)
             /\ p[i] = sc[lb[i - 1] + 1][cb[i - 1] + 1]
             /\ IF p[i] = "\n" THEN lb[i] = lb[i - 1] + 1 /\ cb[i] = 0
                               ELSE lb[i] = lb[i - 1] /\ cb[i] = cb[i - 1] + 1
  <2>1. CASE i = Len(p)
    <3>1. i - 1 = Len(q) /\ Len(q) \in 0 .. Len(q) /\ i = Len(q) + 1
      BY <2>1, <1>1
    <3>2. lb[i - 1] = l /\ cb[i - 1] = c /\ p[i] = x /\ lb[i] = l2 /\ cb[i] = c2
      BY <2>1, <3>1, <1>1, <1>2, <1>4
    <3> QED
      BY <3>2
  <2>2. CASE i # Len(p)
    <3>1. i \in 1 .. Len(q) /\ i \in 0 .. Len(q) /\ i - 1 \in 0 .. Len(q)
      BY <2>2, <1>1
    <3>2. /\ lb[i - 1] = la[i - 1] /\ cb[i - 1] = ca[i - 1] /\ p[i] = q[i]
          /\ lb[i] = la[i] /\ cb[i] = ca[i]
      BY <3>1, <1>1, <1>4
    <3> QED
      BY <3>1, <3>2, <1>3
  <2> QED
    BY <2>1, <2>2
<1>10. Path(sc, p, l2, c2, lb, cb)
  BY <1>4, <1>5, <1>8, <1>9 DEF Path
<1>11. lb[0] = la[0] /\ cb[0] = ca[0]
  <2>1. 0 \in 0 .. Len(q)
    BY <1>1
  <2> QED
    BY <2>1, <1>4
<1>12. \E ld, cd : Path(sc, p, l2, c2, ld, cd) /\ ld[0] = la[0] /\ cd[0] = ca[0]
  BY <1>10, <1>11
<1> QED
  BY <1>12 DEF p

(* wifly_send adds its message to what has been sent. *)
LEMMA SendAdds ==
  ASSUME IInv, pc # "write", UNCHANGED <<got, oqueue>>,
         NEW kind \in Kinds, NEW r, StartSend(kind, r)
  PROVE  AllSent' = AllSent \o Message(kind)
<1>1. out = <<>> /\ got \o oqueue \in Seq(Marks)
  BY ConcatProperties DEF IInv, Progress, Contents
<1>2. AllSent = got \o oqueue
  BY <1>1, ConcatEmptySeq DEF AllSent
<1>3. AllSent' = (got \o oqueue) \o Message(kind)
  BY DEF AllSent, StartSend
<1> QED
  BY <1>2, <1>3

(* What has been sent is a sequence of marks. *)
LEMMA AllSentType == ASSUME IInv PROVE AllSent \in Seq(Marks)
<1>1. got \in Seq(Marks) /\ oqueue \in Seq(Marks) /\ out \in Seq(Marks)
  BY DEF IInv, Contents
<1>2. got \o oqueue \in Seq(Marks)
  BY <1>1, ConcatProperties
<1> QED
  BY <1>1, <1>2, ConcatProperties DEF AllSent

(* Nothing is read and nothing is sent. *)
LEMMA OrderFrame ==
  ASSUME OInv, UNCHANGED <<pace, script, line, col, iqueue, id, j, read_id>>,
         AllSent' = AllSent, pace # "noisy" => Quiet',
         Closing' <=> Closing, pc' = "callback" <=> pc = "callback"
  PROVE  OInv'
<1> SUFFICES ASSUME pace # "noisy"
             PROVE  \E la, ca : Path(script, iqueue, line, col, la, ca)
                                /\ Thread(la[0], ca[0])'
  BY DEF OInv
<1>1. PICK la, ca : Path(script, iqueue, line, col, la, ca) /\ Thread(la[0], ca[0])
  BY DEF OInv
<1> DEFINE a == la[0]
           m == ca[0]
<1>2. Thread(a, m)
  BY <1>1
<1> HIDE DEF a, m
<1>3. Reading(a, m)' <=> Reading(a, m)
  BY DEF Reading
<1>4. Thread(a, m)'
  BY <1>2, <1>3 DEF Thread
<1>5. Thread(la[0], ca[0])'
  BY <1>4 DEF a, m
<1> QED
  BY <1>1, <1>5

(* Nothing has been read yet. *)
LEMMA OrderStart ==
  ASSUME Init, ProperLines
  PROVE  OInv
<1> SUFFICES ASSUME pace # "noisy" PROVE OInv
  BY DEF OInv
<1> DEFINE z == [i \in 0 .. 0 |-> 0]
<1>1. z \in [0 .. 0 -> Nat] /\ z[0] = 0
  OBVIOUS
<1> HIDE DEF z
<1>2. Len(iqueue) = 0 /\ line = 0 /\ col = 0
  BY DEF Init
<1>3. Path(script, iqueue, line, col, z, z)
  BY <1>1, <1>2 DEF Path
<1>4. Quiet
  BY DEF Init, Quiet
<1>5. IInv
  BY InitInv
<1>6. script \in Seq(Seq(STRING) \ {<<>>})
  BY <1>5, ScenarioType DEF IInv
<1>7. Reading(0, 0)
  <2> SUFFICES ASSUME 0 < Len(script)
               PROVE  /\ 0 < Len(script[1])
                      /\ id = WordOf(script[1])[0]
                      /\ read_id <=> \A b \in 1 .. 0 : script[1][b] # " "
                      /\ j = Cardinality(Args(script[1], 0))
    BY DEF Reading
  <2>1. 1 \in 1 .. Len(script)
    BY <1>6
  <2>2. script[1] \in Seq(STRING) /\ script[1] # <<>>
    BY <1>6, <2>1
  <2>3. Len(script[1]) \in Nat /\ 0 < Len(script[1])
    BY <2>2, EmptySeq
  <2>4. WordOf(script[1])[0] = <<>>
    BY <2>3, WordSteps
  <2>5. Cardinality(Args(script[1], 0)) = 0
    BY ArgsSteps, FS_EmptySet
  <2> QED
    BY <2>3, <2>4, <2>5 DEF Init
<1>8. AnswerEnds(AllSent) = {}
  <2>1. AllSent = <<>> /\ Len(AllSent) = 0
    BY ConcatEmptySeq, EmptyLength DEF AllSent, Init
  <2> QED
    BY <2>1 DEF AnswerEnds
<1>9. Matched(script, AllSent, 0)
  BY <1>8, FS_EmptySet DEF Matched
<1>10. Thread(0, 0)
  BY <1>7, <1>9 DEF Thread, Init, Closing
<1> QED
  BY <1>1, <1>3, <1>4, <1>10 DEF OInv

(* The steps that leave the order alone. *)
LEMMA RegisterOrder == ASSUME IInv, OInv, Register PROVE OInv'
<1>1. pace # "noisy" => Quiet'
  BY DEF OInv, Quiet, Register
<1>2. AllSent' = AllSent
  BY DEF AllSent, Register
<1> QED
  BY <1>1, <1>2, OrderFrame DEF Register, Closing

LEMMA EventOrder == ASSUME IInv, OInv, Event PROVE OInv'
<1>1. pace # "noisy" => Quiet'
  BY DEF OInv, Quiet, Event
<1>2. AllSent' = AllSent
  BY DEF AllSent, Event
<1> QED
  BY <1>1, <1>2, OrderFrame DEF Event, Closing

LEMMA FlagsOrder == ASSUME IInv, OInv, Flags PROVE OInv'
<1>1. pace # "noisy" => Quiet'
  BY DEF OInv, Quiet, Flags
<1>2. AllSent' = AllSent
  BY DEF AllSent, Flags
<1> QED
  <2> SUFFICES ASSUME pace # "noisy" PROVE OInv'
    BY DEF OInv, Flags
  <2> QED
    BY <1>1, <1>2, OrderFrame DEF Flags, Closing

LEMMA ReleaseOrder == ASSUME IInv, OInv, Release PROVE OInv'
<1>1. pace # "noisy" => Quiet'
  BY DEF OInv, Quiet, Release
<1>2. AllSent' = AllSent
  BY DEF AllSent, Release
<1> QED
  BY <1>1, <1>2, OrderFrame DEF Release, Closing

LEMMA WriteOrder == ASSUME IInv, OInv, Write PROVE OInv'
<1>1. pace # "noisy" => Quiet'
  BY DEF OInv, Quiet, Write
<1>2. AllSent' = AllSent
  BY WriteMoves
<1>3. (Closing' <=> Closing) /\ (pc' = "callback" <=> pc = "callback")
  BY DEF Write, Closing
<1> QED
  BY <1>1, <1>2, <1>3, OrderFrame DEF Write

LEMMA SendWaitOrder == ASSUME IInv, OInv, SendWait PROVE OInv'
<1>1. pace # "noisy" => Quiet'
  BY DEF OInv, Quiet, SendWait
<1>2. AllSent' = AllSent
  BY DEF AllSent, SendWait
<1> QED
  BY <1>1, <1>2, OrderFrame DEF SendWait, Closing

LEMMA SendFlagsOrder == ASSUME IInv, OInv, SendFlags PROVE OInv'
<1> SUFFICES ASSUME pace # "noisy" PROVE OInv'
  BY DEF OInv, SendFlags
<1>1. ret \in {"next", "release"}
  BY DEF OInv, Quiet, SendFlags, IInv, Progress
<1>2. Quiet'
  BY <1>1 DEF OInv, Quiet, SendFlags
<1>3. AllSent' = AllSent
  BY DEF AllSent, SendFlags
<1>4. (Closing' <=> Closing) /\ (pc' = "callback" <=> pc = "callback")
  BY <1>1 DEF SendFlags, Closing
<1> QED
  BY <1>2, <1>3, <1>4, OrderFrame DEF SendFlags

(* Other threads ask only for comments. *)
LEMMA MsgSendOrder ==
  ASSUME IInv, OInv, NEW s \in Senders, NEW request, MsgSend(s, request)
  PROVE  OInv'
<1> SUFFICES ASSUME pace # "noisy" PROVE OInv'
  BY DEF OInv, MsgSend
<1>1. request = "send" /\ msgqueue \in Seq(Requests) /\ <<s, request>> \in Requests
  BY DEF MsgSend, IInv, Contents, Requests
<1>2. \A k \in 1 .. Len(msgqueue)' : msgqueue'[k][2] = "send"
  <2>1. /\ Len(msgqueue) \in Nat /\ Len(msgqueue') = Len(msgqueue) + 1
        /\ \A k \in 1 .. Len(msgqueue) : msgqueue'[k] = msgqueue[k]
        /\ msgqueue'[Len(msgqueue) + 1] = <<s, request>>
    BY <1>1, PutLast DEF MsgSend
  <2>2. \A k \in 1 .. Len(msgqueue) : msgqueue[k][2] = "send"
    BY DEF OInv, Quiet
  <2>3. ASSUME NEW k \in 1 .. Len(msgqueue')
        PROVE  k \in 1 .. Len(msgqueue) \/ k = Len(msgqueue) + 1
    BY <2>1
  <2> QED
    BY <1>1, <2>1, <2>2, <2>3
<1>3. Quiet'
  BY <1>2 DEF OInv, Quiet, MsgSend
<1>4. AllSent' = AllSent
  BY DEF AllSent, MsgSend
<1> QED
  BY <1>3, <1>4, OrderFrame DEF MsgSend, Closing

(* An interrupt that reports the transmitter. *)
LEMMA ReportOrder ==
  ASSUME IInv, OInv, NEW f, {"input", "error"} \cap f = {},
         AddFlags(f) \/ UNCHANGED events, AllSent' = AllSent,
         UNCHANGED <<peer, iqueue, pc, reader, sender, msgs>>
  PROVE  OInv'
<1>1. el_flags' \subseteq el_flags \cup f
  BY DEF AddFlags
<1>2. pace # "noisy" => Quiet'
  BY <1>1 DEF OInv, Quiet
<1> QED
  BY <1>2, OrderFrame DEF Closing

LEMMA TransmitOrder ==
  ASSUME IInv, OInv, NEW done \in BOOLEAN, Transmit(done)
  PROVE  OInv'
<1>1. AllSent' = AllSent
  BY TransmitMoves
<1>2. AddFlags({"end"}) \/ UNCHANGED events
  BY DEF Transmit
<1>3. UNCHANGED <<peer, iqueue, pc, reader, sender, msgs>>
  BY DEF Transmit
<1>4. {"input", "error"} \cap {"end"} = {}
  OBVIOUS
<1> QED
  BY <1>1, <1>2, <1>3, <1>4, ReportOrder

LEMMA OutputEmptyOrder ==
  ASSUME IInv, OInv, NEW done \in BOOLEAN, OutputEmpty(done)
  PROVE  OInv'
<1>1. AllSent' = AllSent
  BY DEF AllSent, OutputEmpty
<1>2. AddFlags({"empty"} \cup Complete(done))
  BY DEF OutputEmpty
<1>3. UNCHANGED <<peer, iqueue, pc, reader, sender, msgs>>
  BY DEF OutputEmpty
<1>4. {"input", "error"} \cap ({"empty"} \cup Complete(done)) = {}
  BY DEF Complete
<1> QED
  BY <1>1, <1>2, <1>3, <1>4, ReportOrder

LEMMA TransmissionEndOrder == ASSUME IInv, OInv, TransmissionEnd PROVE OInv'
<1>1. AllSent' = AllSent
  BY DEF AllSent, TransmissionEnd
<1>2. AddFlags({"end"})
  BY DEF TransmissionEnd
<1>3. UNCHANGED <<peer, iqueue, pc, reader, sender, msgs>>
  BY DEF TransmissionEnd
<1>4. {"input", "error"} \cap {"end"} = {}
  OBVIOUS
<1> QED
  BY <1>1, <1>2, <1>3, <1>4, ReportOrder

(* A comment goes out only when no line is being read. *)
LEMMA PollOrder == ASSUME IInv, OInv, Poll PROVE OInv'
<1> SUFFICES ASSUME pace # "noisy" PROVE OInv'
  BY DEF OInv, Poll
<1>1. CASE ~(id = <<>> /\ j = 0 /\ msgqueue # <<>>)
  <2>1. Quiet'
    BY <1>1 DEF OInv, Quiet, Poll
  <2>2. AllSent' = AllSent
    BY <1>1 DEF AllSent, Poll
  <2> QED
    BY <1>1, <2>1, <2>2, OrderFrame DEF Poll, Closing
<1>2. CASE id = <<>> /\ j = 0 /\ msgqueue # <<>>
  <2>1. /\ Head(msgqueue) = msgqueue[1] /\ 1 \in 1 .. Len(msgqueue)
        /\ Len(msgqueue) \in Nat /\ Len(Tail(msgqueue)) = Len(msgqueue) - 1
        /\ \A k \in 1 .. Len(Tail(msgqueue)) : Tail(msgqueue)[k] = msgqueue[k + 1]
    BY <1>2, TakeFirst DEF IInv, Contents
  <2>2. \A k \in 1 .. Len(msgqueue) : msgqueue[k][2] = "send"
    BY DEF OInv, Quiet
  <2>3. Head(msgqueue)[2] = "send"
    BY <2>1, <2>2
  <2>4. /\ StartSend("MSG", "release") /\ msgqueue' = Tail(msgqueue)
        /\ UNCHANGED <<peer, got, iqueue, oqueue, uart, events, reader>>
        /\ pc = "poll" /\ pc' = "write" /\ ret' = "release"
    BY <1>2, <2>3 DEF Poll, StartSend
  <2>5. \A k \in 1 .. Len(msgqueue') : msgqueue'[k][2] = "send"
    <3>1. ASSUME NEW k \in 1 .. Len(Tail(msgqueue)) PROVE k + 1 \in 1 .. Len(msgqueue)
      BY <2>1
    <3> QED
      BY <3>1, <2>1, <2>2, <2>4
  <2>6. Quiet'
    BY <2>4, <2>5 DEF OInv, Quiet
  <2>7. AllSent' = AllSent \o Message("MSG")
    BY <2>4, SendAdds DEF Kinds
  <2>8. PICK la, ca : Path(script, iqueue, line, col, la, ca) /\ Thread(la[0], ca[0])
    BY DEF OInv
  <2> DEFINE a == la[0]
             m == ca[0]
  <2>9. Thread(a, m)
    BY <2>8
  <2> HIDE DEF a, m
  <2>10. Matched(script, AllSent, a) /\ Reading(a, m)
    BY <2>4, <2>9 DEF Thread, Closing
  <2>11. Matched(script, AllSent', a)
    BY <2>7, <2>10, AllSentType, CommentBetween
  <2>12. Reading(a, m)'
    BY <2>4, <2>10 DEF Reading
  <2>13. Thread(a, m)'
    BY <2>4, <2>11, <2>12 DEF Thread, Closing
  <2>14. Thread(la[0], ca[0])'
    BY <2>13 DEF a, m
  <2> QED
    BY <2>4, <2>6, <2>8, <2>14 DEF OInv
<1> QED
  BY <1>1, <1>2

(* A line begins where the line before it ended. *)
LEMMA LineBegins ==
  ASSUME TypeOK, NEW a \in Nat, id' = <<>>, j' = 0, read_id' = TRUE,
         UNCHANGED script
  PROVE  Reading(a, 0)'
<1>1. script \in Seq(Seq(STRING) \ {<<>>})
  BY ScenarioType
<1> SUFFICES ASSUME a < Len(script)
             PROVE  /\ 0 < Len(script[a + 1])
                    /\ <<>> = WordOf(script[a + 1])[0]
                    /\ \A b \in 1 .. 0 : script[a + 1][b] # " "
                    /\ 0 = Cardinality(Args(script[a + 1], 0))
  BY DEF Reading
<1>2. a + 1 \in 1 .. Len(script)
  BY <1>1
<1>3. script[a + 1] \in Seq(STRING) /\ script[a + 1] # <<>>
  BY <1>1, <1>2
<1>4. Len(script[a + 1]) \in Nat /\ 0 < Len(script[a + 1])
  BY <1>3, EmptySeq
<1>5. WordOf(script[a + 1])[0] = <<>>
  BY <1>4, WordSteps
<1>6. 1 .. 0 = {}
  OBVIOUS
<1>7. \A b \in {} : script[a + 1][b] # " "
  OBVIOUS
<1>8. Cardinality(Args(script[a + 1], 0)) = 0
  BY ArgsSteps, FS_EmptySet
<1> QED
  BY <1>4, <1>5, <1>6, <1>7, <1>8

(* The thread goes on to the next line. *)
LEMMA AnsweredOrder == ASSUME IInv, OInv, Answered PROVE OInv'
<1> SUFFICES ASSUME pace # "noisy" PROVE OInv'
  BY DEF OInv, Answered
<1>1. /\ UNCHANGED <<peer, got, iqueue, oqueue, uart, events, sender, n, msgs>>
      /\ pc = "next" /\ pc' = "poll" /\ id' = <<>> /\ j' = 0 /\ read_id' = TRUE
  BY DEF Answered, NextLine
<1>2. Quiet'
  BY <1>1 DEF OInv, Quiet
<1>3. PICK la, ca : Path(script, iqueue, line, col, la, ca) /\ Thread(la[0], ca[0])
  BY DEF OInv
<1> DEFINE a == la[0]
           m == ca[0]
<1>4. Thread(a, m)
  BY <1>3
<1>5. a \in Nat
  <2>1. Len(iqueue) \in Nat
    BY DEF IInv, Contents
  <2>2. 0 \in 0 .. Len(iqueue)
    BY <2>1
  <2> QED
    BY <2>2, <1>3 DEF Path
<1> HIDE DEF a, m
<1>6. m = 0 /\ Matched(script, AllSent, a)
  BY <1>1, <1>4 DEF Thread, Closing
<1>7. Reading(a, 0)'
  BY <1>1, <1>5, LineBegins DEF IInv
<1>8. AllSent' = AllSent
  BY <1>1 DEF AllSent
<1>9. Thread(a, m)'
  BY <1>1, <1>6, <1>7, <1>8 DEF Thread, Closing
<1>10. Thread(la[0], ca[0])'
  BY <1>9 DEF a, m
<1> QED
  BY <1>1, <1>2, <1>3, <1>10 DEF OInv

(* The command handler answers the line that has been read. *)
LEMMA CallbackOrder == ASSUME IInv, OInv, Callback PROVE OInv'
<1> SUFFICES ASSUME pace # "noisy" PROVE OInv'
  BY DEF OInv, Callback
<1>1. PICK kind \in {"VALUE", "OK", "ERROR"} :
        /\ StartSend(kind, "next")
        /\ \/ kind = "VALUE" /\ id = <<"v">>
           \/ kind = "OK" /\ id = <<"f">>
           \/ kind = "ERROR" /\ id # <<"v">>
  BY DEF Callback
<1>2. /\ UNCHANGED <<peer, got, iqueue, oqueue, uart, events, reader, n, msgs>>
      /\ pc = "callback" /\ pc' = "write" /\ ret' = "next"
  BY <1>1 DEF Callback, StartSend
<1>3. Quiet'
  BY <1>2 DEF OInv, Quiet
<1>4. PICK la, ca : Path(script, iqueue, line, col, la, ca) /\ Thread(la[0], ca[0])
  BY DEF OInv
<1> DEFINE a == la[0]
           m == ca[0]
<1>5. Thread(a, m)
  BY <1>4
<1>6. a \in Nat
  <2>1. Len(iqueue) \in Nat
    BY DEF IInv, Contents
  <2>2. 0 \in 0 .. Len(iqueue)
    BY <2>1
  <2> QED
    BY <2>2, <1>4 DEF Path
<1> HIDE DEF a, m
<1>7. /\ m = 0 /\ a > 0 /\ Matched(script, AllSent, a - 1)
      /\ id = WordOf(script[a])[Len(script[a])] /\ id # <<"*", "h", "*">>
  BY <1>2, <1>5 DEF Thread, Closing
<1>8. kind \in Allowed(script[a])
  <2>1. <<"v">> # <<"f">>
    OBVIOUS
  <2> QED
    BY <1>1, <1>7, <2>1 DEF Allowed
<1>9. AllSent' = AllSent \o Message(kind)
  BY <1>1, <1>2, SendAdds DEF Kinds
<1>10. Matched(script, AllSent', a)
  <2>1. a - 1 \in Nat /\ (a - 1) + 1 = a
    BY <1>6, <1>7
  <2>2. kind \in Kinds /\ kind # "MSG" /\ kind \in Allowed(script[(a - 1) + 1])
    BY <1>8, <2>1 DEF Kinds
  <2>3. Matched(script, AllSent \o Message(kind), (a - 1) + 1)
    BY <1>7, <2>1, <2>2, AllSentType, NextAnswer
  <2> QED
    BY <1>9, <2>1, <2>3
<1>11. Thread(a, m)'
  BY <1>2, <1>7, <1>10 DEF Thread, Closing
<1>12. Thread(la[0], ca[0])'
  BY <1>11 DEF a, m
<1> QED
  BY <1>2, <1>3, <1>4, <1>12 DEF OInv

(* A character of the peer finds room in the queue. *)
LEMMA ReceiveOrder ==
  ASSUME IInv, OInv, ProperLines, NEW err \in BOOLEAN, NEW done \in BOOLEAN,
         Receive(err, done), Len(iqueue) < room
  PROVE  OInv'
<1> SUFFICES ASSUME pace # "noisy" PROVE OInv'
  BY DEF OInv, Receive
<1> DEFINE x == script[line + 1][col + 1]
<1>1. /\ script \in Seq(Seq(STRING) \ {<<>>}) /\ room \in Nat
      /\ line \in Nat /\ col \in Nat /\ line < Len(script)
      /\ iqueue \in Seq(Chars) /\ Len(iqueue) \in Nat
  BY ScenarioType DEF IInv, TypeOK, Contents, Receive
<1>2. line + 1 \in 1 .. Len(script) /\ Len(iqueue) # room
  BY <1>1
<1>3. /\ script[line + 1] \in Seq(STRING) /\ col < Len(script[line + 1])
  BY <1>1, <1>2 DEF IInv, Contents
<1>4. col + 1 \in 1 .. Len(script[line + 1])
  BY <1>1, <1>3
<1>5. x \in Chars
  BY <1>3, <1>4 DEF Chars
<1>6. x = "\n" <=> col + 1 = Len(script[line + 1])
  BY <1>2, <1>4, ProperScript DEF IInv, Proper
<1>7. /\ iqueue' = Append(iqueue, x)
      /\ line' \in Nat /\ col' \in Nat
      /\ IF x = "\n" THEN line' = line + 1 /\ col' = 0
                     ELSE line' = line /\ col' = col + 1
  BY <1>1, <1>2, <1>6 DEF Receive
<1>8. /\ UNCHANGED <<scenario, got, oqueue, pc, reader, sender, n, msgs>>
      /\ el_flags' \subseteq el_flags \cup {"input", "end"}
      /\ iqueue # <<>> => el_flags' \subseteq el_flags \cup {"end"}
  BY <1>2 DEF Receive, AddFlags, Complete
<1>9. iqueue' # <<>>
  BY <1>1, <1>5, <1>7, PutLast
<1>10. Quiet'
  BY <1>8, <1>9 DEF OInv, Quiet
<1>11. PICK la, ca : Path(script, iqueue, line, col, la, ca) /\ Thread(la[0], ca[0])
  BY DEF OInv
<1> HIDE DEF x
<1>12. PICK lb, cb : /\ Path(script, Append(iqueue, x), line', col', lb, cb)
                     /\ lb[0] = la[0] /\ cb[0] = ca[0]
  <2>1. x = script[line + 1][col + 1]
    BY DEF x
  <2> QED
    BY <1>1, <1>5, <1>7, <1>11, <2>1, PathPut
<1> DEFINE a == la[0]
           m == ca[0]
<1>13. Thread(a, m)
  BY <1>11
<1> HIDE DEF a, m
<1>14. AllSent' = AllSent
  BY <1>8 DEF AllSent
<1>15. Reading(a, m)' <=> Reading(a, m)
  BY <1>8 DEF Reading
<1>16. Thread(a, m)'
  BY <1>8, <1>13, <1>14, <1>15 DEF Thread, Closing
<1>17. Thread(lb[0], cb[0])'
  BY <1>12, <1>16 DEF a, m
<1>18. Path(script', iqueue', line', col', lb, cb)
  BY <1>7, <1>8, <1>12
<1> QED
  BY <1>10, <1>17, <1>18 DEF OInv

(* The thread takes the next character of the line, which fits. *)
LEMMA GetOrder == ASSUME IInv, OInv, ProperLines, Get PROVE OInv'
<1> SUFFICES ASSUME pace # "noisy" PROVE OInv'
  BY DEF OInv, Get
<1>1. /\ pc = "get" /\ iqueue # <<>> /\ iqueue \in Seq(Chars) /\ id \in Seq(Chars)
      /\ UNCHANGED <<peer, got, oqueue, uart, events, n, msgs>>
      /\ iqueue' = Tail(iqueue)
  BY DEF OInv, Quiet, Get, IInv, Contents
<1> DEFINE in == Head(iqueue)
           word == IF read_id /\ in # " " /\ in \notin Ends THEN Append(id, in) ELSE id
           args == IF ~read_id /\ in \notin Ends THEN j + 1 ELSE j
           state == Len(word) > 2 /\ word[1] = "*" /\ word[Len(word)] = "*"
           kind == IF word = <<"*", "h", "*">> THEN "HELLO" ELSE "ERROR"
<1>2. /\ id' = word /\ j' = args /\ read_id' = (read_id /\ in # " ")
      /\ \/ Full(word, args)
         \/ in # "\n" /\ pc' = "poll" /\ UNCHANGED sender
         \/ in = "\n" /\ state /\ StartSend(kind, "next")
         \/ in = "\n" /\ ~state /\ pc' = "callback" /\ UNCHANGED sender
  BY <1>1 DEF Get, Store, EndOfLine, StartSend
<1>3. PICK la, ca : Path(script, iqueue, line, col, la, ca) /\ Thread(la[0], ca[0])
  BY DEF OInv
<1>4. /\ la[0] \in Nat /\ ca[0] \in Nat /\ la[0] < Len(script)
      /\ in = script[la[0] + 1][ca[0] + 1]
      /\ \E lb, cb :
           /\ Path(script, Tail(iqueue), line, col, lb, cb)
           /\ IF in = "\n" THEN lb[0] = la[0] + 1 /\ cb[0] = 0
                           ELSE lb[0] = la[0] /\ cb[0] = ca[0] + 1
  <2> HIDE DEF word, args, state, kind
  <2>1. iqueue \in Seq(Chars) /\ iqueue # <<>>
        /\ Path(script, iqueue, line, col, la, ca)
    BY <1>1, <1>3
  <2> QED
    BY <2>1, PathTake
<1> HIDE DEF in
<1>5. PICK lb, cb : /\ Path(script, Tail(iqueue), line, col, lb, cb)
                    /\ IF in = "\n" THEN lb[0] = la[0] + 1 /\ cb[0] = 0
                                    ELSE lb[0] = la[0] /\ cb[0] = ca[0] + 1
  BY <1>4
<1> DEFINE a == la[0]
           m == ca[0]
           l == script[a + 1]
<1>6. Thread(a, m) /\ a \in Nat /\ m \in Nat /\ a < Len(script) /\ in = l[m + 1]
  BY <1>3, <1>4
<1>7. Path(script', iqueue', line', col', lb, cb)
  BY <1>1, <1>5
<1>8. IF in = "\n" THEN lb[0] = a + 1 /\ cb[0] = 0 ELSE lb[0] = a /\ cb[0] = m + 1
  BY <1>5
<1> HIDE DEF a, m
<1>9. /\ m < Len(l) /\ id = WordOf(l)[m]
      /\ read_id <=> \A b \in 1 .. m : l[b] # " "
      /\ j = Cardinality(Args(l, m))
      /\ Matched(script, AllSent, a)
  BY <1>1, <1>6 DEF Thread, Closing, Reading
<1>10. /\ a + 1 \in 1 .. Len(script) /\ l \in Seq(STRING) /\ Len(l) \in Nat
       /\ m + 1 \in 1 .. Len(l)
  <2>1. script \in Seq(Seq(STRING) \ {<<>>})
    BY ScenarioType DEF IInv
  <2>2. Len(script) \in Nat /\ a + 1 \in 1 .. Len(script)
    BY <2>1, <1>6
  <2>3. l \in Seq(STRING)
    BY <2>1, <2>2
  <2> HIDE DEF l
  <2>4. Len(l) \in Nat
    BY <2>3
  <2>5. m < Len(l) /\ m \in Nat
    BY <1>6, <1>9
  <2>6. m + 1 \in 1 .. Len(l)
    BY <2>4, <2>5
  <2> QED
    BY <2>2, <2>3, <2>4, <2>6
<1>11. in = "\n" <=> m + 1 = Len(l)
  BY <1>6, <1>10, ProperScript DEF IInv, Proper
<1>12. (\E b \in 1 .. m + 1 : l[b] = " ") <=> ~(read_id /\ in # " ")
  <2> HIDE DEF l
  <2>1. \A b \in 1 .. m + 1 : b \in 1 .. m \/ b = m + 1
    BY <1>6
  <2>2. m + 1 \in 1 .. m + 1 /\ \A b \in 1 .. m : b \in 1 .. m + 1
    BY <1>6
  <2> QED
    BY <1>6, <1>9, <2>1, <2>2
<1>13. word = WordOf(l)[m + 1]
  <2> HIDE DEF l
  <2>1. WordOf(l)[m + 1] = IF l[m + 1] \in Ends \/ \E b \in 1 .. m + 1 : l[b] = " "
                             THEN WordOf(l)[(m + 1) - 1]
                             ELSE Append(WordOf(l)[(m + 1) - 1], l[m + 1])
    BY <1>10, WordSteps
  <2>2. (m + 1) - 1 = m
    BY <1>6
  <2> QED
    BY <1>6, <1>9, <1>12, <2>1, <2>2
<1>14. args = Cardinality(Args(l, m + 1))
  <2> HIDE DEF l
  <2>1. Cardinality(Args(l, m + 1)) =
          IF l[m + 1] \notin Ends /\ \E b \in 1 .. m : l[b] = " "
            THEN Cardinality(Args(l, m)) + 1 ELSE Cardinality(Args(l, m))
    BY <1>6, ArgsSteps
  <2> QED
    BY <1>6, <1>9, <2>1
<1>15. ~Full(word, args)
  <2>1. m + 1 \in 0 .. Len(l)
    BY <1>10
  <2>2. /\ Len(WordOf(l)[m + 1]) < IdSize
        /\ Cardinality(Args(l, m + 1)) < ArgsSize
    BY <1>10, <2>1, ProperScript DEF IInv, Fitting
  <2>3. Len(word) \in Nat /\ args \in Nat
    <3>1. in \in Chars
      BY <1>6, <1>10 DEF Chars
    <3>2. Len(id) \in Nat /\ Len(Append(id, in)) = Len(id) + 1
      BY <1>1, <3>1, PutLast
    <3>3. Cardinality(Args(l, m)) \in Nat
      BY <1>6, ArgsSteps
    <3>4. j \in Nat
      BY <1>9, <3>3
    <3>5. word = id \/ word = Append(id, in)
      OBVIOUS
    <3>6. args = j \/ args = j + 1
      OBVIOUS
    <3> HIDE DEF word, args
    <3> QED
      BY <3>2, <3>4, <3>5, <3>6
  <2> HIDE DEF l, word, args
  <2>4. Len(word) < IdSize /\ args < ArgsSize
    BY <1>13, <1>14, <2>2
  <2> QED
    BY <2>3, <2>4, Sizes DEF Full
<1>16. PICK f, g : f = lb[0] /\ g = cb[0]
  OBVIOUS
<1>17. CASE in # "\n"
  <2>1. pc' = "poll" /\ UNCHANGED sender
    BY <1>2, <1>15, <1>17
  <2>2. Quiet'
    BY <1>1, <2>1 DEF OInv, Quiet
  <2>3. AllSent' = AllSent
    BY <1>1, <2>1 DEF AllSent
  <2>4. m + 1 < Len(l)
    <3> HIDE DEF l
    <3>1. m + 1 # Len(l) /\ m < Len(l) /\ m \in Nat /\ Len(l) \in Nat
      BY <1>6, <1>9, <1>10, <1>11, <1>17
    <3> QED
      BY <3>1
  <2>5. Reading(a, m + 1)'
    <3>1. script' = script /\ id' = WordOf(l)[m + 1]
      BY <1>1, <1>2, <1>13
    <3>2. read_id' <=> \A b \in 1 .. m + 1 : l[b] # " "
      BY <1>2, <1>12
    <3>3. j' = Cardinality(Args(l, m + 1))
      BY <1>2, <1>14
    <3> QED
      BY <2>4, <3>1, <3>2, <3>3 DEF Reading
  <2>6. Thread(a, m + 1)'
    BY <1>1, <1>9, <2>1, <2>3, <2>5 DEF Thread, Closing
  <2>7. Thread(lb[0], cb[0])'
    <3>1. f = a /\ g = m + 1
      BY <1>8, <1>16, <1>17
    <3>2. Thread(f, g)'
      BY <2>6, <3>1
    <3> QED
      BY <1>16, <3>2
  <2> QED
    BY <1>7, <2>2, <2>7 DEF OInv
<1>18. CASE in = "\n" /\ state
  <2>1. StartSend(kind, "next") /\ pc' = "write" /\ ret' = "next"
    BY <1>2, <1>15, <1>18 DEF StartSend
  <2>2. Quiet'
    BY <1>1, <2>1 DEF OInv, Quiet
  <2>3. kind \in Kinds /\ kind # "MSG"
    BY DEF Kinds
  <2>4. kind \in Allowed(l)
    <3>1. word = WordOf(l)[Len(l)]
      BY <1>11, <1>13, <1>18
    <3>2. word # <<"v">> /\ word # <<"f">>
      <4> HIDE DEF word
      <4> QED
        BY <1>18
    <3> HIDE DEF word
    <3> QED
      BY <3>1, <3>2 DEF Allowed
  <2> HIDE DEF kind
  <2>5. AllSent' = AllSent \o Message(kind)
    BY <1>1, <2>1, <2>3, SendAdds
  <2>6. Matched(script, AllSent \o Message(kind), a + 1)
    BY <1>6, <1>9, <2>3, <2>4, AllSentType, NextAnswer
  <2>7. Thread(a + 1, 0)'
    BY <1>1, <2>1, <2>5, <2>6 DEF Thread, Closing
  <2>8. Thread(lb[0], cb[0])'
    <3>1. f = a + 1 /\ g = 0
      BY <1>8, <1>16, <1>18
    <3>2. Thread(f, g)'
      BY <2>7, <3>1
    <3> QED
      BY <1>16, <3>2
  <2> QED
    BY <1>7, <2>2, <2>8 DEF OInv
<1>19. CASE in = "\n" /\ ~state
  <2>1. pc' = "callback" /\ UNCHANGED sender
    BY <1>2, <1>15, <1>19
  <2>2. Quiet'
    BY <1>1, <2>1 DEF OInv, Quiet
  <2>3. AllSent' = AllSent
    BY <1>1, <2>1 DEF AllSent
  <2>4. id' = WordOf(l)[Len(l)] /\ id' # <<"*", "h", "*">>
    <3>1. word # <<"*", "h", "*">>
      <4> DEFINE h == <<"*", "h", "*">>
      <4>1. Len(h) = 3 /\ Len(h) > 2 /\ h[1] = "*" /\ h[Len(h)] = "*"
        OBVIOUS
      <4> HIDE DEF word, h
      <4>2. word # h
        BY <1>19, <4>1
      <4> QED
        BY <4>2 DEF h
    <3> QED
      BY <1>2, <1>11, <1>13, <1>19, <3>1
  <2>5. a + 1 > 0 /\ (a + 1) - 1 = a
    BY <1>6
  <2>6. Thread(a + 1, 0)'
    BY <1>1, <1>9, <2>1, <2>3, <2>4, <2>5 DEF Thread, Closing
  <2>7. Thread(lb[0], cb[0])'
    <3>1. f = a + 1 /\ g = 0
      BY <1>8, <1>16, <1>19
    <3>2. Thread(f, g)'
      BY <2>6, <3>1
    <3> QED
      BY <1>16, <3>2
  <2> QED
    BY <1>7, <2>2, <2>7 DEF OInv
<1> QED
  BY <1>17, <1>18, <1>19

(* No character arrives at a full input queue. *)
Lossless == Len(iqueue) < room \/ UNCHANGED <<line, col>>

(* Every step keeps the order. *)
LEMMA NextOrder ==
  ASSUME ProperLines, IInv, OInv, [Next]_vars, [Lossless]_vars
  PROVE  OInv'
<1>1. CASE pace = "noisy"
  BY <1>1, ScenarioFixed DEF OInv
<1>2. CASE pace # "noisy"
  <2>1. pc \notin {"drain", "readwait", "readflags", "readget", "reset", "overflow"}
    BY <1>2 DEF OInv, Quiet
  <2>2. CASE Loop
    <3>1. ~(Overflow \/ ResetQueues \/ Drain \/ ReadWait \/ ReadFlags \/ ReadGet)
      BY <2>1 DEF Overflow, ResetQueues, Drain, ReadWait, ReadFlags, ReadGet
    <3> QED
      BY <2>2, <3>1, RegisterOrder, PollOrder, EventOrder, FlagsOrder, GetOrder,
         CallbackOrder, AnsweredOrder, ReleaseOrder, WriteOrder, SendWaitOrder,
         SendFlagsOrder
         DEF Loop
  <2>3. CASE \E s \in Senders, request \in {"send", "read"} : MsgSend(s, request)
    BY <2>3, MsgSendOrder
  <2>4. ASSUME NEW done \in BOOLEAN, NEW err \in BOOLEAN, Receive(err, done)
        PROVE  OInv'
    <3>1. line \in Nat /\ col \in Nat
      BY ScenarioType DEF IInv, TypeOK
    <3>2. ~UNCHANGED <<line, col>>
      BY <2>4, <3>1 DEF Receive
    <3>3. Len(iqueue) < room
      BY <3>2 DEF Lossless, vars
    <3> QED
      BY <2>4, <3>3, ReceiveOrder
  <2>5. ASSUME NEW done \in BOOLEAN, Break(done)
        PROVE  OInv'
    BY <1>2, <2>5 DEF Break
  <2>6. ASSUME NEW done \in BOOLEAN, Transmission(done)
        PROVE  OInv'
    BY <2>6, TransmitOrder, OutputEmptyOrder DEF Transmission
  <2>7. CASE TransmissionEnd
    BY <2>7, TransmissionEndOrder
  <2>8. CASE UNCHANGED vars
    <3>1. pace # "noisy" => Quiet'
      BY <2>8 DEF OInv, Quiet, vars
    <3>2. AllSent' = AllSent
      BY <2>8 DEF AllSent, vars
    <3> QED
      BY <2>8, <3>1, <3>2, OrderFrame DEF vars, Closing
  <2> QED
    BY <2>2, <2>3, <2>4, <2>5, <2>6, <2>7, <2>8 DEF Next
<1> QED
  BY <1>1, <1>2

(* What the peer has received is the beginning of what has been sent, and  *)
(* no more lines are answered than have been read.                         *)
LEMMA OrderShown == ASSUME IInv, OInv PROVE AnswersInOrder
<1> SUFFICES ASSUME pace # "noisy", NEW e \in AnswerEnds(got)
             PROVE  /\ Rank(got, e) <= line
                    /\ got[e][1] \in Allowed(script[Rank(got, e)])
  BY DEF AnswersInOrder, Rank
<1>1. PICK la, ca : Path(script, iqueue, line, col, la, ca) /\ Thread(la[0], ca[0])
  BY DEF OInv
<1> DEFINE a == la[0]
           m == ca[0]
           c == IF pc = "callback" THEN a - 1 ELSE a
<1>2. a \in Nat /\ line \in Nat /\ a <= line
  <2>1. Len(iqueue) \in Nat /\ line \in Nat
    BY ScenarioType DEF IInv, Contents, TypeOK
  <2>2. 0 \in 0 .. Len(iqueue)
    BY <2>1
  <2> QED
    BY <2>1, <2>2, <1>1 DEF Path
<1>3. Thread(a, m)
  BY <1>1
<1> HIDE DEF a, m
<1>4. Matched(script, AllSent, c)
  BY <1>3 DEF Thread
<1>5. c <= line
  BY <1>2
<1> HIDE DEF c
<1>6. /\ got \in Seq(Marks) /\ oqueue \in Seq(Marks) /\ out \in Seq(Marks)
      /\ AllSent \in Seq(Marks)
  BY AllSentType DEF IInv, Contents
<1>7. oqueue \o out \in Seq(Marks)
  BY <1>6, ConcatProperties
<1>8. AllSent = got \o (oqueue \o out)
  BY <1>6, ConcatAssociative DEF AllSent
<1>9. /\ e \in AnswerEnds(got \o (oqueue \o out))
      /\ (got \o (oqueue \o out))[e] = got[e]
      /\ Rank(got \o (oqueue \o out), e) = Rank(got, e)
  BY <1>6, <1>7, EarlierAnswers
<1>10. /\ e \in AnswerEnds(AllSent) /\ AllSent[e] = got[e]
       /\ Rank(AllSent, e) = Rank(got, e)
  BY <1>8, <1>9
<1>11. got[e][1] \in Allowed(script[Rank(got, e)])
  BY <1>4, <1>10 DEF Matched
<1>12. Rank(got, e) <= c
  <2>1. IsFiniteSet(AnswerEnds(AllSent)) /\ Cardinality(AnswerEnds(AllSent)) = c
    BY <1>4, <1>6, EndsFinite DEF Matched
  <2>2. {i \in AnswerEnds(AllSent) : i <= e} \in SUBSET AnswerEnds(AllSent)
    OBVIOUS
  <2>3. Rank(AllSent, e) <= c
    BY <2>1, <2>2, FS_Subset DEF Rank
  <2> QED
    BY <1>10, <2>3
<1>13. Rank(got, e) \in Nat
  <2>1. IsFiniteSet(AnswerEnds(got))
    BY <1>6, EndsFinite
  <2>2. {i \in AnswerEnds(got) : i <= e} \in SUBSET AnswerEnds(got)
    OBVIOUS
  <2>3. IsFiniteSet({i \in AnswerEnds(got) : i <= e})
    BY <2>1, <2>2, FS_Subset
  <2> QED
    BY <2>3, FS_CardinalityType DEF Rank
<1>14. c \in Int
  BY <1>2 DEF c
<1> QED
  BY <1>2, <1>5, <1>11, <1>12, <1>13, <1>14

(* As long as no character is lost to a full input queue, and the lines    *)
(* fit into id[] and args[], the k-th answer the peer receives belongs to  *)
(* its k-th line and comes after it: at any pace of the peer, whatever     *)
(* other threads send, and for any size of the queues and the buffers.     *)
THEOREM AnswersComeInOrder ==
  ASSUME ProperLines
  PROVE  Spec /\ [][Lossless]_vars => []AnswersInOrder
<1>1. Init => OInv
  BY OrderStart
<1>2. IInv /\ OInv /\ [Next]_vars /\ [Lossless]_vars => OInv'
  BY NextOrder
<1>3. IInv /\ OInv => AnswersInOrder
  BY OrderShown
<1> QED
  BY <1>1, <1>2, <1>3, WiflyInvariant, PTL DEF Spec

(* A peer that waits for its answers, and whose characters are read one by *)
(* one, gets them in order: its characters never meet a full queue.        *)
THEOREM PromptPeerAnsweredInOrder ==
  ASSUME ProperLines
  PROVE  Spec /\ pace = "prompt" => [](pace = "prompt" /\ AnswersInOrder)
<1>1. pace = "prompt" /\ [Next]_vars => (pace = "prompt")'
  BY ScenarioFixed
<1>2. Spec /\ pace = "prompt" => [](pace = "prompt")
  BY <1>1, PTL DEF Spec
<1>3. ASSUME IInv, pace = "prompt", [Next]_vars PROVE [Lossless]_vars
  <2>1. CASE \E done, err \in BOOLEAN : Receive(err, done)
    <3>1. iqueue = <<>>
      BY <1>3, <2>1 DEF Receive
    <3>2. Len(iqueue) = 0
      BY <3>1
    <3>3. room \in Nat \ {0}
      BY <1>3, ScenarioType DEF IInv
    <3> QED
      BY <3>2, <3>3 DEF Lossless
  <2>2. CASE ~\E done, err \in BOOLEAN : Receive(err, done)
    BY <1>3, <2>2
       DEF Lossless, Next, Loop, Register, Poll, Event, Flags, Get, Callback,
           Answered, Overflow, ResetQueues, Release, Write, SendWait, SendFlags,
           Drain, ReadWait, ReadFlags, ReadGet, MsgSend, Break, Transmission,
           Transmit, OutputEmpty, TransmissionEnd, vars
  <2> QED
    BY <2>1, <2>2
<1>4. IInv /\ pace = "prompt" /\ [Next]_vars => [Lossless]_vars
  BY <1>3
<1>5. Spec /\ [](pace = "prompt") => [][Lossless]_vars
  BY <1>4, WiflyInvariant, PTL DEF Spec
<1> QED
  BY <1>2, <1>5, AnswersComeInOrder, PTL
=============================================================================
