------------------------------- MODULE Radio -------------------------------
(***************************************************************************)
(* Commands to the radio (wiflyReadCommand, wiflySendCommand and           *)
(* wiflyConnect of serv_wifly.c) and the memory pool their buffers come    *)
(* from (chmempools.c).                                                    *)
(*                                                                         *)
(* Several threads may be in a command: the wifly thread for a close line  *)
(* and any thread that calls wiflyConnect.  The wifly thread sends and     *)
(* reads itself; another thread's wiflySend and wiflyRead are messages to  *)
(* it, which its loop serves only while it is not in a line or a handler.  *)
(* What the radio answers is external: any number of lines, then a prompt, *)
(* an error or a second of silence.  An answer is "none", "expected"       *)
(* (exactly the text compared with) or "other".                            *)
(***************************************************************************)
EXTENDS Integers, Sequences, FiniteSets

CONSTANTS
  Threads,         \* the threads that send commands
  wifly_tp,        \* the wifly thread, one of them
  WIFLY_MEM_SIZE,  \* the number of buffers in char_mem
  Last,            \* the number of commands of wiflyConnect, 8 in the code
  Unbuffered,      \* the number of those before it has a buffer, 4 in the code
  Before,          \* the calls of wiflyReadCommand before its loop, 9 in the code
  After            \* and those after it, 3 in the code

(* The code has 10 buffers: room for three threads. *)
ASSUME PoolAssumption ==
  /\ IsFiniteSet(Threads) /\ wifly_tp \in Threads
  /\ Unbuffered \in Nat /\ Last \in Nat /\ 0 < Unbuffered /\ Unbuffered < Last
  /\ WIFLY_MEM_SIZE \in Nat /\ WIFLY_MEM_SIZE >= 3 * Cardinality(Threads)
  /\ Before \in Nat \ {0} /\ After \in Nat \ {0}

VARIABLES
  free,     \* wifly_pool: the list of free buffers
  held,     \* the buffers in the local variables of each thread's calls
  pc,       \* where each thread is
  nth,      \* which command of wiflyConnect, 0 for a single command
  answer,   \* what the thread has read into total
  calls,    \* the calls of wiflySend and wiflyRead before the thread goes on
  line      \* whether wifly_loop is in a line: i or j is not 0

vars == <<free, held, pc, nth, answer, calls, line>>
pool == <<free, held>>

Buffers == 1 .. WIFLY_MEM_SIZE
NULL == 0

(* chPoolLoadArray puts the buffers in front of the list one by one. *)
Init ==
  /\ free = [k \in Buffers |-> WIFLY_MEM_SIZE + 1 - k]
  /\ held = [t \in Threads |-> <<>>]
  /\ pc = [t \in Threads |-> "idle"]
  /\ nth = [t \in Threads |-> 0]
  /\ answer = [t \in Threads |-> "none"]
  /\ calls = [t \in Threads |-> 0]
  /\ line = "none"

Goto(t, label) == pc' = [pc EXCEPT ![t] = label]

(* chPoolAllocI; the callers do not look whether it is NULL. *)
Alloc(t) ==
  LET b == IF free = <<>> THEN NULL ELSE Head(free) IN
  /\ free' = IF free = <<>> THEN free ELSE Tail(free)
  /\ held' = [held EXCEPT ![t] = Append(@, b)]

(* chPoolFreeI of the buffer allocated last. *)
Free(t) ==
  /\ free' = <<held[t][Len(held[t])]>> \o free
  /\ held' = [held EXCEPT ![t] = SubSeq(@, 1, Len(@) - 1)]

(* wifly_loop runs: it is in no handler and reads for no other thread. *)
Looping == pc[wifly_tp] = "idle" /\ \A u \in Threads : pc[u] # "read"

(* wiflySend or wiflyRead of t is carried out: by t itself, or by the loop *)
(* when it finds the message between two lines.                            *)
Served(t) == t = wifly_tp \/ (Looping /\ line = "none")

(* A character that is not a newline, from the peer or the rest of an      *)
(* answer nobody has read, and later its newline.                          *)
LineBegins ==
  /\ Looping /\ line = "none"
  /\ line' = "begun"
  /\ UNCHANGED <<pool, pc, nth, answer, calls>>

LineEnds ==
  /\ Looping /\ line = "begun"
  /\ line' = "none"
  /\ UNCHANGED <<pool, pc, nth, answer, calls>>

(* A close line, or a thread calls wiflySendCommand or wiflyConnect. *)
Call(t, n) ==
  /\ pc[t] = "idle"
  /\ t = wifly_tp => n = 0 /\ Looping /\ line = "begun"
  /\ line' = IF t = wifly_tp THEN "none" ELSE line
  /\ nth' = [nth EXCEPT ![t] = n]
  /\ Goto(t, "command")
  /\ UNCHANGED <<pool, answer, calls>>

(* wiflySendCommand: the buffer for the answer. *)
SendCommand(t) ==
  /\ pc[t] = "command"
  /\ Alloc(t)
  /\ Goto(t, "enter")
  /\ UNCHANGED <<nth, answer, calls, line>>

(* wiflyReadCommand: a line buffer; then it enters command mode and sends  *)
(* the command.                                                            *)
EnterCommand(t) ==
  /\ pc[t] = "enter"
  /\ Alloc(t)
  /\ answer' = [answer EXCEPT ![t] = "none"]
  /\ calls' = [calls EXCEPT ![t] = Before]
  /\ Goto(t, "before")
  /\ UNCHANGED <<nth, line>>

(* One of the calls before or after the loop, whose result is ignored. *)
Exchange(t) ==
  /\ pc[t] \in {"before", "after"} /\ Served(t)
  /\ calls' = [calls EXCEPT ![t] = @ - 1]
  /\ Goto(t, IF calls[t] > 1 THEN pc[t]
             ELSE IF pc[t] = "before" THEN "lines" ELSE "cut")
  /\ UNCHANGED <<pool, nth, answer, line>>

(* wiflyRead of the loop begins. *)
ReadLine(t) ==
  /\ pc[t] = "lines" /\ Served(t)
  /\ Goto(t, "read")
  /\ UNCHANGED <<pool, nth, answer, calls, line>>

(* It returned S_OK and a line that is not a prompt: the loop goes on. *)
AnswerLine(t, a) ==
  /\ pc[t] = "read"
  /\ answer' = [answer EXCEPT ![t] = IF @ = "none" THEN a ELSE "other"]
  /\ Goto(t, "lines")
  /\ UNCHANGED <<pool, nth, calls, line>>

(* The prompt or no line: the loop ends and command mode is left. *)
AnswerEnds(t) ==
  /\ pc[t] = "read"
  /\ calls' = [calls EXCEPT ![t] = After]
  /\ Goto(t, "after")
  /\ UNCHANGED <<pool, nth, answer, line>>

(* Mutant: the line buffer is not given back. *)
LeaveCommandKeeps(t) ==
  /\ pc[t] = "cut"
  /\ held' = [held EXCEPT ![t] = SubSeq(@, 1, Len(@) - 1)]
  /\ Goto(t, "compare")
  /\ UNCHANGED <<free, nth, answer, calls, line>>

(* The last newline is cut off and the line buffer freed. *)
LeaveCommand(t) ==
  /\ pc[t] = "cut"
  /\ Free(t)
  /\ Goto(t, "compare")
  /\ UNCHANGED <<nth, answer, calls, line>>

(* Mutant: wiflyConnect sends a command again until it gets S_OK. *)
NextCommandRetries(n, ok) ==
  IF ~ ok THEN n ELSE IF n \in 1 .. Last - 1 THEN n + 1 ELSE 0

(* The command of wiflyConnect that follows command n, 0 if it returns. *)
NextCommand(n, ok) == IF ok /\ n \in 1 .. Last - 1 THEN n + 1 ELSE 0

(* wiflySendCommand compares, frees its buffer and returns; wiflyConnect   *)
(* goes on only after S_OK, and returns without its buffer before it has   *)
(* one.                                                                    *)
Compare(t) ==
  LET next == NextCommand(nth[t], answer[t] = "expected") IN
  /\ pc[t] = "compare"
  /\ Free(t)
  /\ Goto(t, IF next = 0
               THEN IF nth[t] > Unbuffered THEN "return" ELSE "idle"
             ELSE IF nth[t] = Unbuffered THEN "buffer" ELSE "command")
  /\ nth' = [nth EXCEPT ![t] = next]
  /\ answer' = [answer EXCEPT ![t] = "none"]
  /\ UNCHANGED <<calls, line>>

(* wiflyConnect: its own buffer, for the phrase and the ssid. *)
ConnectBuffer(t) ==
  /\ pc[t] = "buffer"
  /\ Alloc(t)
  /\ Goto(t, "command")
  /\ UNCHANGED <<nth, answer, calls, line>>

(* wiflyConnect returns once it has its buffer. *)
ConnectReturn(t) ==
  /\ pc[t] = "return"
  /\ Free(t)
  /\ Goto(t, "idle")
  /\ UNCHANGED <<nth, answer, calls, line>>

(* Some wiflyRead of a command's loop returned a line. *)
NextLine ==
  \E t \in Threads, a \in {"expected", "other"} : AnswerLine(t, a)

Step(t) ==
  \/ SendCommand(t) \/ EnterCommand(t) \/ Exchange(t) \/ ReadLine(t)
  \/ \E a \in {"expected", "other"} : AnswerLine(t, a)
  \/ AnswerEnds(t) \/ LeaveCommand(t) \/ Compare(t)
  \/ ConnectBuffer(t) \/ ConnectReturn(t)

Next ==
  \/ \E t \in Threads : Step(t) \/ \E n \in {0, 1} : Call(t, n)
  \/ LineBegins \/ LineEnds

Spec == Init /\ [][Next]_vars

(* A thread goes on when it can, and each wiflyRead ends, with a line or   *)
(* without one: a second of silence is enough.  wifly_loop looks for a     *)
(* message before the first character of each line, and the messages wait  *)
(* in a FIFO: one that could be served again and again is served, which is *)
(* strong fairness.  Nothing is assumed of the radio.                      *)
FairSpec == Spec /\ \A t \in Threads : SF_vars(Step(t))

----------------------------------------------------------------------------
Labels ==
  {"idle", "command", "enter", "before", "lines", "read", "after", "cut",
   "compare", "buffer", "return"}

TypeOK ==
  /\ free \in Seq(Buffers)
  /\ held \in [Threads -> Seq(Buffers \cup {NULL})]
  /\ pc \in [Threads -> Labels]
  /\ nth \in [Threads -> 0 .. Last]
  /\ answer \in [Threads -> {"none", "expected", "other"}]
  /\ calls \in [Threads -> Int]
  /\ line \in {"none", "begun"}

(* The places a buffer can be: in the pool's list, or in a local variable. *)
Places ==
  {<<"pool", k>> : k \in DOMAIN free}
    \cup UNION {{<<"held", t, k>> : k \in DOMAIN held[t]} : t \in Threads}
At(p) == IF p[1] = "pool" THEN free[p[2]] ELSE held[p[2]][p[3]]

(* Every buffer is in one place: none is lost on any of the ways out of    *)
(* wiflyConnect and wiflySendCommand, none is freed twice, no two threads  *)
(* share one.  And every place has a buffer: chPoolAlloc, whose result     *)
(* nobody checks, is never asked for more than there is, however many      *)
(* commands have been sent and however they ended.                         *)
BufferInOnePlace ==
  /\ TypeOK
  /\ \A p \in Places : At(p) # NULL
  /\ \A b \in Buffers : \E p \in Places : \A q \in Places : At(q) = b <=> q = p

(* Every call comes back, also from a silent radio, and also while the     *)
(* wifly thread has commands and lines of its own, unless the radio sends  *)
(* line after line for ever (the loop of wiflyReadCommand has no other     *)
(* end), or, for a thread other than the wifly thread, a line is begun and *)
(* never ended: its messages wait until i and j are 0 again.               *)
CallsReturn ==
  \/ \A t \in Threads :
       \/ pc[t] # "idle" ~> pc[t] = "idle"
       \/ t # wifly_tp /\ <>[](line = "begun")
  \/ []<><<NextLine>>_vars

(* "skip last newline" (serv_wifly.c): where total is cut there is a line. *)
CutInside ==
  \A t \in Threads : pc[t] = "cut" => answer[t] # "none"
=============================================================================
