------------------------------- MODULE Wifly -------------------------------
(***************************************************************************)
(* The wifly service (serv_wifly.c) on its serial driver: the thread that  *)
(* reads command lines and answers them, the message queue on which other  *)
(* threads ask it to send or to read a line, the USART interrupt, the      *)
(* driver's two queues and the event flags between interrupt and thread,   *)
(* and the peer at the other end of the line.                              *)
(*                                                                         *)
(* One action is one region under the system lock, or a piece of the       *)
(* thread that touches only its own variables.  A line is a sequence of    *)
(* characters: "*", "\r", "\n", " " and letters that stand for words.  An  *)
(* answer is MsgLen characters <<kind, k>>.  Not modelled here: the close  *)
(* command, and that chIQResetI and chOQResetI are called unlocked.        *)
(***************************************************************************)
EXTENDS Integers, Sequences, FiniteSets

CONSTANTS
  Main,       \* the main thread, which sends ****INIT*** at boot
  Senders,    \* further threads that call wiflySend and wiflyRead
  Scenarios,  \* what the peer and the other threads do: see below
  IdSize,     \* size of id[], 16 in the code
  ArgsSize,   \* size of args[], 1024 in the code
  ReadSize,   \* size of the buffer wiflyRead fills, 1024 in the code
  OutSize,    \* size of the output queue
  MsgLen,     \* characters in an answer
  None        \* no thread

(* The pace of a scenario:                                                 *)
(*   "prompt"  the peer waits for the answer to a line before it sends the *)
(*             next one, no character comes before the loop has read the   *)
(*             one before, and no other thread calls                       *)
(*   "polite"  the peer waits for the answers, other threads do not call   *)
(*   "any"     characters come at any time, other threads call wiflySend   *)
(*   "noisy"   also framing, noise and overrun errors, breaks, wiflyRead   *)
Paces == {"prompt", "polite", "any", "noisy"}

(* A buffer to read into has room for a character and its '\0', a line is  *)
(* never without its end.                                                  *)
ASSUME SizesAssumption ==
  /\ {IdSize, ArgsSize, OutSize, MsgLen} \subseteq Nat \ {0}
  /\ ReadSize \in Nat \ {0, 1}

ASSUME ScenariosAssumption ==
  /\ Scenarios \subseteq [pace : Paces, script : Seq(Seq(STRING) \ {<<>>}),
                          room : Nat \ {0}, quota : Nat]
  /\ Main \notin Senders /\ None \notin Senders \cup {Main}

VARIABLES
  pace, script,        \* the scenario: the pace and the lines of the peer,
  room, quota,         \* size of the input queue, bound on the Senders' calls
  line, col,           \* peer: lines sent, characters of the next
  got,                 \* peer: the characters received
  iqueue, oqueue,      \* the driver's queues
  txeie, tcie,         \* USART CR1: transmitter-empty and -complete interrupts
  busy,                \* a character went out, its completion is not reported
  registered,          \* wifly_el is registered with the driver
  el_flags,            \* the listener's flags
  pending,             \* the wifly thread's p_epending
  pc,                  \* where the wifly thread is
  id, j, read_id,      \* the command word, the argument length, which is read
  out, ret,            \* wifly_send: characters left to write, where it returns
  n,                   \* wifly_receive: characters stored
  msgqueue,            \* the wifly thread's message queue: <<sender, request>>
  serving,             \* the thread whose message is being served
  asleep,              \* the threads waiting in chMsgSend
  calls                \* the calls of Senders so far

scenario == <<pace, script, room, quota>>
peer   == <<scenario, line, col>>
uart   == <<txeie, tcie, busy, registered>>
events == <<el_flags, pending>>
reader == <<id, j, read_id>>
sender == <<out, ret>>
msgs   == <<msgqueue, serving, asleep, calls>>
vars   == <<peer, got, iqueue, oqueue, uart, events, pc, reader, sender, n, msgs>>

Message(kind) == [k \in 1 .. MsgLen |-> <<kind, k>>]

Ends == {"\r", "\n"}

----------------------------------------------------------------------------
(* wiflyInit: the driver runs, the thread has been created, and main has   *)
(* sent the ****INIT*** message, which the thread will find.               *)
Init ==
  /\ \E s \in Scenarios : /\ pace = s.pace /\ script = s.script
                          /\ room = s.room /\ quota = s.quota
  /\ line = 0 /\ col = 0 /\ got = <<>>
  /\ iqueue = <<>> /\ oqueue = <<>>
  /\ txeie = FALSE /\ tcie = FALSE /\ busy = FALSE /\ registered = FALSE
  /\ el_flags = {} /\ pending = FALSE
  /\ pc = "register"
  /\ id = <<>> /\ j = 0 /\ read_id = TRUE
  /\ out = <<>> /\ ret = "poll" /\ n = 0
  /\ msgqueue = <<<<Main, "send">>>> /\ serving = None /\ asleep = {Main}
  /\ calls = 0

(* chnAddFlagsI: chEvtBroadcastFlagsI and chEvtSignalI. *)
AddFlags(f) ==
  /\ el_flags' = IF registered THEN el_flags \cup f ELSE el_flags
  /\ pending' = (pending \/ registered)

(* chEvtRegisterMask at the start of wifly_loop. *)
Register ==
  /\ pc = "register"
  /\ registered' = TRUE
  /\ el_flags' = {}
  /\ pc' = "poll"
  /\ UNCHANGED <<peer, got, iqueue, oqueue, txeie, tcie, busy, pending,
                 reader, sender, n, msgs>>

(* The head of the loop: a message is served when no line is being read. *)
Poll ==
  /\ pc = "poll"
  /\ IF id = <<>> /\ j = 0 /\ msgqueue # <<>>
       THEN /\ serving' = Head(msgqueue)[1]
            /\ msgqueue' = Tail(msgqueue)
            /\ n' = 0
            /\ IF Head(msgqueue)[2] = "send"
                 THEN pc' = "write" /\ out' = Message("MSG") /\ ret' = "release"
                 ELSE pc' = "drain" /\ UNCHANGED sender
       ELSE pc' = "event" /\ UNCHANGED <<sender, n, msgqueue, serving>>
  /\ UNCHANGED <<peer, got, iqueue, oqueue, uart, events, reader, asleep,
                 calls>>

(* chEvtWaitOneTimeout(1, TIME_IMMEDIATE) *)
Event ==
  /\ pc = "event"
  /\ pc' = IF pending THEN "flags" ELSE "poll"
  /\ pending' = FALSE
  /\ UNCHANGED <<peer, got, iqueue, oqueue, uart, el_flags, reader, sender, n,
                 msgs>>

(* chEvtGetAndClearFlags *)
Flags ==
  /\ pc = "flags"
  /\ pc' = IF "input" \in el_flags THEN "get"
           ELSE IF "error" \in el_flags THEN "reset" ELSE "poll"
  /\ el_flags' = {}
  /\ UNCHANGED <<peer, got, iqueue, oqueue, uart, pending, reader, sender, n,
                 msgs>>

(* wifly_send begins: the message is to be written, then continue at r. *)
StartSend(kind, r) ==
  /\ pc' = "write"
  /\ out' = Message(kind)
  /\ ret' = r

(* Mutant: a buffer counts as full one character too late. *)
FullLate(word, args) == Len(word) > IdSize \/ args > ArgsSize

(* One of the two buffers is full. *)
Full(word, args) == Len(word) = IdSize \/ args = ArgsSize

(* Mutant: the end of an empty line is passed over. *)
EndOfLineNonEmpty(in) == in = "\n" /\ id # <<>>

(* The line feed ends a line. *)
EndOfLine(in) == in = "\n"

(* What the thread does with character in: it goes to the word or to the   *)
(* arguments; a full buffer is answered at once, an end of line leads to   *)
(* the answer to the line.                                                 *)
Store(in) ==
  LET word == IF read_id /\ in # " " /\ in \notin Ends THEN Append(id, in) ELSE id
      args == IF ~read_id /\ in \notin Ends THEN j + 1 ELSE j
      state == Len(word) > 2 /\ word[1] = "*" /\ word[Len(word)] = "*"
  IN /\ id' = word
     /\ j' = args
     /\ read_id' = (read_id /\ in # " ")
     /\ IF Full(word, args)
          THEN StartSend("OVERFLOW", "overflow")
        ELSE IF ~EndOfLine(in)
          THEN pc' = "poll" /\ UNCHANGED sender
        ELSE IF state
          THEN StartSend(IF word = <<"*", "h", "*">> THEN "HELLO" ELSE "ERROR",
                         "next")
        ELSE pc' = "callback" /\ UNCHANGED sender

(* sdGetTimeout(TIME_IMMEDIATE) and the line reader.  On an empty queue    *)
(* the result is Q_TIMEOUT, which the reader stores like a character.      *)
Get ==
  /\ pc = "get"
  /\ Store(IF iqueue = <<>> THEN "Q_TIMEOUT" ELSE Head(iqueue))
  /\ iqueue' = IF iqueue = <<>> THEN <<>> ELSE Tail(iqueue)
  /\ UNCHANGED <<peer, got, oqueue, uart, events, n, msgs>>

(* callback: "v" stands for the commands that send their own answer, "f"   *)
(* for the ones answered by M_OK or M_ERROR, as arguments and motors are.  *)
Callback ==
  /\ pc = "callback"
  /\ \/ id = <<"v">> /\ StartSend("VALUE", "next")
     \/ id = <<"f">> /\ StartSend("OK", "next")
     \/ id # <<"v">> /\ StartSend("ERROR", "next")
  /\ UNCHANGED <<peer, got, iqueue, oqueue, uart, events, reader, n, msgs>>

(* Mutant: read_id is not set back. *)
NextLineKeepsArgs ==
  /\ id' = <<>> /\ j' = 0 /\ UNCHANGED read_id
  /\ pc' = "poll"

(* i = 0, j = 0, read_id = TRUE *)
NextLine ==
  /\ id' = <<>> /\ j' = 0 /\ read_id' = TRUE
  /\ pc' = "poll"

Answered ==
  /\ pc = "next"
  /\ NextLine
  /\ UNCHANGED <<peer, got, iqueue, oqueue, uart, events, sender, n, msgs>>

(* After *OVERFLOW*: chIQResetI *)
Overflow ==
  /\ pc = "overflow"
  /\ iqueue' = <<>>
  /\ NextLine
  /\ UNCHANGED <<peer, got, oqueue, uart, events, sender, n, msgs>>

(* The error branch of the loop: both queues are reset, the line that was  *)
(* being read is kept.                                                     *)
ResetQueues ==
  /\ pc = "reset"
  /\ iqueue' = <<>> /\ oqueue' = <<>>
  /\ pc' = "poll"
  /\ UNCHANGED <<peer, got, uart, events, reader, sender, n, msgs>>

(* Mutant: the sender is not released. *)
ReleaseNobody ==
  /\ pc = "release"
  /\ serving' = None
  /\ pc' = "event"
  /\ UNCHANGED <<peer, got, iqueue, oqueue, uart, events, reader, sender, n,
                 msgqueue, asleep, calls>>

(* chMsgRelease *)
Release ==
  /\ pc = "release"
  /\ asleep' = asleep \ {serving}
  /\ serving' = None
  /\ pc' = "event"
  /\ UNCHANGED <<peer, got, iqueue, oqueue, uart, events, reader, sender, n,
                 msgqueue, calls>>

----------------------------------------------------------------------------
(* Mutant: TIME_IMMEDIATE, what does not fit is dropped. *)
WriteImmediate ==
  /\ pc = "write"
  /\ oqueue' = IF Len(oqueue) < OutSize THEN Append(oqueue, Head(out)) ELSE oqueue
  /\ txeie' = TRUE
  /\ out' = Tail(out)
  /\ pc' = IF Len(out) = 1 THEN "sendwait" ELSE "write"
  /\ UNCHANGED <<peer, got, iqueue, tcie, busy, registered, events, reader,
                 ret, n, msgs>>

(* wifly_send: chOQWriteTimeout puts one character at a time and sleeps    *)
(* while the queue is full.                                                *)
Write ==
  /\ pc = "write"
  /\ Len(oqueue) < OutSize
  /\ oqueue' = Append(oqueue, Head(out))
  /\ txeie' = TRUE
  /\ out' = Tail(out)
  /\ pc' = IF Len(out) = 1 THEN "sendwait" ELSE "write"
  /\ UNCHANGED <<peer, got, iqueue, tcie, busy, registered, events, reader,
                 ret, n, msgs>>

(* wifly_send: chEvtWaitOne, which sleeps until there is an event. *)
SendWait ==
  /\ pc = "sendwait"
  /\ pending
  /\ pending' = FALSE
  /\ pc' = "sendflags"
  /\ UNCHANGED <<peer, got, iqueue, oqueue, uart, el_flags, reader, sender, n,
                 msgs>>

(* Mutant: only CHN_OUTPUT_EMPTY is cleared. *)
SendFlagsKeepsRest ==
  /\ pc = "sendflags"
  /\ pc' = IF "empty" \in el_flags THEN ret ELSE "sendwait"
  /\ el_flags' = el_flags \ {"empty"}
  /\ UNCHANGED <<peer, got, iqueue, oqueue, uart, pending, reader, sender, n,
                 msgs>>

(* wifly_send: chEvtGetAndClearFlags; every flag but CHN_OUTPUT_EMPTY is   *)
(* dropped.                                                                *)
SendFlags ==
  /\ pc = "sendflags"
  /\ pc' = IF "empty" \in el_flags THEN ret ELSE "sendwait"
  /\ el_flags' = {}
  /\ UNCHANGED <<peer, got, iqueue, oqueue, uart, pending, reader, sender, n,
                 msgs>>

----------------------------------------------------------------------------
(* wifly_receive takes a character off the queue and stops at a full       *)
(* buffer, when it resets the queue, or at the end of the line.            *)
ReceiveChar(more) ==
  LET in == Head(iqueue)
      stored == IF in \in Ends THEN n ELSE n + 1
  IN /\ n' = stored
     /\ iqueue' = IF stored = ReadSize - 1 THEN <<>> ELSE Tail(iqueue)
     /\ pc' = IF stored = ReadSize - 1 \/ in = "\n" THEN "release" ELSE more

(* wifly_receive: "receive all that is already on the queue" *)
Drain ==
  /\ pc = "drain"
  /\ IF iqueue = <<>> THEN pc' = "readwait" /\ UNCHANGED <<n, iqueue>>
                      ELSE ReceiveChar("drain")
  /\ UNCHANGED <<peer, got, oqueue, uart, events, reader, sender, msgs>>

(* wifly_receive: chEvtWaitOneTimeout, an event or a second of silence. *)
ReadWait ==
  /\ pc = "readwait"
  /\ pc' = IF pending THEN "readflags" ELSE "release"
  /\ pending' = FALSE
  /\ UNCHANGED <<peer, got, iqueue, oqueue, uart, el_flags, reader, sender, n,
                 msgs>>

ReadFlags ==
  /\ pc = "readflags"
  /\ pc' = IF "input" \in el_flags THEN "readget"
           ELSE IF "error" \in el_flags THEN "release" ELSE "readwait"
  /\ el_flags' = {}
  /\ UNCHANGED <<peer, got, iqueue, oqueue, uart, pending, reader, sender, n,
                 msgs>>

ReadGet ==
  /\ pc = "readget"
  /\ IF iqueue = <<>> THEN pc' = "release" /\ UNCHANGED <<n, iqueue>>
                      ELSE ReceiveChar("readwait")
  /\ UNCHANGED <<peer, got, oqueue, uart, events, reader, sender, msgs>>

----------------------------------------------------------------------------
(* wiflySend and wiflyRead from another thread: chMsgSend. *)
MsgSend(s, request) ==
  /\ request = IF pace = "noisy" THEN "read" ELSE "send"
  /\ s \notin asleep /\ calls < quota
  /\ calls' = calls + 1
  /\ msgqueue' = Append(msgqueue, <<s, request>>)
  /\ asleep' = asleep \cup {s}
  /\ UNCHANGED <<peer, got, iqueue, oqueue, uart, events, pc, reader, sender, n,
                 serving>>

(* Where the answers in s end; comments, which other threads send, are not *)
(* answers.                                                                *)
AnswerEnds(s) == {k \in 1 .. Len(s) : s[k][2] = MsgLen /\ s[k][1] # "MSG"}

(* The number of answers the peer has received in full. *)
Answers == Cardinality(AnswerEnds(got))

(* serve_interrupt may also find that the transmission is complete; it     *)
(* then reports that last, and writes CR1 from the value it read first.    *)
Complete(done) == IF done THEN {"end"} ELSE {}

EndOfInterrupt(done) ==
  /\ done => busy
  /\ busy' = (busy /\ ~done)
  /\ tcie' = (tcie /\ ~done)
  /\ UNCHANGED <<txeie, registered>>

(* serve_interrupt, a character from the peer, perhaps with an error:      *)
(* set_error and sdIncomingDataI, which signals only the first character   *)
(* in an empty queue and an error when the queue is full.                  *)
Receive(err, done) ==
  LET full == Len(iqueue) = room
      flags == (IF iqueue = <<>> THEN {"input"} ELSE {})
                 \cup (IF full \/ err THEN {"error"} ELSE {})
                 \cup Complete(done)
  IN /\ line < Len(script)
     /\ err => pace = "noisy"
     /\ pace \in {"prompt", "polite"} /\ col = 0 => Answers >= line
     /\ pace = "prompt" => pc = "poll" /\ iqueue = <<>> /\ msgqueue = <<>>
     /\ IF flags # {} THEN AddFlags(flags) ELSE UNCHANGED events
     /\ iqueue' = IF full THEN iqueue
                  ELSE Append(iqueue, script[line + 1][col + 1])
     /\ IF col + 1 = Len(script[line + 1])
          THEN line' = line + 1 /\ col' = 0
          ELSE line' = line /\ col' = col + 1
     /\ EndOfInterrupt(done)
     /\ UNCHANGED <<scenario, got, oqueue, pc, reader, sender, n, msgs>>

(* serve_interrupt, a LIN break. *)
Break(done) ==
  /\ pace = "noisy"
  /\ AddFlags({"error"} \cup Complete(done))
  /\ EndOfInterrupt(done)
  /\ UNCHANGED <<peer, got, iqueue, oqueue, pc, reader, sender, n, msgs>>

(* serve_interrupt, the transmitter takes a character. *)
Transmit(done) ==
  /\ txeie /\ oqueue # <<>>
  /\ done => busy
  /\ got' = Append(got, Head(oqueue))
  /\ oqueue' = Tail(oqueue)
  /\ IF done THEN AddFlags({"end"}) ELSE UNCHANGED events
  /\ busy' = TRUE
  /\ tcie' = (tcie /\ ~done)
  /\ UNCHANGED <<peer, iqueue, txeie, registered, pc, reader, sender, n, msgs>>

(* Mutant: the empty output queue is not reported. *)
OutputEmptySilent(done) ==
  /\ txeie /\ oqueue = <<>>
  /\ done => busy
  /\ IF done THEN AddFlags({"end"}) ELSE UNCHANGED events
  /\ txeie' = done /\ tcie' = ~done
  /\ busy' = (busy /\ ~done)
  /\ UNCHANGED <<peer, got, iqueue, oqueue, registered, pc, reader, sender, n,
                 msgs>>

(* serve_interrupt, the transmitter finds the queue empty, reports that    *)
(* and switches its interrupt off; if the transmission is also complete    *)
(* the second write to CR1 switches it on again.                           *)
OutputEmpty(done) ==
  /\ txeie /\ oqueue = <<>>
  /\ done => busy
  /\ AddFlags({"empty"} \cup Complete(done))
  /\ txeie' = done /\ tcie' = ~done
  /\ busy' = (busy /\ ~done)
  /\ UNCHANGED <<peer, got, iqueue, oqueue, registered, pc, reader, sender, n,
                 msgs>>

(* serve_interrupt, the last character has left. *)
TransmissionEnd ==
  /\ tcie /\ busy
  /\ AddFlags({"end"})
  /\ EndOfInterrupt(TRUE)
  /\ UNCHANGED <<peer, got, iqueue, oqueue, pc, reader, sender, n, msgs>>

----------------------------------------------------------------------------
Loop ==
  \/ Register \/ Poll \/ Event \/ Flags \/ Get \/ Callback \/ Answered
  \/ Overflow \/ ResetQueues \/ Release
  \/ Write \/ SendWait \/ SendFlags
  \/ Drain \/ ReadWait \/ ReadFlags \/ ReadGet

Transmission(done) == Transmit(done) \/ OutputEmpty(done)

Next ==
  \/ Loop
  \/ \E s \in Senders, request \in {"send", "read"} : MsgSend(s, request)
  \/ \E done \in BOOLEAN :
       \/ \E err \in BOOLEAN : Receive(err, done)
       \/ Break(done)
       \/ Transmission(done)
  \/ TransmissionEnd

Spec == Init /\ [][Next]_vars

(* The wifly thread runs, the transmitter transmits, the peer goes on      *)
(* sending what it is ready to send.  Nothing is assumed of the senders    *)
(* and of errors.                                                          *)
FairSpec ==
  /\ Spec
  /\ WF_vars(Loop)
  /\ WF_vars(\E done \in BOOLEAN : Transmission(done))
  /\ SF_vars(Receive(FALSE, FALSE))

----------------------------------------------------------------------------
TypeOK ==
  /\ [pace |-> pace, script |-> script, room |-> room, quota |-> quota]
       \in Scenarios
  /\ line \in 0 .. Len(script) /\ col \in Nat
  /\ Len(iqueue) <= room /\ Len(oqueue) <= OutSize
  /\ {txeie, tcie, busy, registered, pending, read_id} \subseteq BOOLEAN
  /\ el_flags \subseteq {"input", "empty", "end", "error"}
  /\ pc \in {"register", "poll", "event", "flags", "get", "callback", "next",
             "overflow", "reset", "release", "write", "sendwait", "sendflags",
             "drain", "readwait", "readflags", "readget"}
  /\ Len(id) \in 0 .. IdSize /\ j \in 0 .. ArgsSize /\ n \in 0 .. ReadSize
  /\ Len(out) \in 0 .. MsgLen
  /\ ret \in {"poll", "next", "overflow", "release"}
  /\ serving \in asleep \cup {None} /\ asleep \subseteq Senders \cup {Main}
  /\ calls \in 0 .. quota

(* The stores id[i], args[j] and msg[i] of serv_wifly.c, the terminators   *)
(* included, stay inside their arrays: when a character can be stored      *)
(* there is room for it and for the '\0' after it.  No queue, buffer or    *)
(* counter leaves its type.                                                *)
IndexBounds ==
  /\ TypeOK
  /\ pc \in {"poll", "event", "flags", "get", "callback", "reset"}
       => Len(id) < IdSize /\ j < ArgsSize
  /\ n < ReadSize

(* The two steps of an event, taking p_epending and then taking the flags, *)
(* lose no wake-up: flags that are set are announced, or are about to be   *)
(* taken.                                                                  *)
NoLostWakeup ==
  el_flags # {} => pending \/ pc \in {"flags", "sendflags", "readflags"}

(* wifly_send cannot wait for ever, although the events it takes may be    *)
(* stale: while it waits, CHN_OUTPUT_EMPTY is there or still to come.      *)
SendCompletes ==
  pc \in {"sendwait", "sendflags"} => txeie \/ "empty" \in el_flags

(* A sequence of complete messages: one ends with its last character, and  *)
(* only then does the next begin.                                          *)
Whole(s) ==
  \A k \in 1 .. Len(s) :
    /\ k = 1 => s[k][2] = 1
    /\ k = Len(s) => s[k][2] = MsgLen
    /\ k < Len(s) => s[k + 1] = IF s[k][2] = MsgLen THEN <<s[k + 1][1], 1>>
                                ELSE <<s[k][1], s[k][2] + 1>>

(* Without line errors the peer receives whole messages, one after the     *)
(* other, whoever sends them: what has been received, what is queued and   *)
(* what is being written are complete messages.                            *)
WholeMessages == pace # "noisy" => Whole(got \o oqueue \o out)

(* The command word of a line: what comes before the first blank, without  *)
(* the line ends; and of its first k characters.                           *)
WordOf(l) ==
  LET w[k \in 0 .. Len(l)] ==
        IF k = 0 THEN <<>>
        ELSE IF l[k] \in Ends \/ \E b \in 1 .. k : l[b] = " " THEN w[k - 1]
        ELSE Append(w[k - 1], l[k])
  IN w

(* The answers a line may get. *)
Allowed(l) ==
  LET w == WordOf(l)[Len(l)] IN
  IF w = <<"*", "h", "*">> THEN {"HELLO"}
  ELSE IF w = <<"v">> THEN {"VALUE"}
  ELSE IF w = <<"f">> THEN {"OK", "ERROR"}
  ELSE {"ERROR"}

(* However the characters of the lines arrive, and whatever is sent in     *)
(* between, the k-th answer belongs to the k-th line, and comes after the  *)
(* line.                                                                   *)
AnswersInOrder ==
  pace # "noisy" =>
    \A e \in AnswerEnds(got) :
      LET k == Cardinality({i \in AnswerEnds(got) : i <= e})
      IN k <= line /\ got[e][1] \in Allowed(script[k])

(* "always wait for response" (gui.py): every line gets its answer. *)
EveryLineAnswered ==
  pace \in {"prompt", "polite"} => <>(Answers >= Len(script))

(* Every thread that calls wiflySend returns, when the peer is silent or   *)
(* prompt: a line that stops halfway would keep the callers waiting.       *)
CallersReturn ==
  \A s \in Senders \cup {Main} :
    s \in asleep /\ (pace = "prompt" \/ script = <<>>) ~> s \notin asleep
=============================================================================
