----------------------------- MODULE GuiProofs -----------------------------
(***************************************************************************)
(* Proofs about Gui, for any number of lines and of comments.              *)
(*                                                                         *)
(* The argument for SessionInStep: in a connection opened when no *HELLO*  *)
(* was owed, the first *HELLO* that comes answers the line of this         *)
(* connection.  The robot answers in order, so by then nothing older is    *)
(* left, and from there on at most one line is open, the last one.  Once   *)
(* the other side has ended the connection the robot may still owe lines,  *)
(* but its answers no longer come here.                                    *)
(***************************************************************************)
EXTENDS Gui, SequenceTheorems, TLAPS

Kinds == {"hello"} \cup Commands
Words == {"***", "*HELLO*", "value", "*OK*", "*ERROR*"}

OnlyComments(s) == \A k \in 1 .. Len(s) : s[k] = Comment

(* The connection waits for its *HELLO*: only the last line can bring it,  *)
(* and behind it there is nothing but comments.                            *)
Greeting ==
  /\ \A k \in 1 .. Len(lines) : lines[k][2] = "hello" => k = Len(lines)
  /\ \A k \in 1 .. Len(down) : down[k][2] = "*HELLO*" =>
       lines = <<>> /\ \A m \in k + 1 .. Len(down) : down[m] = Comment

(* The program waits for the answer to its line: either the robot still    *)
(* has the line, or its answer is the only one under way.                  *)
Waiting ==
  /\ ~broken =>
       /\ Len(lines) <= 1 /\ \A k \in 1 .. Len(lines) : lines[k][1] = sent
       /\ lines # <<>> => OnlyComments(down)
  /\ \A k \in 1 .. Len(down) : down[k] # Comment =>
       down[k][1] = sent /\ \A m \in 1 .. Len(down) : m # k => down[m] = Comment

Session ==
  /\ phase = "hello" => Greeting
  /\ phase \in {"version", "wait"} => Waiting
  /\ phase = "idle" /\ open => OnlyComments(down) /\ (~broken => lines = <<>>)

Results == result # <<>> => phase = "idle" /\ open

(* Sends from behind an enabled Connect button go into a connection that   *)
(* is no longer alive.                                                     *)
Buttons ==
  /\ phase = "wait" => buttons = "online" \/ broken
  /\ phase = "close" => broken

IInv ==
  /\ TypeOK /\ Buttons /\ OfflineIsClosed /\ Results
  /\ clean => Session
  /\ SessionInStep

----------------------------------------------------------------------------
(* The lines and answers numbered up to n. *)
LineSeq(n)   == Seq((1 .. n) \X Kinds)
AnswerSeq(n) == Seq((0 .. n) \X Words)

(* The type invariant, part by part. *)
Typed ==
  /\ open \in BOOLEAN /\ broken \in BOOLEAN /\ dropped \in BOOLEAN
  /\ residue \in BOOLEAN /\ clean \in BOOLEAN
  /\ phase \in {"idle", "hello", "version", "wait", "close"}
  /\ buttons \in {"online", "offline"}
  /\ sent \in 0 .. MaxLines
  /\ lines \in LineSeq(sent)
  /\ down \in AnswerSeq(sent) /\ result \in AnswerSeq(sent)
  /\ phase # "idle" => open
  /\ broken => open

LEMMA Types == (TypeOK <=> Typed) /\ (TypeOK' <=> Typed')
<1>1. TypeOK <=> Typed
  BY DEF TypeOK, Typed, LineSeq, AnswerSeq, Kinds, Words
<1>2. TypeOK' <=> Typed'
  BY DEF TypeOK, Typed, LineSeq, AnswerSeq, Kinds, Words
<1> QED
  BY <1>1, <1>2

(* Numbers that were right stay right. *)
LEMMA Grow ==
  ASSUME NEW n \in Nat
  PROVE  /\ LineSeq(n) \subseteq LineSeq(n + 1)
         /\ AnswerSeq(n) \subseteq AnswerSeq(n + 1)
<1>1. /\ (1 .. n) \X Kinds \subseteq (1 .. n + 1) \X Kinds
      /\ (0 .. n) \X Words \subseteq (0 .. n + 1) \X Words
  OBVIOUS
<1> QED
  BY <1>1, SeqMonotonic DEF LineSeq, AnswerSeq

(* What is left of a queue when its first k elements are gone. *)
LEMMA Suffix ==
  ASSUME NEW S, NEW s \in Seq(S), NEW k \in 0 .. Len(s)
  PROVE  /\ SubSeq(s, k + 1, Len(s)) \in Seq(S)
         /\ Len(SubSeq(s, k + 1, Len(s))) = Len(s) - k
         /\ \A i \in 1 .. Len(s) - k : SubSeq(s, k + 1, Len(s))[i] = s[k + i]
<1>1. Len(s) \in Nat /\ k \in Int
  OBVIOUS
<1>2. \A i \in k + 1 .. Len(s) : s[i] \in S
  BY <1>1
<1> QED
  BY <1>1, <1>2, SubSeqProperties

(* The first k elements. *)
LEMMA Prefix ==
  ASSUME NEW S, NEW s \in Seq(S), NEW k \in 1 .. Len(s)
  PROVE  /\ SubSeq(s, 1, k) \in Seq(S)
         /\ Len(SubSeq(s, 1, k)) = k
         /\ DOMAIN SubSeq(s, 1, k) = 1 .. k
         /\ SubSeq(s, 1, k) # <<>>
         /\ \A i \in 1 .. k : SubSeq(s, 1, k)[i] = s[i]
<1>1. Len(s) \in Nat /\ k \in Int
  OBVIOUS
<1>2. \A i \in 1 .. k : s[i] \in S
  BY <1>1
<1>3. /\ SubSeq(s, 1, k) \in Seq(S) /\ Len(SubSeq(s, 1, k)) = k
      /\ \A i \in 1 .. k : SubSeq(s, 1, k)[i] = s[i]
  BY <1>1, <1>2, SubSeqProperties
<1> QED
  BY <1>3, EmptySeq

(* The program has just been started. *)
LEMMA InitInv == Init => IInv
<1> SUFFICES ASSUME Init PROVE IInv
  OBVIOUS
<1>1. <<>> \in LineSeq(0) /\ <<>> \in AnswerSeq(0)
  BY EmptySeq DEF LineSeq, AnswerSeq
<1>2. sent \in 0 .. MaxLines
  BY GuiAssumption DEF Init
<1>3. TypeOK
  BY <1>1, <1>2, Types, Zenon DEF Init, Typed
<1>4. Buttons /\ OfflineIsClosed /\ Results /\ Session /\ SessionInStep
  BY <1>3 DEF Init, Buttons, OfflineIsClosed, Results, Session, SessionInStep,
              AnswersOwnLine
<1> QED
  BY <1>3, <1>4 DEF IInv

(* Where the program is not waiting and has no result, and either nothing  *)
(* is known of the session or nothing is owed, a closed connection keeps   *)
(* the invariant.                                                          *)
LEMMA ClosedInv ==
  ASSUME TypeOK', phase' = "idle", ~open', result' = <<>>
  PROVE  IInv'
BY DEF IInv, Buttons, OfflineIsClosed, Results, Session, SessionInStep,
       AnswersOwnLine

(* The first line of a new connection. *)
LEMMA ConnectKeeps == ASSUME IInv, Connect PROVE IInv'
<1>0. ~broken
  BY Types DEF IInv, Typed, Connect
<1>1. /\ sent \in Nat /\ lines \in LineSeq(sent) /\ TypeOK
      /\ Len(lines) \in Nat /\ DOMAIN lines = 1 .. Len(lines)
  BY Types DEF IInv, Typed, LineSeq
<1>2. /\ phase' = "hello" /\ open' = TRUE /\ down' = <<>> /\ result' = <<>>
      /\ sent' = sent + 1 /\ lines' = Append(lines, <<sent + 1, "hello">>)
      /\ sent + 1 < MaxLines /\ buttons' = buttons
      /\ UNCHANGED <<broken, dropped, residue>>
  BY <1>0 DEF Connect, Line
<1>3. clean' \in BOOLEAN
      /\ (clean' => \A k \in 1 .. Len(lines) : lines[k][2] # "hello")
  BY <1>1 DEF Connect
<1>4. <<sent + 1, "hello">> \in (1 .. sent + 1) \X Kinds
  BY <1>1 DEF Kinds
<1>5. /\ lines' \in LineSeq(sent') /\ Len(lines') = Len(lines) + 1
      /\ \A k \in 1 .. Len(lines) : lines'[k] = lines[k]
  BY <1>1, <1>2, <1>4, Grow, AppendProperties DEF LineSeq
<1>6. <<>> \in AnswerSeq(sent') /\ Len(<<>>) = 0
  BY EmptySeq DEF AnswerSeq
<1>10. sent' \in 0 .. MaxLines
  BY <1>1, <1>2, GuiAssumption
<1>7. TypeOK'
  BY <1>0, <1>1, <1>2, <1>3, <1>5, <1>6, <1>10, Types, Zenon DEF Typed
<1>8. clean' => Greeting'
  BY <1>1, <1>2, <1>3, <1>5, <1>6 DEF Greeting
<1>9. Buttons' /\ OfflineIsClosed' /\ Results' /\ (clean' => Session')
      /\ SessionInStep'
  BY <1>2, <1>7, <1>8
     DEF Buttons, OfflineIsClosed, Results, Session, SessionInStep,
         AnswersOwnLine
<1> QED
  BY <1>7, <1>9 DEF IInv

(* While the program waits there is a connection and no result. *)
LEMMA WaitingFacts ==
  ASSUME IInv
  PROVE  /\ TypeOK /\ Typed /\ sent \in Nat
         /\ lines \in LineSeq(sent) /\ Len(lines) \in Nat
         /\ down \in AnswerSeq(sent) /\ Len(down) \in Nat
         /\ DOMAIN down = 1 .. Len(down) /\ DOMAIN lines = 1 .. Len(lines)
         /\ phase # "idle" => open /\ result = <<>>
         /\ <<>> \in AnswerSeq(sent)
<1>1. TypeOK /\ Typed
  BY Types DEF IInv
<1>2. sent \in Nat /\ lines \in LineSeq(sent) /\ down \in AnswerSeq(sent)
      /\ (phase # "idle" => open)
  BY <1>1 DEF Typed
<1>3. phase # "idle" => result = <<>>
  BY DEF IInv, Results
<1>4. /\ Len(lines) \in Nat /\ DOMAIN lines = 1 .. Len(lines)
      /\ Len(down) \in Nat /\ DOMAIN down = 1 .. Len(down)
  BY <1>2 DEF LineSeq, AnswerSeq
<1>5. <<>> \in AnswerSeq(sent)
  BY EmptySeq DEF AnswerSeq
<1> QED
  BY <1>1, <1>2, <1>3, <1>4, <1>5

(* A step after which there is no connection and no result. *)
LEMMA GoneKeeps ==
  ASSUME IInv, phase' = "idle", open' = FALSE, broken' = FALSE, down' = <<>>,
         dropped' \in BOOLEAN, result' = <<>>, buttons' \in {"online", "offline"},
         UNCHANGED <<sent, lines, residue, clean>>
  PROVE  IInv'
<1>1. UNCHANGED <<sent, lines, residue, clean>>
  OBVIOUS
<1>2. TypeOK'
  BY <1>1, WaitingFacts, Types, Zenon DEF Typed
<1> QED
  BY <1>2, ClosedInv

(* A step that closes the connection and leaves no result. *)
LEMMA CloseKeeps ==
  ASSUME IInv, Close, result' = <<>>, buttons' \in {"online", "offline"},
         UNCHANGED <<sent, lines, residue, clean>>
  PROVE  IInv'
<1>1. /\ phase' = "idle" /\ open' = FALSE /\ broken' = FALSE /\ down' = <<>>
      /\ dropped' = dropped
  BY DEF Close
<1>2. dropped' \in BOOLEAN
  BY <1>1, WaitingFacts DEF Typed
<1> QED
  BY <1>1, <1>2, GoneKeeps

LEMMA HelloTimeoutKeeps == ASSUME IInv, HelloTimeout PROVE IInv'
<1>1. /\ Close /\ phase = "hello" /\ buttons' = buttons /\ result' = result
      /\ UNCHANGED <<sent, lines, residue, clean>>
  BY DEF HelloTimeout
<1>2. result' = <<>> /\ buttons' \in {"online", "offline"}
  BY <1>1, WaitingFacts DEF Typed
<1> QED
  BY <1>1, <1>2, CloseKeeps

LEMMA SendTimeoutKeeps == ASSUME IInv, SendTimeout PROVE IInv'
<1>1. /\ Close /\ result' = <<>> /\ buttons' \in {"online", "offline"}
      /\ UNCHANGED <<sent, lines, residue, clean>>
  BY DEF SendTimeout, AfterSend
<1> QED
  BY <1>1, CloseKeeps

LEMMA DisconnectKeeps == ASSUME IInv, Disconnect PROVE IInv'
<1>1. /\ Close /\ result' = <<>> /\ buttons' \in {"online", "offline"}
      /\ UNCHANGED <<sent, lines, residue, clean>>
  BY DEF Disconnect
<1> QED
  BY <1>1, CloseKeeps

(* A new line, where the robot owes nothing if the session is clean and    *)
(* the connection alive.                                                   *)
LEMMA LineWaits ==
  ASSUME IInv, NEW kind \in Commands, NEW wait \in {"version", "wait", "close"},
         Line(kind, wait), open, result' = <<>>,
         wait = "wait" => buttons = "online" \/ broken,
         wait = "close" => broken,
         UNCHANGED <<link, buttons, residue, clean>>,
         down' \in AnswerSeq(sent),
         clean => OnlyComments(down') /\ (~broken => lines = <<>>)
  PROVE  IInv'
<1>1. /\ sent < MaxLines /\ sent' = sent + 1 /\ phase' = wait
      /\ lines' = IF broken THEN lines ELSE Append(lines, <<sent + 1, kind>>)
      /\ UNCHANGED <<open, broken, dropped>>
  BY DEF Line, link
<1>2. <<sent + 1, kind>> \in (1 .. sent + 1) \X Kinds
  BY WaitingFacts DEF Kinds
<1>3. ASSUME ~broken
      PROVE  /\ lines' \in LineSeq(sent') /\ Len(lines') = Len(lines) + 1
             /\ lines'[Len(lines) + 1] = <<sent + 1, kind>>
  BY <1>1, <1>2, <1>3, Grow, WaitingFacts, AppendProperties DEF LineSeq
<1>4. /\ down' \in AnswerSeq(sent') /\ result' \in AnswerSeq(sent')
      /\ broken => lines' \in LineSeq(sent')
  BY <1>1, Grow, WaitingFacts
<1>5. sent' \in 0 .. MaxLines
  BY <1>1, WaitingFacts, GuiAssumption
<1>6. TypeOK'
  BY <1>1, <1>3, <1>4, <1>5, WaitingFacts, Types, Zenon DEF Typed
<1>7. ASSUME clean PROVE Waiting'
  <2>1. ~broken => Len(lines') = 1 /\ lines'[1] = <<sent', kind>>
    BY <1>1, <1>3, <1>7, EmptySeq
  <2>2. OnlyComments(down')
    BY <1>7
  <2> QED
    BY <1>1, <2>1, <2>2 DEF Waiting, OnlyComments
<1>8. Buttons' /\ OfflineIsClosed' /\ Results' /\ (clean' => Session')
      /\ SessionInStep'
  BY <1>1, <1>6, <1>7
     DEF Buttons, OfflineIsClosed, Results, Session, SessionInStep,
         AnswersOwnLine
<1> QED
  BY <1>6, <1>8 DEF IInv

(* A send that raises leaves a connection that is no longer alive. *)
LEMMA RaiseKeeps ==
  ASSUME IInv, Raise, open, result' = <<>>,
         UNCHANGED <<link, buttons, residue, clean>>,
         down' \in AnswerSeq(sent), clean => OnlyComments(down')
  PROVE  IInv'
<1>1. broken /\ phase' = "idle"
      /\ UNCHANGED <<open, broken, dropped, sent, lines>>
  BY DEF Raise, link
<1>2. TypeOK'
  BY <1>1, WaitingFacts, Types, Zenon DEF Typed
<1>3. Buttons' /\ OfflineIsClosed' /\ Results' /\ (clean' => Session')
      /\ SessionInStep'
  BY <1>1, <1>2
     DEF Buttons, OfflineIsClosed, Results, Session, SessionInStep,
         AnswersOwnLine
<1> QED
  BY <1>2, <1>3 DEF IInv

LEMMA SendKeeps ==
  ASSUME IInv, NEW kind \in Commands, Send(kind) PROVE IInv'
<1>1. /\ phase = "idle" /\ open /\ result' = <<>> /\ down' = down
      /\ UNCHANGED <<link, buttons, residue, clean>>
      /\ Line(kind, "wait") \/ Raise
  BY DEF Send
<1>2. buttons = "online" \/ broken
  BY <1>1, WaitingFacts DEF IInv, OfflineIsClosed, Typed
<1>3. clean => OnlyComments(down) /\ (~broken => lines = <<>>)
  BY <1>1 DEF IInv, Session
<1>4. down' \in AnswerSeq(sent)
  BY <1>1, WaitingFacts
<1>5. CASE Line(kind, "wait")
  BY <1>1, <1>2, <1>3, <1>4, <1>5, LineWaits
<1>6. CASE Raise
  BY <1>1, <1>3, <1>4, <1>6, RaiseKeeps
<1> QED
  BY <1>1, <1>5, <1>6

(* The close line goes out, or the Protocol is forgotten. *)
LEMMA ReconnectKeeps == ASSUME IInv, Reconnect PROVE IInv'
<1>1. /\ phase = "idle" /\ open /\ buttons = "offline" /\ result' = <<>>
      /\ UNCHANGED <<buttons, residue, clean>>
  BY DEF Reconnect
<1>2. broken
  BY <1>1 DEF IInv, OfflineIsClosed
<1>3. clean => OnlyComments(down) /\ (~broken => lines = <<>>)
  BY <1>1 DEF IInv, Session
<1>4. CASE Line("act", "close") /\ UNCHANGED <<link, down>>
  <2>1. down' \in AnswerSeq(sent) /\ down' = down /\ UNCHANGED link
    BY <1>4, WaitingFacts
  <2>2. "act" \in Commands
    BY DEF Commands
  <2> QED
    BY <1>1, <1>2, <1>3, <1>4, <2>1, <2>2, LineWaits
<1>5. CASE Raise /\ open' = FALSE /\ broken' = FALSE /\ down' = <<>>
           /\ UNCHANGED dropped
  <2>1. dropped' \in BOOLEAN /\ buttons' \in {"online", "offline"}
    BY <1>1, <1>5, WaitingFacts DEF Typed
  <2>2. phase' = "idle" /\ UNCHANGED <<sent, lines>>
    BY <1>5 DEF Raise
  <2> QED
    BY <1>1, <1>5, <2>1, <2>2, GoneKeeps
<1> QED
  BY <1>4, <1>5 DEF Reconnect

(* A step of the interpreter or of the other side. *)
LEMMA LinkKeeps == ASSUME IInv, Collect \/ PeerCloses PROVE IInv'
<1>1. /\ UNCHANGED <<open, phase, buttons, sent, lines, residue, down, result,
                     clean>>
      /\ dropped' \in BOOLEAN /\ broken' \in BOOLEAN
      /\ broken => broken'
      /\ broken' => open
  <2>1. CASE Collect
    BY <2>1, WaitingFacts, Zenon DEF Collect, Typed
  <2>2. CASE PeerCloses
    BY <2>2, WaitingFacts, Zenon DEF PeerCloses, Typed
  <2> QED
    BY <2>1, <2>2
<1>2. TypeOK'
  BY <1>1, WaitingFacts, Types, Zenon DEF Typed
<1>3. Session => Session'
  BY <1>1 DEF Session, Greeting, Waiting, OnlyComments
<1>4. Buttons' /\ OfflineIsClosed' /\ Results' /\ SessionInStep'
  BY <1>1, <1>2
     DEF IInv, Buttons, OfflineIsClosed, Results, SessionInStep, AnswersOwnLine
<1> QED
  BY <1>1, <1>2, <1>3, <1>4 DEF IInv

(* The answers to the greeting: the *HELLO* is the last that was owed. *)
LEMMA RecvHelloKeeps ==
  ASSUME IInv, NEW k \in 0 .. Len(down), RecvHello(k) PROVE IInv'
<1> DEFINE chunk == SubSeq(down, 1, k)
           rest  == SubSeq(down, k + 1, Len(down))
<1>1. phase = "hello" /\ result' = <<>> /\ open
      /\ UNCHANGED <<buttons, residue, clean>>
  BY WaitingFacts DEF RecvHello
<1>2. /\ rest \in AnswerSeq(sent) /\ Len(rest) = Len(down) - k
      /\ \A i \in 1 .. Len(down) - k : rest[i] = down[k + i]
  BY WaitingFacts, Suffix, Zenon DEF AnswerSeq
<1>3. CASE Found(chunk)
  <2>1. (Line("value", "version") \/ Raise) /\ down' = rest /\ UNCHANGED link
    BY <1>3 DEF RecvHello
  <2>2. k \in 1 .. Len(down)
    <3>1. k = 0 => DOMAIN chunk = {}
      BY WaitingFacts
    <3> QED
      BY <1>3, <3>1, WaitingFacts DEF Found
  <2>3. DOMAIN chunk = 1 .. k /\ \A i \in 1 .. k : chunk[i] = down[i]
    BY <2>2, WaitingFacts, Prefix DEF AnswerSeq
  <2>4. PICK j \in 1 .. k : down[j][2] = "*HELLO*"
    BY <1>3, <2>3 DEF Found
  <2>5. ASSUME clean PROVE lines = <<>> /\ OnlyComments(rest)
    <3>1. Greeting
      BY <1>1, <2>5 DEF IInv, Session
    <3>2. /\ j \in 1 .. Len(down) /\ Len(down) \in Nat
          /\ \A i \in 1 .. Len(down) - k : k + i \in j + 1 .. Len(down)
      BY <2>2, <2>4, WaitingFacts
    <3>3. lines = <<>> /\ \A m \in j + 1 .. Len(down) : down[m] = Comment
      BY <2>4, <3>1, <3>2 DEF Greeting
    <3> HIDE DEF rest
    <3> QED
      BY <1>2, <3>2, <3>3 DEF OnlyComments
  <2>6. "value" \in Commands
    BY DEF Commands
  <2> HIDE DEF rest
  <2>7. CASE Line("value", "version")
    BY <1>1, <1>2, <2>1, <2>5, <2>6, <2>7, LineWaits
  <2>8. CASE Raise
    BY <1>1, <1>2, <2>1, <2>5, <2>8, RaiseKeeps
  <2> QED
    BY <2>1, <2>7, <2>8
<1>4. CASE ~Found(chunk)
  <2>1. /\ open' = FALSE /\ broken' = FALSE /\ dropped' = ~broken
        /\ down' = <<>> /\ phase' = "idle" /\ UNCHANGED <<sent, lines>>
    BY <1>4 DEF RecvHello
  <2>2. buttons' \in {"online", "offline"} /\ dropped' \in BOOLEAN
    BY <1>1, <2>1, WaitingFacts DEF Typed
  <2> QED
    BY <1>1, <2>1, <2>2, GoneKeeps
<1> QED
  BY <1>3, <1>4

(* An answer: a comment is passed over, another one ends the wait, and the *)
(* nothing that comes from a broken connection does too.                   *)
LEMMA RecvKeeps ==
  ASSUME IInv, NEW k \in 0 .. Len(down), Recv(k) PROVE IInv'
<1> DEFINE chunk == SubSeq(down, 1, k)
           rest  == SubSeq(down, k + 1, Len(down))
<1>1. /\ phase \in {"wait", "version", "close"} /\ open /\ result = <<>>
      /\ k = 0 => broken /\ down = <<>>
      /\ UNCHANGED <<sent, lines, residue, clean>>
  BY WaitingFacts DEF Recv
<1>2. /\ rest \in AnswerSeq(sent) /\ Len(rest) = Len(down) - k
      /\ \A i \in 1 .. Len(down) - k : rest[i] = down[k + i]
  BY WaitingFacts, Suffix, Zenon DEF AnswerSeq
<1>3. /\ k > 0 => 1 \in 1 .. Len(down)
      /\ \A i \in 1 .. Len(rest) : k + i \in 1 .. Len(down) /\ (k > 0 => k + i # 1)
      /\ \A i, j \in 1 .. Len(rest) : i # j => k + i # k + j
  <2> HIDE DEF rest
  <2>1. Len(down) \in Nat /\ k \in Nat /\ Len(rest) = Len(down) - k
    BY <1>2, WaitingFacts
  <2> QED
    BY <2>1
<1>4. clean /\ phase # "close" => Waiting
  BY <1>1 DEF IInv, Session
<1>5. CASE k > 0 /\ down[1] = Comment
  <2>1. down' = rest /\ UNCHANGED <<open, broken, dropped, phase, result, buttons>>
    BY <1>5 DEF Recv, link
  <2> HIDE DEF rest, chunk
  <2>2. TypeOK'
    BY <1>1, <1>2, <2>1, WaitingFacts, Types, Zenon DEF Typed
  <2>3. ASSUME clean, phase # "close" PROVE Waiting'
    <3>1. \A i \in 1 .. Len(rest) : rest[i] # Comment =>
            /\ rest[i][1] = sent
            /\ \A j \in 1 .. Len(rest) : j # i => rest[j] = Comment
      BY ZenonT(30), <1>2, <1>3, <1>4, <2>3 DEF Waiting
    <3>2. ~broken /\ lines # <<>> => OnlyComments(rest)
      BY <1>2, <1>3, <1>4, <2>3 DEF Waiting, OnlyComments
    <3> QED
      BY <1>1, <1>4, <2>1, <2>3, <3>1, <3>2 DEF Waiting
  <2>4. Buttons' /\ OfflineIsClosed' /\ Results' /\ (clean' => Session')
        /\ SessionInStep'
    BY <1>1, <2>1, <2>2, <2>3
       DEF IInv, Buttons, OfflineIsClosed, Results, Session, SessionInStep,
           AnswersOwnLine
  <2> QED
    BY <2>2, <2>4 DEF IInv
<1>6. CASE ~(k > 0 /\ down[1] = Comment) /\ phase = "close"
  <2>1. Close /\ result' = <<>> /\ buttons' \in {"online", "offline"}
    BY <1>1, <1>6, WaitingFacts DEF Recv, Typed
  <2> QED
    BY <1>1, <2>1, CloseKeeps
<1>7. CASE ~(k > 0 /\ down[1] = Comment) /\ phase # "close"
  <2>1. /\ phase' = "idle" /\ result' = chunk /\ down' = rest
        /\ buttons' = IF phase = "version" THEN "online" ELSE buttons
        /\ UNCHANGED <<open, broken, dropped>>
    BY <1>7 DEF Recv, AfterSend, link
  <2>2. /\ k = 0 => chunk = <<>>
        /\ k > 0 => chunk \in AnswerSeq(sent) /\ chunk[1] = down[1]
    <3>1. k = 0 => chunk = <<>>
      BY WaitingFacts
    <3>2. k > 0 => k \in 1 .. Len(down)
      BY WaitingFacts
    <3> QED
      BY <3>1, <3>2, WaitingFacts, Prefix DEF AnswerSeq
  <2>3. chunk \in AnswerSeq(sent)
    <3>1. k = 0 \/ k > 0
      OBVIOUS
    <3> HIDE DEF chunk
    <3> QED
      BY <2>2, <3>1, WaitingFacts
  <2> HIDE DEF rest, chunk
  <2>4. buttons' = "online" \/ broken
    BY <1>1, <1>7, <2>1 DEF IInv, Buttons
  <2>5. buttons' \in {"online", "offline"}
    BY <2>1, WaitingFacts DEF Typed
  <2>6. TypeOK'
    BY <1>1, <1>2, <2>1, <2>3, <2>5, WaitingFacts, Types, Zenon DEF Typed
  <2>7. ASSUME clean
        PROVE  /\ OnlyComments(rest) /\ (~broken => lines = <<>>)
               /\ chunk # <<>> => chunk[1][1] = sent
    <3>1. CASE k = 0
      <4>1. Len(rest) = 0 /\ broken
        BY <1>1, <1>2, <3>1, EmptySeq
      <4> QED
        BY <2>2, <3>1, <4>1 DEF OnlyComments
    <3>2. CASE k > 0
      <4>1. down[1] # Comment
        BY <1>7, <3>2
      <4>2. ~OnlyComments(down)
        BY <1>3, <3>2, <4>1 DEF OnlyComments
      <4>3. down[1][1] = sent
            /\ \A m \in 1 .. Len(down) : m # 1 => down[m] = Comment
        BY <1>3, <1>4, <1>7, <2>7, <3>2, <4>1 DEF Waiting
      <4>4. ~broken => lines = <<>>
        BY <1>4, <1>7, <2>7, <4>2 DEF Waiting
      <4>5. OnlyComments(rest)
        BY <1>2, <1>3, <3>2, <4>3 DEF OnlyComments
      <4> QED
        BY <2>2, <3>2, <4>3, <4>4, <4>5
    <3>3. k = 0 \/ k > 0
      OBVIOUS
    <3> QED
      BY <3>1, <3>2, <3>3
  <2>8. Buttons' /\ OfflineIsClosed' /\ Results' /\ (clean' => Session')
        /\ SessionInStep'
    BY <1>1, <2>1, <2>4, <2>6, <2>7
       DEF Buttons, OfflineIsClosed, Results, Session, SessionInStep,
           AnswersOwnLine
  <2> QED
    BY <2>6, <2>8 DEF IInv
<1> QED
  BY <1>5, <1>6, <1>7

----------------------------------------------------------------------------
(* What the robot does to the queue of lines: it takes some of the first.  *)
Taken(k) ==
  /\ k \in 0 .. Len(lines)
  /\ lines' \in LineSeq(sent) /\ Len(lines') = Len(lines) - k
  /\ \A i \in 1 .. Len(lines) - k : lines'[i] = lines[k + i]

(* The steps of the robot and the radio. *)
LEMMA RobotKeeps ==
  ASSUME IInv, UNCHANGED <<link, phase, buttons, sent, result, clean>>,
         residue' \in BOOLEAN,
         lines' \in LineSeq(sent), down' \in AnswerSeq(sent),
         clean => Session'
  PROVE  IInv'
<1>0. UNCHANGED <<open, broken, dropped>>
  BY DEF link
<1>1. TypeOK'
  BY <1>0, WaitingFacts, Types, Zenon DEF Typed
<1>2. Buttons' /\ OfflineIsClosed' /\ Results' /\ (clean' => Session')
      /\ SessionInStep'
  BY <1>0, <1>1 DEF IInv, Buttons, OfflineIsClosed, Results, SessionInStep,
              AnswersOwnLine
<1> QED
  BY <1>1, <1>2 DEF IInv

(* A comment, or nothing, goes to the connection. *)
LEMMA CommentsKeep ==
  ASSUME IInv, clean, UNCHANGED <<open, broken, phase, sent>>,
         NEW k, Taken(k),
         \/ down' = down
         \/ down' = Append(down, Comment)
  PROVE  Session'
<1>1. /\ Session /\ Len(lines) \in Nat /\ Len(down) \in Nat /\ k \in Nat
      /\ k <= Len(lines) /\ Len(lines') = Len(lines) - k
      /\ lines = <<>> => lines' = <<>>
  <2>1. Session /\ Len(lines) \in Nat /\ Len(down) \in Nat /\ k \in Nat
        /\ k <= Len(lines) /\ Len(lines') = Len(lines) - k
    BY WaitingFacts DEF IInv, Taken
  <2>2. lines' \in LineSeq(sent)
    BY DEF Taken
  <2>3. lines = <<>> => Len(lines') = 0
    BY <2>1, EmptySeq
  <2> QED
    BY <2>1, <2>2, <2>3, EmptySeq DEF LineSeq
<1>2. \A i \in 1 .. Len(lines') :
        k + i \in 1 .. Len(lines) /\ lines'[i] = lines[k + i]
  BY <1>1 DEF Taken
<1>3. /\ Len(down') \in Nat /\ Len(down) <= Len(down')
      /\ \A i \in 1 .. Len(down) : down'[i] = down[i]
      /\ \A i \in 1 .. Len(down') : i \in 1 .. Len(down) \/ down'[i] = Comment
  <2>1. CASE down' = down
    BY <1>1, <2>1
  <2>2. CASE down' = Append(down, Comment)
    <3>1. /\ Len(down') = Len(down) + 1 /\ down'[Len(down) + 1] = Comment
          /\ \A i \in 1 .. Len(down) : down'[i] = down[i]
      BY <2>2, WaitingFacts, AppendProperties DEF AnswerSeq
    <3> QED
      BY <1>1, <3>1
  <2> QED
    BY <2>1, <2>2
<1>4. OnlyComments(down) => OnlyComments(down')
  BY <1>3 DEF OnlyComments
<1>5. Comment[2] # "*HELLO*"
  BY DEF Comment
<1>6. Greeting => Greeting'
  <2> SUFFICES ASSUME Greeting PROVE Greeting'
    OBVIOUS
  <2>1. \A i \in 1 .. Len(lines') : lines'[i][2] = "hello" => i = Len(lines')
    BY <1>1, <1>2 DEF Greeting
  <2>2. ASSUME NEW i \in 1 .. Len(down'), down'[i][2] = "*HELLO*"
        PROVE  lines' = <<>> /\ \A m \in i + 1 .. Len(down') : down'[m] = Comment
    <3>1. i \in 1 .. Len(down) /\ down[i][2] = "*HELLO*"
      BY <1>3, <1>5, <2>2
    <3>2. lines = <<>> /\ \A m \in i + 1 .. Len(down) : down[m] = Comment
      BY <3>1 DEF Greeting
    <3>3. \A m \in i + 1 .. Len(down') :
            m \in 1 .. Len(down') /\ (m \in 1 .. Len(down) => m \in i + 1 .. Len(down))
      BY <1>1, <1>3, <3>1
    <3> QED
      BY <1>1, <1>3, <3>2, <3>3
  <2> QED
    BY <2>1, <2>2 DEF Greeting
<1>7. Waiting => Waiting'
  <2> SUFFICES ASSUME Waiting PROVE Waiting'
    OBVIOUS
  <2>1. ~broken =>
          Len(lines') <= 1 /\ \A i \in 1 .. Len(lines') : lines'[i][1] = sent'
    BY <1>1, <1>2 DEF Waiting
  <2>2. ~broken /\ lines' # <<>> => OnlyComments(down')
    BY <1>1, <1>4 DEF Waiting
  <2>3. \A i \in 1 .. Len(down') : down'[i] # Comment =>
          down'[i][1] = sent' /\ \A m \in 1 .. Len(down') : m # i => down'[m] = Comment
    BY <1>3 DEF Waiting
  <2> QED
    BY <2>1, <2>2, <2>3 DEF Waiting
<1> QED
  BY <1>1, <1>4, <1>6, <1>7 DEF Session

(* Tail takes one line. *)
LEMMA TailTakes ==
  ASSUME IInv, lines # <<>>, lines' = Tail(lines)
  PROVE  /\ Taken(1) /\ Len(lines) \in Nat /\ Len(lines) >= 1
         /\ Len(lines) <= 1 => Len(lines) = 1
         /\ lines[1] \in (1 .. sent) \X Kinds /\ 1 \in 1 .. Len(lines)
<1>1. lines \in Seq((1 .. sent) \X Kinds) /\ Len(lines) \in Nat
  BY WaitingFacts DEF LineSeq
<1>2. Len(lines) >= 1
  BY <1>1, EmptySeq
<1>3. /\ Tail(lines) \in Seq((1 .. sent) \X Kinds)
      /\ Len(Tail(lines)) = Len(lines) - 1
      /\ \A i \in 1 .. Len(Tail(lines)) : Tail(lines)[i] = lines[i + 1]
  BY <1>1, HeadTailProperties
<1> QED
  BY <1>1, <1>2, <1>3 DEF Taken, LineSeq

LEMMA LoseKeeps ==
  ASSUME IInv, NEW part \in BOOLEAN, Lose(part) PROVE IInv'
<1>1. /\ lines # <<>> /\ lines' = Tail(lines) /\ residue' = (residue \/ part)
      /\ UNCHANGED <<link, phase, buttons, sent, down, result, clean>>
  BY DEF Lose
<1>2. Taken(1)
  BY <1>1, TailTakes
<1>3. residue' \in BOOLEAN
  BY <1>1, Zenon
<1>4. down' \in AnswerSeq(sent) /\ UNCHANGED <<open, broken>>
  BY <1>1, WaitingFacts DEF link
<1>5. clean => Session'
  BY <1>1, <1>2, <1>4, CommentsKeep
<1> QED
  BY <1>1, <1>2, <1>3, <1>4, <1>5, RobotKeeps DEF Taken

(* ****INIT*** is a comment to the program. *)
LEMMA RestartKeeps == ASSUME IInv, Restart PROVE IInv'
<1>1. /\ residue' = FALSE
      /\ down' = IF open /\ ~broken THEN Append(down, Comment) ELSE down
      /\ UNCHANGED <<link, phase, buttons, sent, result, clean>>
  BY DEF Restart, Output
<1>2. PICK k \in 0 .. Len(lines) : lines' = SubSeq(lines, k + 1, Len(lines))
  BY DEF Restart
<1>3. Taken(k)
  BY <1>2, WaitingFacts, Suffix, Zenon DEF Taken, LineSeq
<1>4. down' = down \/ down' = Append(down, Comment)
  BY <1>1
<1>5. down' \in AnswerSeq(sent)
  <2>1. Comment \in (0 .. sent) \X Words
    BY WaitingFacts DEF Comment, Words
  <2>2. Append(down, Comment) \in AnswerSeq(sent)
    BY <2>1, WaitingFacts, AppendProperties, Zenon DEF AnswerSeq
  <2> QED
    BY <1>4, <2>2, WaitingFacts, Zenon
<1>6. UNCHANGED <<open, broken>>
  BY <1>1 DEF link
<1>7. residue' \in BOOLEAN
  BY <1>1, Zenon
<1>8. clean => Session'
  BY <1>1, <1>3, <1>4, <1>6, CommentsKeep
<1> QED
  BY <1>1, <1>3, <1>5, <1>6, <1>7, <1>8, RobotKeeps DEF Taken

(* Only a *HELLO* line is answered by *HELLO*. *)
LEMMA HelloText ==
  ASSUME NEW kind \in Kinds, NEW text \in Texts(kind)
  PROVE  text \in Words /\ (text = "*HELLO*" => kind = "hello")
<1>1. CASE kind = "hello"
  BY <1>1 DEF Texts, Words
<1>2. CASE kind = "value"
  BY <1>2 DEF Texts, Words
<1>3. CASE kind = "act"
  BY <1>3 DEF Texts, Words
<1> QED
  BY <1>1, <1>2, <1>3 DEF Kinds, Commands

(* The answer to the oldest line: a *HELLO* only when that line is the     *)
(* last, and to the program's own line when nothing else is owed.          *)
LEMMA AnswerKeeps == ASSUME IInv, Answer PROVE IInv'
<1>1. /\ lines # <<>> /\ lines' = Tail(lines) /\ residue' = FALSE
      /\ UNCHANGED <<link, phase, buttons, sent, result, clean>>
      /\ UNCHANGED <<open, broken>>
  BY DEF Answer, link
<1>2. PICK text \in IF residue THEN {"*OK*", "*ERROR*"} ELSE Texts(lines[1][2]) :
        down' = IF open /\ ~broken THEN Append(down, <<lines[1][1], text>>)
                ELSE down
  BY DEF Answer, Output
<1>3. /\ Taken(1) /\ Len(lines) \in Nat /\ Len(lines) >= 1
      /\ lines[1] \in (1 .. sent) \X Kinds /\ 1 \in 1 .. Len(lines)
  BY <1>1, TailTakes
<1>4. text \in Words /\ (text = "*HELLO*" => lines[1][2] = "hello")
  <2>1. lines[1][2] \in Kinds
    BY <1>3
  <2>2. CASE residue
    BY <1>2, <2>2 DEF Words
  <2>3. CASE ~residue
    BY <1>2, <2>1, <2>3, HelloText
  <2> QED
    BY <2>2, <2>3
<1> DEFINE answer == <<lines[1][1], text>>
<1>5. answer \in (0 .. sent) \X Words /\ answer[1] = lines[1][1] /\ answer[2] = text
  BY <1>3, <1>4, WaitingFacts
<1> HIDE DEF answer
<1>6. /\ Append(down, answer) \in AnswerSeq(sent)
      /\ Len(Append(down, answer)) = Len(down) + 1
      /\ \A i \in 1 .. Len(down) : Append(down, answer)[i] = down[i]
      /\ Append(down, answer)[Len(down) + 1] = answer
  <2>1. down \in Seq((0 .. sent) \X Words)
    BY WaitingFacts DEF AnswerSeq
  <2> QED
    BY <1>5, <2>1, AppendProperties DEF AnswerSeq
<1>7. down' = IF open /\ ~broken THEN Append(down, answer) ELSE down
  BY <1>2 DEF answer
<1>8. down' \in AnswerSeq(sent) /\ residue' \in BOOLEAN
  <2>1. CASE open /\ ~broken
    BY <1>1, <1>6, <1>7, <2>1, WaitingFacts, Zenon DEF Typed
  <2>2. CASE ~(open /\ ~broken)
    BY <1>1, <1>7, <2>2, WaitingFacts, Zenon DEF Typed
  <2> QED
    BY <2>1, <2>2
<1>9. Len(lines') = Len(lines) - 1 /\ \A i \in 1 .. Len(lines') :
        i + 1 \in 1 .. Len(lines) /\ lines'[i] = lines[i + 1]
  BY <1>3 DEF Taken
<1>11. Len(lines) = 1 => lines' = <<>>
  <2>1. lines' \in Seq((1 .. sent) \X Kinds)
    BY <1>3 DEF Taken, LineSeq
  <2>2. Len(lines) = 1 => Len(lines') = 0
    BY <1>9
  <2> QED
    BY <2>1, <2>2, EmptySeq
<1>12. ASSUME clean, broken PROVE Session'
  BY <1>1, <1>3, <1>7, <1>12, CommentsKeep
<1>10. ASSUME clean, ~broken PROVE Session'
  <2>1. Session
    BY <1>10 DEF IInv
  <2>2. ASSUME phase = "hello" PROVE Greeting'
    <3>1. Greeting /\ open
      BY <2>1, <2>2, WaitingFacts DEF Session
    <3>2. \A i \in 1 .. Len(lines') : lines'[i][2] = "hello" => i = Len(lines')
      BY SMTT(30), <1>3, <1>9, <3>1 DEF Greeting
    <3>3. ASSUME NEW i \in 1 .. Len(down'), down'[i][2] = "*HELLO*"
          PROVE  lines' = <<>> /\ \A m \in i + 1 .. Len(down') : down'[m] = Comment
      <4>1. Len(down') = Len(down) + 1 /\ Len(down) \in Nat
        BY <1>6, <1>7, <1>10, <3>1, WaitingFacts
      <4>2. i = Len(down) + 1
        <5>1. i \in 1 .. Len(down) => down[i][2] # "*HELLO*"
          BY <1>1, <3>1 DEF Greeting
        <5> QED
          BY <1>6, <1>7, <3>1, <3>3, <4>1, <5>1
      <4>3. text = "*HELLO*"
        BY <1>5, <1>6, <1>7, <3>1, <3>3, <4>2
      <4>4. Len(lines) = 1
        BY <1>3, <1>4, <3>1, <4>3 DEF Greeting
      <4>5. lines' = <<>>
        BY <1>11, <4>4
      <4> QED
        BY <4>1, <4>2, <4>5
    <3> QED
      BY <3>2, <3>3 DEF Greeting
  <2>3. ASSUME phase \in {"version", "wait"} PROVE Waiting'
    <3>1. Waiting /\ open
      BY <2>1, <2>3, WaitingFacts DEF Session
    <3>2. Len(lines) = 1 /\ answer[1] = sent /\ OnlyComments(down)
      <4>1. Len(lines) <= 1 /\ OnlyComments(down)
        BY <1>1, <1>10, <3>1 DEF Waiting
      <4>2. lines[1][1] = sent
        BY <1>3, <1>10, <3>1 DEF Waiting
      <4>3. Len(lines) = 1
        BY <1>1, <4>1, TailTakes, Zenon
      <4>4. answer[1] = sent
        BY <1>5, <4>2
      <4> QED
        BY <4>1, <4>3, <4>4
    <3>3. Len(lines') = 0 /\ lines' = <<>>
      BY <1>9, <1>11, <3>2
    <3>4. Len(down') = Len(down) + 1 /\ Len(down) \in Nat
      BY <1>6, <1>7, <1>10, <3>1, WaitingFacts
    <3>5. \A i \in 1 .. Len(down') :
            down'[i] = Comment \/ (i = Len(down) + 1 /\ down'[i][1] = sent)
      BY <1>6, <1>7, <3>1, <3>2, <3>4 DEF OnlyComments
    <3>6. \A i \in 1 .. Len(down') : down'[i] # Comment =>
            down'[i][1] = sent' /\ \A m \in 1 .. Len(down') : m # i => down'[m] = Comment
      BY <1>1, <3>5
    <3>7. Len(lines') <= 1 /\ \A i \in 1 .. Len(lines') : lines'[i][1] = sent'
      BY <3>3
    <3> QED
      BY <3>3, <3>6, <3>7 DEF Waiting
  <2>4. phase = "idle" => ~open
    BY <1>1, <1>10, <2>1 DEF Session
  <2> QED
    BY <1>1, <2>2, <2>3, <2>4 DEF Session
<1> QED
  BY <1>1, <1>3, <1>8, <1>10, <1>12, RobotKeeps DEF Taken

----------------------------------------------------------------------------
(* Every step of the program, the robot and the radio keeps the invariant. *)
LEMMA NextInv == IInv /\ [Next]_vars => IInv'
<1> SUFFICES ASSUME IInv, [Next]_vars PROVE IInv'
  OBVIOUS
<1>1. CASE Connect
  BY <1>1, ConnectKeeps
<1>2. CASE Disconnect
  BY <1>2, DisconnectKeeps
<1>3. CASE Program
  BY <1>3, HelloTimeoutKeeps, SendTimeoutKeeps, RecvHelloKeeps, RecvKeeps
     DEF Program
<1>4. CASE \E kind \in Commands : Send(kind)
  BY <1>4, SendKeeps
<1>5. CASE Answer
  BY <1>5, AnswerKeeps
<1>6. CASE Restart
  BY <1>6, RestartKeeps
<1>7. CASE \E part \in BOOLEAN : Lose(part)
  BY <1>7, LoseKeeps
<1>9. CASE Reconnect
  BY <1>9, ReconnectKeeps
<1>10. CASE Collect \/ PeerCloses
  BY <1>10, LinkKeeps
<1>8. CASE UNCHANGED vars
  BY <1>8 DEF vars, IInv, TypeOK, Buttons, OfflineIsClosed, Results, Session,
              Greeting, Waiting, OnlyComments, SessionInStep, AnswersOwnLine
<1> QED
  BY <1>1, <1>2, <1>3, <1>4, <1>5, <1>6, <1>7, <1>8, <1>9, <1>10 DEF Next

(* The inductive invariant of the control program and its connection. *)
THEOREM GuiInvariant == Spec => []IInv
<1> QED
  BY InitInv, NextInv, PTL DEF Spec

(* In a connection opened when no *HELLO* was owed, what Protocol.send     *)
(* returns is the answer to the line it sent, however late the robot is,   *)
(* whatever is lost and however often the robot restarts.                  *)
THEOREM SessionStaysInStep == Spec => []SessionInStep
<1>1. IInv => SessionInStep
  BY DEF IInv
<1> QED
  BY <1>1, GuiInvariant, PTL

(* Where the Connect button is enabled and the program waits for nothing,  *)
(* the program has no connection that is alive: connect_finalize, send and *)
(* the two disconnects leave it at most one that the robot has ended, also *)
(* when a send raises in the middle of connect_finalize.                   *)
THEOREM OfflineStaysClosed == Spec => []OfflineIsClosed
<1>1. IInv => OfflineIsClosed
  BY DEF IInv
<1> QED
  BY <1>1, GuiInvariant, PTL
=============================================================================
