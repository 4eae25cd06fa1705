-------------------------------- MODULE Gui --------------------------------
(***************************************************************************)
(* The control program (gui.py) and its connection to the robot.           *)
(*                                                                         *)
(* The program sends a line and takes what the next recv returns for the   *)
(* answer.  The robot answers the lines in order (Wifly), but as late as   *)
(* it likes: a line may be answered after the program gave up and opened   *)
(* the next connection, and the answer then goes there.  The robot and the *)
(* radio are external here: a line may be lost, also so that its first     *)
(* part is left in the robot's buffer, the robot may be restarted as often *)
(* as it likes, and it may end the connection.  Answers arrive whole,      *)
(* several of them perhaps in one recv.  The radio has one connection at a *)
(* time: while an earlier socket is open a connect is refused, and that,   *)
(* like a connect that fails for another reason, changes nothing.          *)
(***************************************************************************)
EXTENDS Integers, Sequences

CONSTANTS
  MaxLines,      \* bound on the lines the program sends
  MaxDown        \* bound on the answers under way when the robot restarts

ASSUME GuiAssumption == MaxLines \in Nat /\ MaxDown \in Nat

VARIABLES
  open,       \* the program has a connection: prot is a connected Protocol
  broken,     \* the other side has ended it
  dropped,    \* a socket was forgotten without close, and the radio still
              \* has its end of the connection
  phase,      \* what the program waits for: nothing, or a recv
  buttons,    \* "online": Disconnect is enabled; "offline": Connect is
  sent,       \* the lines sent so far
  lines,      \* the lines the robot has not answered: <<number, kind>>
  residue,    \* part of a lost line is in the robot's buffer
  down,       \* the answers under way to the program: <<number, text>>
  result,     \* the answers the last send made its result of
  clean       \* when the connection was opened no *HELLO* of an earlier one
              \* was unanswered

vars == <<open, broken, dropped, phase, buttons, sent, lines, residue, down,
          result, clean>>
link == <<open, broken, dropped>>

(* readSonar or version; forward, light, sonar and the like. *)
Commands == {"value", "act"}

(* The texts that may answer a line. *)
Texts(kind) ==
  CASE kind = "hello" -> {"*HELLO*"}
    [] kind = "value" -> {"value"}
    [] kind = "act"   -> {"*OK*", "*ERROR*"}

Comment == <<0, "***">>

Init ==
  /\ open = FALSE /\ broken = FALSE /\ dropped = FALSE
  /\ phase = "idle" /\ buttons = "offline"
  /\ sent = 0 /\ lines = <<>> /\ residue = FALSE
  /\ down = <<>> /\ result = <<>> /\ clean = TRUE

(* sock.send of a line, after which the program waits in recv.  Into a     *)
(* connection that the other side has ended the line goes in vain.         *)
Line(kind, wait) ==
  /\ sent < MaxLines
  /\ sent' = sent + 1
  /\ lines' = IF broken THEN lines ELSE Append(lines, <<sent + 1, kind>>)
  /\ phase' = wait

(* sock.send raises: the exception leaves the handler, and the program     *)
(* waits for nothing.                                                      *)
Raise ==
  /\ broken
  /\ phase' = "idle"
  /\ UNCHANGED <<sent, lines>>

(* sock.close(): what is under way is gone. *)
Close ==
  /\ open' = FALSE /\ broken' = FALSE /\ UNCHANGED dropped
  /\ down' = <<>> /\ phase' = "idle"

(* The Connect button: connect_finalize and Protocol.connect up to recv. *)
Connect ==
  /\ phase = "idle" /\ buttons = "offline" /\ ~open /\ ~dropped
  /\ sent + 1 < MaxLines   \* room for the version line
  /\ clean' = \A k \in DOMAIN lines : lines[k][2] # "hello"
  /\ open' = TRUE /\ down' = <<>> /\ result' = <<>>
  /\ Line("hello", "hello")
  /\ UNCHANGED <<broken, dropped, buttons, residue>>

(* The Connect button while prot still is a connected Protocol:            *)
(* connect_finalize first calls Protocol.disconnect(), which sends close   *)
(* and waits.  When that raises the Protocol is forgotten as it is.  What  *)
(* connect_finalize does when the wait is over is a Connect.               *)
Reconnect ==
  /\ phase = "idle" /\ buttons = "offline" /\ open
  /\ result' = <<>>
  /\ \/ /\ Line("act", "close")
        /\ UNCHANGED <<link, down>>
     \/ /\ Raise
        /\ open' = FALSE /\ broken' = FALSE /\ down' = <<>>
        /\ UNCHANGED dropped
  /\ UNCHANGED <<buttons, residue, clean>>

(* Mutant: any answer will do. *)
FoundAny(chunk) == TRUE

(* data.find("*HELLO*") *)
Found(chunk) == \E k \in DOMAIN chunk : chunk[k][2] = "*HELLO*"

(* connect: the recv returns the first k answers, and nothing (k = 0) when *)
(* the other side has ended the connection.  With a *HELLO* among them     *)
(* connect_finalize asks for the version: an exception there leaves the    *)
(* buttons as they were.  Otherwise Protocol.disconnect returns before it  *)
(* closes, because _connected is not yet set, and the Protocol is          *)
(* forgotten.                                                              *)
RecvHello(k) ==
  /\ phase = "hello" /\ (k = 0 => broken /\ down = <<>>)
  /\ IF Found(SubSeq(down, 1, k))
       THEN /\ Line("value", "version") \/ Raise
            /\ down' = SubSeq(down, k + 1, Len(down))
            /\ UNCHANGED link
       ELSE /\ open' = FALSE /\ broken' = FALSE /\ dropped' = ~broken
            /\ down' = <<>> /\ phase' = "idle"
            /\ UNCHANGED <<sent, lines>>
  /\ UNCHANGED <<buttons, residue, result, clean>>

(* connect: three seconds have passed. *)
HelloTimeout ==
  /\ phase = "hello" /\ down = <<>>
  /\ Close
  /\ UNCHANGED <<buttons, sent, lines, residue, result, clean>>

(* A forgotten Protocol is collected by the interpreter, with its socket,  *)
(* or the radio ends that connection.                                      *)
Collect ==
  /\ dropped /\ dropped' = FALSE
  /\ UNCHANGED <<open, broken, phase, buttons, sent, lines, residue, down,
                 result, clean>>

(* A button or the timer of the sensor tab: Protocol.send up to recv. *)
Send(kind) ==
  /\ phase = "idle" /\ open
  /\ Line(kind, "wait") \/ Raise
  /\ result' = <<>>
  /\ UNCHANGED <<link, buttons, residue, down, clean>>

(* connect_finalize sets the buttons after send("version"), whatever it    *)
(* returned.                                                               *)
AfterSend(b) == buttons' = IF phase = "version" THEN "online" ELSE b

(* send: the recv returns the first k answers.  What begins with a comment *)
(* is passed over, and recv called again with a new timeout; anything else *)
(* is the result, also the nothing (k = 0) that comes when the other side  *)
(* has ended the connection.  Protocol.disconnect closes after its close.  *)
Recv(k) ==
  LET chunk == SubSeq(down, 1, k) IN
  /\ phase \in {"wait", "version", "close"} /\ (k = 0 => broken /\ down = <<>>)
  /\ IF k > 0 /\ down[1] = Comment
       THEN /\ down' = SubSeq(down, k + 1, Len(down))
            /\ UNCHANGED <<link, phase, result, buttons>>
       ELSE IF phase = "close"
       THEN Close /\ UNCHANGED <<result, buttons>>
       ELSE /\ down' = SubSeq(down, k + 1, Len(down))
            /\ phase' = "idle" /\ result' = chunk /\ AfterSend(buttons)
            /\ UNCHANGED link
  /\ UNCHANGED <<sent, lines, residue, clean>>

(* Mutant: the socket stays open. *)
SendTimeoutOpen ==
  /\ phase \in {"wait", "version", "close"} /\ down = <<>>
  /\ phase' = "idle" /\ result' = <<>>
  /\ AfterSend("offline")
  /\ UNCHANGED <<link, down, sent, lines, residue, clean>>

(* Mutant: settimeout is missing. *)
SendTimeoutNever == FALSE /\ UNCHANGED vars

(* send: five seconds have passed, or recv raises.                         *)
(* Protocol.disconnect(False) and GUI.disconnect(True).                    *)
SendTimeout ==
  /\ phase \in {"wait", "version", "close"} /\ down = <<>>
  /\ Close
  /\ result' = <<>>
  /\ AfterSend("offline")
  /\ UNCHANGED <<sent, lines, residue, clean>>

(* The Disconnect button: GUI.disconnect and Protocol.disconnect, without  *)
(* a close line.                                                           *)
Disconnect ==
  /\ phase = "idle" /\ buttons = "online"
  /\ Close
  /\ buttons' = "offline" /\ result' = <<>>
  /\ UNCHANGED <<sent, lines, residue, clean>>

----------------------------------------------------------------------------
(* The robot's output goes to the program if that is connected. *)
Output(answer) == down' = IF open /\ ~broken THEN Append(down, answer) ELSE down

(* The robot answers a line; with a residue in front it is another one. *)
Answer ==
  /\ lines # <<>>
  /\ \E text \in IF residue THEN {"*OK*", "*ERROR*"} ELSE Texts(lines[1][2]) :
       Output(<<lines[1][1], text>>)
  /\ lines' = Tail(lines)
  /\ residue' = FALSE
  /\ UNCHANGED <<link, phase, buttons, sent, result, clean>>

(* A line is lost, in part or as a whole. *)
Lose(part) ==
  /\ lines # <<>>
  /\ lines' = Tail(lines)
  /\ residue' = (residue \/ part)
  /\ UNCHANGED <<link, phase, buttons, sent, down, result, clean>>

(* The robot starts again, the lines it had received are gone: ****INIT*** *)
Restart ==
  /\ Len(down) < MaxDown
  /\ \E k \in 0 .. Len(lines) : lines' = SubSeq(lines, k + 1, Len(lines))
  /\ residue' = FALSE
  /\ Output(Comment)
  /\ UNCHANGED <<link, phase, buttons, sent, result, clean>>

(* The robot or the radio ends the connection. *)
PeerCloses ==
  /\ open /\ ~broken
  /\ broken' = TRUE
  /\ UNCHANGED <<open, dropped, phase, buttons, sent, lines, residue, down,
                 result, clean>>

(* The program goes on: recv returns, or its timeout ends. *)
Program ==
  \/ HelloTimeout \/ SendTimeout
  \/ \E k \in 0 .. Len(down) : RecvHello(k) \/ Recv(k)

Next ==
  \/ Connect \/ Reconnect \/ Disconnect \/ Program \/ Collect
  \/ \E kind \in Commands : Send(kind)
  \/ Answer \/ Restart \/ PeerCloses \/ \E part \in BOOLEAN : Lose(part)

Spec == Init /\ [][Next]_vars

(* A recv returns what there is, and does not wait longer than its         *)
(* timeout.  Nothing is assumed of the user and of the robot.              *)
FairSpec == Spec /\ WF_vars(Program)

----------------------------------------------------------------------------
TypeOK ==
  /\ {open, broken, dropped, residue, clean} \subseteq BOOLEAN
  /\ phase \in {"idle", "hello", "version", "wait", "close"}
  /\ buttons \in {"online", "offline"}
  /\ sent \in 0 .. MaxLines
  /\ lines \in Seq((1 .. sent) \X ({"hello"} \cup Commands))
  /\ \A answers \in {down, result} : answers \in
       Seq((0 .. sent) \X {"***", "*HELLO*", "value", "*OK*", "*ERROR*"})
  /\ phase # "idle" => open
  /\ broken => open

(* "always wait for response" (gui.py): what send returns was made of the  *)
(* answer to its own line, the last one sent.                              *)
AnswersOwnLine == result # <<>> => result[1][1] = sent

(* In a connection opened when no *HELLO* was unanswered, what send        *)
(* returns was made of the answer to its own line: late answers of an      *)
(* earlier connection, lost lines and restarts do not get the two sides    *)
(* out of step.                                                            *)
SessionInStep == clean => AnswersOwnLine

(* The program keeps no live connection behind an enabled Connect button,  *)
(* although the buttons are set in several places: what prot holds there   *)
(* is a connection the robot has already left, kept by a send that raised. *)
(* A Protocol that is no longer held at all (dropped) is another matter:   *)
(* its socket is closed by the interpreter, not by the program.            *)
OfflineIsClosed ==
  TypeOK /\ (phase = "idle" /\ buttons = "offline" /\ open => broken)

(* Every send and every connect returns, with an answer or by its timeout, *)
(* also when the connection breaks, unless the robot restarts again and    *)
(* again: each comment gives the recv of send a new timeout.               *)
SendsReturn ==
  (phase # "idle" ~> phase = "idle") \/ []<><<Restart>>_vars
=============================================================================
