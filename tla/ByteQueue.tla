----------------------------- MODULE ByteQueue -----------------------------
(***************************************************************************)
(* What an I/O queue of the kernel promises: the bytes put into it come    *)
(* out once each and in order, never more than Size of them are held, and  *)
(* a reset forgets them.  The promise is void when the other side uses the *)
(* queue in the middle of a reset, until the next reset.                   *)
(***************************************************************************)
EXTENDS Integers, Sequences

CONSTANTS Bytes, Size

VARIABLES
  items,   \* the bytes held, the oldest first
  taken,   \* the byte handed out last
  sound    \* "no" after a disturbed reset

Init == items = <<>> /\ taken \in Bytes /\ sound = "yes"

Put(b) ==
  /\ sound = "yes" /\ Len(items) < Size
  /\ items' = Append(items, b)
  /\ UNCHANGED <<taken, sound>>

Get ==
  /\ sound = "yes" /\ items # <<>>
  /\ taken' = Head(items)
  /\ items' = Tail(items)
  /\ UNCHANGED sound

Reset == items' = <<>> /\ sound' = "yes" /\ UNCHANGED taken

(* A reset is disturbed, or the queue is used after that. *)
Disturbed == items' = <<>> /\ sound' = "no" /\ taken' \in Bytes

Next == (\E b \in Bytes : Put(b)) \/ Get \/ Reset \/ Disturbed

Spec == Init /\ [][Next]_<<items, taken, sound>>
=============================================================================
