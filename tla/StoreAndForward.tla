--------------------------- MODULE StoreAndForward ---------------------------
(***************************************************************************)
(* What an offline queue promises: a message is published at once, waits   *)
(* for its turn, or is refused.  What waits leaves in the order in which   *)
(* it came, because it was published or because a newer record found the   *)
(* queue full, which is counted; an answer pushes nothing out, and no      *)
(* record waits twice or is published while it waits.                      *)
(***************************************************************************)
EXTENDS Naturals, Sequences

CONSTANTS
  Records,   \* messages that may push out the oldest of a full queue
  Answers,   \* messages that a full queue refuses
  Bound,     \* messages that can wait
  None       \* nothing was published

VARIABLES
  fifo,      \* the messages that wait, oldest first
  lost,      \* messages pushed out
  published  \* the message published by the last step

vars == <<fifo, lost, published>>

Init == fifo = <<>> /\ lost = 0 /\ published = None

Waiting == { fifo[i] : i \in 1..Len(fifo) }

Publish(item) ==
  /\ item \notin Waiting \/ item \in Answers
  /\ published' = item
  /\ UNCHANGED <<fifo, lost>>

Keep(item) ==
  /\ item \notin Waiting \/ item \in Answers
  /\ Len(fifo) < Bound
  /\ fifo' = Append(fifo, item)
  /\ published' = None
  /\ UNCHANGED lost

PushOut(record) ==
  /\ record \notin Waiting
  /\ Len(fifo) = Bound
  /\ fifo' = Append(Tail(fifo), record)
  /\ lost' = lost + 1
  /\ published' = None

Refuse == published' = None /\ UNCHANGED <<fifo, lost>>

Forward ==
  /\ fifo # <<>>
  /\ published' = Head(fifo)
  /\ fifo' = Tail(fifo)
  /\ UNCHANGED lost

Next ==
  \/ Forward \/ Refuse
  \/ \E item \in Records \cup Answers : Publish(item) \/ Keep(item)
  \/ \E record \in Records : PushOut(record)

Spec == Init /\ [][Next]_vars

=============================================================================
