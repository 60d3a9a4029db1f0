--------------------------- MODULE FixedRingBuffer ---------------------------
(***************************************************************************)
(* The fixed ring buffer, as operators on its four members.  The queue of  *)
(* the event bus is the same algorithm, written out a second time.         *)
(***************************************************************************)
EXTENDS Naturals

LOCAL INSTANCE Sequences

(* The members of a buffer; the class asserts capacity > 0. *)
Buffers(T, capacity) ==
  [entries     : [0..capacity-1 -> T],
   read_index  : 0..capacity-1,
   write_index : 0..capacity-1,
   count       : 0..capacity]

NewBuffer(blank, capacity) ==
  [entries |-> [i \in 0..capacity-1 |-> blank], read_index |-> 0, write_index |-> 0, count |-> 0]

full(b, capacity) == b.count = capacity
empty(b)          == b.count = 0

(* A full buffer refuses the value. *)
try_push(b, value, capacity) ==
  IF full(b, capacity) THEN b
  ELSE [b EXCEPT !.entries[b.write_index] = value,
                 !.write_index = (@ + 1) % capacity,
                 !.count = @ + 1]

(* Of a buffer that is not empty. *)
peek(b) == b.entries[b.read_index]

(* drop_oldest; what try_pop leaves is the same. *)
drop_oldest(b, capacity) ==
  IF empty(b) THEN b
  ELSE [b EXCEPT !.read_index = (@ + 1) % capacity, !.count = @ - 1]

(* The entries, oldest first. *)
Contents(b, capacity) == [i \in 1..b.count |-> b.entries[(b.read_index + i - 1) % capacity]]

=============================================================================
