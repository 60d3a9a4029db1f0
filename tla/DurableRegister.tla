--------------------------- MODULE DurableRegister ---------------------------
(***************************************************************************)
(* What a caller of a write-behind store of one value may count on when    *)
(* power can go at any moment.  A value handed over becomes durable later, *)
(* or never; but what a boot finds is always a value that was handed over, *)
(* whole, and never one older than what an earlier boot could have found.  *)
(***************************************************************************)
EXTENDS Naturals, Sequences

CONSTANT Values

VARIABLES
  durable,   \* what a boot would find now: the set of one value, or of none
  ahead      \* the values handed over since, oldest first

registerVars == <<durable, ahead>>

Init == durable = {} /\ ahead = <<>>

HandOver(value) ==
  /\ ahead' = Append(ahead, value)
  /\ UNCHANGED durable

(* A value handed over becomes durable; those before it never will. *)
Persist(k) ==
  /\ durable' = {ahead[k]}
  /\ ahead' = SubSeq(ahead, k + 1, Len(ahead))

(* Power is lost: so is everything that is not durable, and nothing else. *)
Crash == ahead' = <<>> /\ UNCHANGED durable

Next ==
  \/ \E value \in Values : HandOver(value)
  \/ \E k \in 1..Len(ahead) : Persist(k)
  \/ Crash

Spec == Init /\ [][Next]_registerVars

=============================================================================
