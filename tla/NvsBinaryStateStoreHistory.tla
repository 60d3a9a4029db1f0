--------------------- MODULE NvsBinaryStateStoreHistory ---------------------
(***************************************************************************)
(* The relay-state store with the history of the values handed to save(),  *)
(* and the abstract register that it implements: what load() would return  *)
(* in every state, also between the two keys of a commit, after a reset    *)
(* there, and while save() runs beside the flush.                          *)
(***************************************************************************)
EXTENDS NvsBinaryStateStore, Naturals, Sequences

CONSTANT MaxAhead   \* bound: values saved since the one NVS has

VARIABLES
  ahead,      \* history: the values saved since the one NVS has, oldest first
  flush_at    \* history: where the value of the running flush is in ahead;
              \* 0 when NVS has it already

historyVars == <<storeVars, ahead, flush_at>>

HistoryInit == Init /\ ahead = <<>> /\ flush_at = 0

(* A save() that could not create the timer has not taken the value. *)
SaveBeginH(on) ==
  /\ Len(ahead) < MaxAhead
  /\ SaveBegin(on)
  /\ ahead' = IF save_pc' = "idle" THEN ahead ELSE Append(ahead, on)
  /\ UNCHANGED flush_at

(* pending_on_ is the value saved last. *)
FlushLoadH == FlushLoad /\ flush_at' = Len(ahead) /\ UNCHANGED ahead

(* Once the key is written the values up to that of the flush are history, *)
(* even if nvs_commit then reports an error.                               *)
FlushRelayH ==
  /\ FlushRelay
  /\ IF nvs_relay' = Stored(flush_on)
       THEN ahead' = SubSeq(ahead, flush_at + 1, Len(ahead)) /\ flush_at' = 0
       ELSE UNCHANGED <<ahead, flush_at>>

StorePowerLossH == StorePowerLoss /\ ahead' = <<>> /\ flush_at' = 0

HistoryNext ==
  \/ \E on \in BOOLEAN : SaveBeginH(on)
  \/ FlushLoadH
  \/ FlushRelayH
  \/ StorePowerLossH
  \/ (SaveStop \/ SaveStart \/ TimerFires \/ FlushSchema) /\ UNCHANGED <<ahead, flush_at>>

HistorySpec == HistoryInit /\ [][HistoryNext]_historyVars

HistoryFairSpec == HistorySpec /\ FlushFairness

-----------------------------------------------------------------------------
Register == INSTANCE DurableRegister WITH
              Values <- BOOLEAN, durable <- IF LoadOk THEN {Loaded} ELSE {}

(***************************************************************************)
(* What a boot finds is nothing, or a whole value that was handed to       *)
(* save(), and never one older than what an earlier boot could have found, *)
(* wherever power is lost: before the first key, between the two keys, in  *)
(* a commit that fails, or while save() replaces the value being flushed.  *)
(* In particular a state that load() could once return is never lost.      *)
(***************************************************************************)
RegisterSpec == Register!Spec

=============================================================================
