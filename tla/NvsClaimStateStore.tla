------------------------- MODULE NvsClaimStateStore -------------------------
(***************************************************************************)
(* The store of the claim state (adapters/NvsClaimStateStore.cpp).  save() *)
(* only overwrites the one slot of a queue; a worker task of low priority  *)
(* takes the request out, then takes io_mutex_, and writes it to NVS key   *)
(* by key.  clear(), the factory reset, runs in the caller's task: it      *)
(* takes io_mutex_, empties the queue and erases the namespace.            *)
(*                                                                         *)
(* The callers hold the mutex of RhophiClaimGatt (or are app_main before   *)
(* anybody else runs), so at most one of save() and clear() is under way.  *)
(*                                                                         *)
(* A claim state is the claimed flag and whether one of the three legacy   *)
(* counters is not zero.  A key that is absent loads as zero, so an erased *)
(* namespace is the state Unclaimed.                                       *)
(*                                                                         *)
(* Next lets any caller save any state; module ClaimLifecycle uses the     *)
(* actions from the callers the firmware has.                              *)
(***************************************************************************)

CONSTANT Failures   \* the external calls that may fail, and "power"

VARIABLES
  slot,        \* queue_, of one element: the set of what is in it
  worker,      \* the worker task: "none", "receive", "take", "counters", "claimed"
  request,     \* the request the worker took out of the queue
  io_mutex,    \* io_mutex_: "free", "worker" or "clear"
  nvs,         \* what load() returns
  wanted,      \* history: the state the last save() or clear() asked for
  claim_lost,  \* history: a failed call left wanted without a write to come
  overtaken    \* history: the last clear() ran while the worker was between
               \* the queue and the mutex

claimVars == <<slot, worker, request, io_mutex, nvs, wanted, claim_lost, overtaken>>

ClaimStates == [counters : BOOLEAN, claimed : BOOLEAN]
Unclaimed   == [counters |-> FALSE, claimed |-> FALSE]

(* After a reset load() returns what NVS has, which is then the state wanted. *)
Init ==
  /\ slot = {} /\ worker = "none" /\ request = Unclaimed /\ io_mutex = "free"
  /\ nvs \in ClaimStates
  /\ wanted = nvs
  /\ claim_lost = FALSE /\ overtaken = FALSE

-----------------------------------------------------------------------------
(* Mutant of Save: a full queue drops the new request. *)
SaveDrops(state) ==
  /\ io_mutex # "clear"
  /\ wanted' = state
  /\ worker' = IF worker = "none" THEN "receive" ELSE worker
  /\ slot' = IF slot = {} THEN {state} ELSE slot
  /\ UNCHANGED <<request, io_mutex, nvs, claim_lost, overtaken>>

(* save(): the worker is created on first use; xQueueOverwrite never fails. *)
Save(state) ==
  /\ io_mutex # "clear"
  /\ wanted' = state
  /\ \/ /\ worker' = IF worker = "none" THEN "receive" ELSE worker
        /\ slot' = {state}
        /\ claim_lost' = FALSE
        /\ overtaken' = FALSE
     \/ /\ worker = "none"
        /\ "worker_create" \in Failures
        /\ claim_lost' = TRUE
        /\ UNCHANGED <<worker, slot, overtaken>>
  /\ UNCHANGED <<request, io_mutex, nvs>>

(* Mutant of ClearBegin: the queue is not emptied. *)
ClearBeginKeepsQueue ==
  /\ io_mutex = "free"
  /\ wanted' = Unclaimed
  /\ io_mutex' = "clear"
  /\ overtaken' = (worker = "take")
  /\ claim_lost' = FALSE
  /\ UNCHANGED <<slot, worker, request, nvs>>

(* clear(), up to the erase.  It waits for the mutex. *)
ClearBegin ==
  /\ io_mutex = "free"
  /\ wanted' = Unclaimed
  /\ \/ /\ io_mutex' = "clear"
        /\ slot' = {}
        /\ overtaken' = (worker = "take")
        /\ claim_lost' = FALSE
     \/ /\ worker = "none"
        /\ "mutex_create" \in Failures
        /\ claim_lost' = TRUE
        /\ UNCHANGED <<io_mutex, slot, overtaken>>
  /\ UNCHANGED <<worker, request, nvs>>

(* nvs_open, nvs_erase_all, nvs_commit, and the mutex is given back; a     *)
(* failed erase may have removed some of the keys.                         *)
ClearErase ==
  /\ io_mutex = "clear"
  /\ io_mutex' = "free"
  /\ \/ nvs' = Unclaimed /\ UNCHANGED claim_lost
     \/ /\ "nvs" \in Failures
        /\ nvs' \in { [counters |-> c, claimed |-> d] :
                        c \in {nvs.counters, FALSE}, d \in {nvs.claimed, FALSE} }
        /\ claim_lost' = TRUE
  /\ UNCHANGED <<slot, worker, request, wanted, overtaken>>

-----------------------------------------------------------------------------
(***************************************************************************)
(* worker(): the request leaves the queue before the mutex is taken.       *)
(***************************************************************************)
WorkerReceive ==
  /\ worker = "receive"
  /\ \E s \in slot : request' = s
  /\ slot' = {}
  /\ worker' = "take"
  /\ UNCHANGED <<io_mutex, nvs, wanted, claim_lost, overtaken>>

WorkerTake ==
  /\ worker = "take"
  /\ io_mutex = "free"
  /\ io_mutex' = "worker"
  /\ worker' = "counters"
  /\ UNCHANGED <<slot, request, nvs, wanted, claim_lost, overtaken>>

(* write_now ends early and its caller only logs it. *)
WriteFails ==
  /\ "nvs" \in Failures
  /\ worker' = "receive"
  /\ io_mutex' = "free"
  /\ claim_lost' = (claim_lost \/ slot = {})

(* write_now: nvs_open and the keys attempts, lock_level and lock_ms.  If  *)
(* a call fails some of them are written: any that was not zero may be     *)
(* zero now, and the other way round.                                      *)
WriteCounters ==
  /\ worker = "counters"
  /\ \/ /\ nvs' = [nvs EXCEPT !.counters = request.counters]
        /\ worker' = "claimed"
        /\ UNCHANGED <<io_mutex, claim_lost>>
     \/ /\ WriteFails
        /\ \E c \in {nvs.counters, request.counters, FALSE} : nvs' = [nvs EXCEPT !.counters = c]
  /\ UNCHANGED <<slot, request, wanted, overtaken>>

(* write_now: the key claimed and nvs_commit; the mutex is given back. *)
WriteClaimed ==
  /\ worker = "claimed"
  /\ \/ /\ nvs' = [nvs EXCEPT !.claimed = request.claimed]
        /\ worker' = "receive"
        /\ io_mutex' = "free"
        /\ claim_lost' = (claim_lost /\ request # wanted)
     \/ WriteFails /\ nvs' \in {nvs, [nvs EXCEPT !.claimed = request.claimed]}
  /\ UNCHANGED <<slot, request, wanted, overtaken>>

(* A reset: the queue, the worker and the mutex are gone; what is in NVS   *)
(* is what the next boot loads.                                            *)
ClaimPowerLoss ==
  /\ "power" \in Failures
  /\ slot' = {} /\ worker' = "none" /\ request' = Unclaimed /\ io_mutex' = "free"
  /\ wanted' = nvs
  /\ claim_lost' = FALSE /\ overtaken' = FALSE
  /\ UNCHANGED nvs

Call == (\E state \in ClaimStates : Save(state)) \/ ClearBegin

Worker == WorkerReceive \/ WorkerTake \/ WriteCounters \/ WriteClaimed

Next == Call \/ ClearErase \/ Worker \/ ClaimPowerLoss

Spec == Init /\ [][Next]_claimVars

-----------------------------------------------------------------------------
(* Nothing is queued, being written or being erased. *)
ClaimSettled == slot = {} /\ worker \in {"none", "receive"} /\ io_mutex = "free"

(***************************************************************************)
(* What the documents say of clear(): once the namespace is erased and     *)
(* committed the device is unclaimed.  In full: at rest NVS holds the      *)
(* state that was asked for last, by save() or by clear(), unless a call   *)
(* failed.                                                                 *)
(***************************************************************************)
ClearIsFinal ==
  ClaimSettled /\ ~claim_lost => nvs = wanted

=============================================================================
