------------------------- MODULE NvsBinaryStateStore -------------------------
(***************************************************************************)
(* The write-behind store of the relay state                               *)
(* (adapters/NvsBinaryStateStore.cpp).  save() runs in the switch task and *)
(* only remembers the value and re-arms a one-shot esp_timer; the timer's  *)
(* callback runs in the esp_timer task and writes the value to NVS, key by *)
(* key.  The two tasks share pending_on_ and the timer.  Power may be lost *)
(* between any two steps.                                                  *)
(*                                                                         *)
(* save() is called here with arbitrary values: this module is what the    *)
(* store promises to any single caller.                                    *)
(***************************************************************************)

CONSTANT Failures   \* the external calls that may fail, and "power"

ASSUME StoreFailuresAssumption == Failures \subseteq STRING

VARIABLES
  timer,        \* timer_: "none" (nullptr), "stopped" or "armed"
  pending_on,   \* pending_on_, the value the next flush writes
  save_pc,      \* where save() is: "idle", "stop" or "start"
  flush_pc,     \* where flush_timer_callback is: "idle", "load", "schema", "relay"
  flush_on,     \* the argument of commit(), read from pending_on_
  nvs_schema,   \* the key "schema" is present with kSchemaVersion
  nvs_relay,    \* the key "relay_on": "absent", "off" or "on"
  store_lost    \* history: a failed call left pending_on_ without a flush to come

storeVars == <<timer, pending_on, save_pc, flush_pc, flush_on,
               nvs_schema, nvs_relay, store_lost>>

(* The byte commit() stores for a boolean, and the states a byte may have. *)
Stored(on) == IF on THEN "on" ELSE "off"

StoreTypeOK ==
  /\ timer \in {"none", "stopped", "armed"}
  /\ pending_on \in BOOLEAN
  /\ save_pc \in {"idle", "stop", "start"}
  /\ flush_pc \in {"idle", "load", "schema", "relay"}
  /\ flush_on \in BOOLEAN
  /\ nvs_schema \in BOOLEAN
  /\ nvs_relay \in {"absent", "off", "on"}
  /\ store_lost \in BOOLEAN

(* The store object and its timer as the linker and a reset leave them. *)
StoreRamInit ==
  /\ timer = "none"
  /\ pending_on = FALSE
  /\ save_pc = "idle"
  /\ flush_pc = "idle"
  /\ flush_on = FALSE
  /\ store_lost = FALSE

(* A device whose NVS partition has never been written. *)
Init ==
  /\ StoreRamInit
  /\ nvs_schema = FALSE
  /\ nvs_relay = "absent"

-----------------------------------------------------------------------------
(* load(): both keys must be there. *)
LoadOk == nvs_schema /\ nvs_relay # "absent"
Loaded == nvs_relay = "on"

(***************************************************************************)
(* save(): three steps, because the flush of an earlier save may run       *)
(* between them.                                                           *)
(***************************************************************************)
(* The timer is created on first use; if that fails nothing is remembered. *)
SaveBegin(on) ==
  /\ save_pc = "idle"
  /\ \/ /\ timer' = IF timer = "none" THEN "stopped" ELSE timer
        /\ pending_on' = on
        /\ save_pc' = "stop"
        /\ UNCHANGED store_lost
     \/ /\ timer = "none"
        /\ "timer_create" \in Failures
        /\ store_lost' = TRUE
        /\ UNCHANGED <<timer, pending_on, save_pc>>
  /\ UNCHANGED <<flush_pc, flush_on, nvs_schema, nvs_relay>>

(* Mutant of SaveStop: ESP_ERR_INVALID_STATE of an idle timer ends save(). *)
SaveStopIdleFails ==
  /\ save_pc = "stop"
  /\ save_pc' = IF timer = "armed" THEN "start" ELSE "idle"
  /\ timer' = "stopped"
  /\ UNCHANGED <<pending_on, flush_pc, flush_on, nvs_schema, nvs_relay, store_lost>>

(* esp_timer_stop: stopping a timer that is not armed is not an error. *)
SaveStop ==
  /\ save_pc = "stop"
  /\ \/ /\ timer' = "stopped"
        /\ save_pc' = "start"
        /\ UNCHANGED store_lost
     \/ /\ "timer_stop" \in Failures
        /\ save_pc' = "idle"
        /\ store_lost' = TRUE
        /\ UNCHANGED timer
  /\ UNCHANGED <<pending_on, flush_pc, flush_on, nvs_schema, nvs_relay>>

(* esp_timer_start_once: the flush is due kFlushDelayUs from now. *)
SaveStart ==
  /\ save_pc = "start"
  /\ save_pc' = "idle"
  /\ \/ /\ timer' = "armed"
        /\ store_lost' = FALSE
     \/ /\ "timer_start" \in Failures
        /\ store_lost' = TRUE
        /\ UNCHANGED timer
  /\ UNCHANGED <<pending_on, flush_pc, flush_on, nvs_schema, nvs_relay>>

-----------------------------------------------------------------------------
(***************************************************************************)
(* flush_timer_callback, in the esp_timer task.  A one-shot timer is       *)
(* disarmed before its callback runs, and callbacks run one at a time.     *)
(***************************************************************************)
TimerFires ==
  /\ timer = "armed"
  /\ flush_pc = "idle"
  /\ timer' = "stopped"
  /\ flush_pc' = "load"
  /\ UNCHANGED <<pending_on, save_pc, flush_on, nvs_schema, nvs_relay, store_lost>>

(* A failed NVS call ends commit(); the caller only logs it. *)
CommitFails ==
  /\ "nvs" \in Failures
  /\ flush_pc' = "idle"
  /\ store_lost' = TRUE

(* pending_on_.load() and nvs_open. *)
FlushLoad ==
  /\ flush_pc = "load"
  /\ flush_on' = pending_on
  /\ \/ flush_pc' = "schema" /\ UNCHANGED store_lost
     \/ CommitFails
  /\ UNCHANGED <<timer, pending_on, save_pc, nvs_schema, nvs_relay>>

(* Mutant of FlushSchema: the namespace is erased before it is written. *)
FlushSchemaErases ==
  /\ flush_pc = "schema"
  /\ \/ /\ nvs_schema' = TRUE
        /\ nvs_relay' = "absent"
        /\ flush_pc' = "relay"
        /\ UNCHANGED store_lost
     \/ CommitFails /\ UNCHANGED <<nvs_schema, nvs_relay>>
  /\ UNCHANGED <<timer, pending_on, save_pc, flush_on>>

FlushSchema ==
  /\ flush_pc = "schema"
  /\ \/ /\ nvs_schema' = TRUE
        /\ flush_pc' = "relay"
        /\ UNCHANGED store_lost
     \/ CommitFails /\ UNCHANGED nvs_schema
  /\ UNCHANGED <<timer, pending_on, save_pc, flush_on, nvs_relay>>

(* nvs_set_u8 of the relay key and nvs_commit. *)
FlushRelay ==
  /\ flush_pc = "relay"
  /\ \/ /\ nvs_relay' = Stored(flush_on)
        /\ flush_pc' = "idle"
        /\ store_lost' = (store_lost /\ flush_on # pending_on)
     \/ CommitFails /\ nvs_relay' \in {nvs_relay, Stored(flush_on)}
  /\ UNCHANGED <<timer, pending_on, save_pc, flush_on, nvs_schema>>

(* A reset: what is in RAM is gone, what NVS holds stays. *)
StorePowerLoss ==
  /\ "power" \in Failures
  /\ timer' = "none"
  /\ pending_on' = FALSE
  /\ save_pc' = "idle"
  /\ flush_pc' = "idle"
  /\ flush_on' = FALSE
  /\ store_lost' = FALSE
  /\ UNCHANGED <<nvs_schema, nvs_relay>>

Save == (\E on \in BOOLEAN : SaveBegin(on)) \/ SaveStop \/ SaveStart

Flush == TimerFires \/ FlushLoad \/ FlushSchema \/ FlushRelay

Next == Save \/ Flush \/ StorePowerLoss

Spec == Init /\ [][Next]_storeVars

(***************************************************************************)
(* The esp_timer task and the body of save() keep running; nobody has to   *)
(* call save().                                                            *)
(***************************************************************************)
FlushFairness == WF_storeVars(Flush) /\ WF_storeVars(SaveStop \/ SaveStart)

-----------------------------------------------------------------------------
(***************************************************************************)
(* Settled: no save is under way and no flush is armed or running.         *)
(***************************************************************************)
Settled == timer # "none" /\ save_pc = "idle" /\ timer # "armed" /\ flush_pc = "idle"

(***************************************************************************)
(* Whenever the store comes to rest after a save, what load() would return *)
(* after a reset is the last value saved, whatever the order in which      *)
(* saves, timer expiry and the key-by-key commit interleaved; the only     *)
(* excuse is a timer or NVS call that failed and has not been made good by *)
(* a later save.                                                           *)
(***************************************************************************)
SettledIsDurable ==
  Settled /\ ~store_lost => LoadOk /\ Loaded = pending_on

(***************************************************************************)
(* Once callers stop saving, the last saved value reaches NVS, unless a    *)
(* call failed.  A caller that saves for ever more often than every 500 ms *)
(* postpones the flush for ever, hence the premise.                        *)
(***************************************************************************)
SavesStop == <>[][\A on \in BOOLEAN : ~SaveBegin(on)]_storeVars

EventuallyDurable ==
  SavesStop => <>[](timer # "none" /\ ~store_lost => LoadOk /\ Loaded = pending_on)

=============================================================================
