--------------------------- MODULE ClaimLifecycle ---------------------------
(***************************************************************************)
(* Ownership of the device: the claim window and its session, the claimed  *)
(* flag and the factory reset.  RhophiClaimGatt serves the clients and     *)
(* guards RhophiClaimProtocol with a mutex; MatterNode drives both from    *)
(* three tasks:                                                            *)
(*                                                                         *)
(*   the switch task, for the two long presses of the button;              *)
(*   the CHIP task, for the events of the Matter stack and for scheduled   *)
(*   work, from one queue in order;                                        *)
(*   the NimBLE host task, for the accesses of the BLE clients;            *)
(*                                                                         *)
(* and the worker of the claim store (NvsClaimStateStore, instantiated)    *)
(* writes the flag.  A method of RhophiClaimGatt is one step, since it     *)
(* runs under the mutex, except factory_reset, which waits for the store   *)
(* with the mutex held.                                                    *)
(***************************************************************************)
EXTENDS RhophiClaimProtocol

CONSTANTS
  Connections,    \* BLE connection handles
  NoConnection,   \* kNoConnection
  Inputs,         \* what the outside does in this instance
  MatterTimeout,  \* kCommissioningWindowTimeout, in ticks
  MaxEvents,      \* bound: events and work items in the CHIP queue
  Failures        \* the external calls that may fail, and "power"

ASSUME LifecycleAssumption ==
  /\ NoConnection \notin Connections
  /\ Inputs \subseteq {"press", "reset", "commission", "matter", "ble", "time"}
  /\ MatterTimeout \in Nat \ {0} /\ MaxEvents \in Nat
  /\ Duration + MatterTimeout < TimeModulus \div 2
  /\ Failures \subseteq STRING

VARIABLES
  up,              \* started_
  claim_ready,     \* claim_ready_
  proto,           \* claim_protocol_
  conn,            \* claim_connection_handle_
  response,        \* response_: the connection it was computed for, or NoConnection
  response_valid,  \* response_valid_
  switch,          \* the switch task in a long press: "idle", "schedule", "cancel",
                   \* "clear", "erase", "matter_reset"
  chipq,           \* the event queue of the CHIP task
  matter_open,     \* the commissioning window of the stack is open
  matter_left,     \* ticks until it closes
  fabric,          \* FabricCount() is not 0
  age,             \* history: ticks since the claim window was opened, up to Duration
  slot, worker, request, io_mutex, nvs, wanted, claim_lost, overtaken

Store == INSTANCE NvsClaimStateStore

gattVars   == <<proto, conn, response, response_valid, age>>
matterVars == <<matter_open, matter_left, fabric>>
claimVars  == <<slot, worker, request, io_mutex, nvs, wanted, claim_lost, overtaken>>
bootVars   == <<up, claim_ready>>
vars == <<bootVars, gattVars, switch, chipq, matterVars, claimVars>>

-----------------------------------------------------------------------------
(* RAM and stack at a reset. *)
RamInit ==
  /\ up = FALSE /\ claim_ready = FALSE
  /\ proto = Initialized(FALSE)
  /\ conn = NoConnection /\ response = NoConnection /\ response_valid = FALSE
  /\ switch = "idle" /\ chipq = <<>>
  /\ matter_open = FALSE /\ matter_left = 0 /\ age = Duration

(* A device as its last boot left it, with or without an owner. *)
Init ==
  /\ RamInit
  /\ fabric \in BOOLEAN
  /\ Store!Init

(***************************************************************************)
(* RhophiClaimGatt, under its mutex.                                       *)
(***************************************************************************)
(* The switch task holds the mutex while the store clears. *)
MutexFree == switch \notin {"clear", "erase"}

(* Mutant of clear_session_locked: the response stays readable. *)
clear_session_keeps_response ==
  conn' = NoConnection /\ UNCHANGED <<response, response_valid>>

clear_session_locked ==
  conn' = NoConnection /\ response' = NoConnection /\ response_valid' = FALSE

GattOpenWindow ==
  /\ clear_session_locked
  /\ proto' = open_window(proto)
  /\ age' = 0

(* No nonce could be drawn: an open window stays as it was. *)
GattOpenFails ==
  /\ "random" \in Failures
  /\ clear_session_locked
  /\ UNCHANGED <<proto, age>>

GattCancel ==
  /\ clear_session_locked
  /\ proto' = close(proto)
  /\ UNCHANGED age

GattRelease == clear_session_locked /\ UNCHANGED <<proto, age>>

(* Mutant of GattMarkCommissioned: persist_state is not called. *)
GattMarkCommissionedUnsaved ==
  /\ proto' = mark_commissioned(proto)
  /\ clear_session_locked
  /\ UNCHANGED <<age, claimVars>>

(* The flag is saved before the session is cleared; a failed save is only logged. *)
GattMarkCommissioned ==
  /\ proto' = mark_commissioned(proto)
  /\ Store!Save([counters |-> FALSE, claimed |-> TRUE])
  /\ clear_session_locked
  /\ UNCHANGED age

(* factory_reset, up to the call of state_store_.clear(). *)
GattFactoryReset ==
  /\ clear_session_locked
  /\ proto' = factory_reset(proto)
  /\ UNCHANGED age

(***************************************************************************)
(* The accesses of a BLE client.  They do not wait for started_.           *)
(***************************************************************************)
Client(c) == up /\ claim_ready /\ MutexFree /\ c \in Connections

(* An access that only looks at the window, and so notices its expiry. *)
LookAtWindow(c) ==
  /\ Client(c)
  /\ proto' = is_active(proto)
  /\ UNCHANGED <<conn, response, response_valid, age, bootVars, switch, chipq, matterVars,
                 claimVars>>

ReadIdentity(c) == LookAtWindow(c)

(* read_state, and write_identify, which then lets the pixel shine. *)
ReadState(c) == LookAtWindow(c)

(* write_challenge by a connection that has, or now gets, the session. *)
WriteChallenge(c, challenge) ==
  /\ Client(c)
  /\ conn \in {NoConnection, c}
  /\ conn' = c
  /\ LET p == is_active(proto) IN
       \/ /\ MayAnswer(p, challenge)
          /\ proto' = Answered(p, challenge)
          /\ response' = c /\ response_valid' = TRUE
       \/ /\ ~MayAnswer(p, challenge) \/ Failures \cap {"hmac", "random"} # {}
          /\ proto' = p
          /\ response' = NoConnection /\ response_valid' = FALSE
  /\ UNCHANGED <<age, bootVars, switch, chipq, matterVars, claimVars>>

WriteCancel(c) ==
  /\ Client(c)
  /\ conn = c
  /\ GattCancel
  /\ UNCHANGED <<bootVars, switch, chipq, matterVars, claimVars>>

(* What read_response gives to c. *)
Readable(c) == conn = c /\ response_valid

-----------------------------------------------------------------------------
(***************************************************************************)
(* The switch task: open_commissioning_window and factory_reset.           *)
(***************************************************************************)
CommissioningPress ==
  /\ "press" \in Inputs
  /\ up /\ claim_ready /\ switch = "idle"
  /\ \/ GattOpenWindow /\ switch' = "schedule"
     \/ GattOpenFails /\ UNCHANGED switch
  /\ UNCHANGED <<bootVars, chipq, matterVars, claimVars>>

PressSchedule ==
  /\ switch = "schedule"
  /\ \/ /\ Len(chipq) < MaxEvents
        /\ chipq' = Append(chipq, "open_work")
        /\ switch' = "idle"
     \/ /\ "schedule_work" \in Failures
        /\ switch' = "cancel"
        /\ UNCHANGED chipq
  /\ UNCHANGED <<bootVars, gattVars, matterVars, claimVars>>

PressCancel ==
  /\ switch = "cancel"
  /\ GattCancel
  /\ switch' = "idle"
  /\ UNCHANGED <<bootVars, chipq, matterVars, claimVars>>

(* Without a claim service only the stack is reset. *)
ResetPress ==
  /\ "reset" \in Inputs
  /\ up /\ switch = "idle"
  /\ \/ claim_ready /\ GattFactoryReset /\ switch' = "clear"
     \/ ~claim_ready /\ UNCHANGED gattVars /\ switch' = "matter_reset"
  /\ UNCHANGED <<bootVars, chipq, matterVars, claimVars>>

(* state_store_.clear(), with the mutex of the GATT service held. *)
ResetClear ==
  /\ switch = "clear"
  /\ Store!ClearBegin
  /\ switch' = IF io_mutex' = "clear" THEN "erase" ELSE "idle"
  /\ UNCHANGED <<bootVars, gattVars, chipq, matterVars>>

(* A clear that failed ends the factory reset with io_error. *)
ResetErase ==
  /\ switch = "erase"
  /\ Store!ClearErase
  /\ switch' = IF claim_lost' THEN "idle" ELSE "matter_reset"
  /\ UNCHANGED <<bootVars, gattVars, chipq, matterVars>>

(* esp_matter::factory_reset schedules the reset in the CHIP task. *)
MatterReset ==
  /\ switch = "matter_reset"
  /\ \/ /\ Len(chipq) < MaxEvents
        /\ chipq' = Append(chipq, "factory_reset")
     \/ "matter_reset" \in Failures /\ UNCHANGED chipq
  /\ switch' = "idle"
  /\ UNCHANGED <<bootVars, gattVars, matterVars, claimVars>>

-----------------------------------------------------------------------------
(***************************************************************************)
(* The CHIP task takes events and work items in order.                     *)
(***************************************************************************)
Dispatch(item) == chipq # <<>> /\ Head(chipq) = item

(* device_event_callback. *)
WindowOpened ==
  /\ Dispatch("opened") /\ MutexFree
  /\ IF claim_ready /\ ~fabric
       THEN GattOpenWindow \/ GattOpenFails
       ELSE UNCHANGED gattVars
  /\ chipq' = Tail(chipq)
  /\ UNCHANGED <<bootVars, switch, matterVars, claimVars>>

WindowClosed ==
  /\ Dispatch("closed") /\ MutexFree
  /\ IF claim_ready THEN GattCancel ELSE UNCHANGED gattVars
  /\ chipq' = Tail(chipq)
  /\ UNCHANGED <<bootVars, switch, matterVars, claimVars>>

CommissioningComplete ==
  /\ Dispatch("complete") /\ MutexFree
  /\ IF claim_ready
       THEN GattMarkCommissioned
       ELSE UNCHANGED <<gattVars, claimVars>>
  /\ chipq' = Tail(chipq)
  /\ UNCHANGED <<bootVars, switch, matterVars>>

(* kFailSafeTimerExpired and kCHIPoBLEConnectionClosed. *)
SessionReleased ==
  /\ Dispatch("released") /\ MutexFree
  /\ IF claim_ready THEN GattRelease ELSE UNCHANGED gattVars
  /\ chipq' = Tail(chipq)
  /\ UNCHANGED <<bootVars, switch, matterVars, claimVars>>

(* Mutant of open_commissioning_work: a refused window leaves the claim open. *)
open_commissioning_work_keeps_claim ==
  /\ Dispatch("open_work")
  /\ \/ /\ ~matter_open
        /\ matter_open' = TRUE /\ matter_left' = MatterTimeout
        /\ chipq' = Append(Tail(chipq), "opened")
     \/ /\ matter_open \/ "open_window" \in Failures
        /\ chipq' = Tail(chipq)
        /\ UNCHANGED <<matter_open, matter_left>>
  /\ UNCHANGED <<gattVars, fabric, bootVars, switch, claimVars>>

open_commissioning_work ==
  /\ Dispatch("open_work")
  /\ \/ /\ matter_open
        /\ chipq' = Tail(chipq)
        /\ UNCHANGED <<gattVars, matter_open, matter_left>>
     \/ /\ ~matter_open
        /\ matter_open' = TRUE /\ matter_left' = MatterTimeout
        /\ chipq' = Append(Tail(chipq), "opened")
        /\ UNCHANGED gattVars
     \/ /\ ~matter_open /\ "open_window" \in Failures
        /\ MutexFree /\ GattCancel
        /\ chipq' = Tail(chipq)
        /\ UNCHANGED <<matter_open, matter_left>>
  /\ UNCHANGED <<fabric, bootVars, switch, claimVars>>

(* A reset: RAM is gone. *)
Restart ==
  /\ up' = FALSE /\ claim_ready' = FALSE
  /\ proto' = Initialized(FALSE)
  /\ conn' = NoConnection /\ response' = NoConnection /\ response_valid' = FALSE
  /\ switch' = "idle" /\ chipq' = <<>>
  /\ matter_open' = FALSE /\ matter_left' = 0 /\ age' = Duration
  /\ slot' = {} /\ worker' = "none" /\ request' = Store!Unclaimed /\ io_mutex' = "free"
  /\ wanted' = nvs /\ claim_lost' = FALSE /\ overtaken' = FALSE
  /\ UNCHANGED nvs

(* The stack erases its fabrics and restarts the chip. *)
FactoryReset ==
  /\ Dispatch("factory_reset")
  /\ Restart
  /\ fabric' = FALSE

PowerLoss ==
  /\ "power" \in Failures
  /\ Restart
  /\ UNCHANGED fabric

-----------------------------------------------------------------------------
(***************************************************************************)
(* MatterNode::start with RhophiClaimProtocol::initialize: legacy counters *)
(* are zeroed in the store; whatever fails, the node starts without claim. *)
(* Events that arrive before started_ is set do not look at it, so that    *)
(* start() is one step.                                                    *)
(***************************************************************************)
Start ==
  /\ ~up
  /\ up' = TRUE
  /\ \/ /\ claim_ready' = TRUE
        /\ proto' = Initialized(nvs.claimed)
        /\ IF nvs.counters
             THEN Store!Save([nvs EXCEPT !.counters = FALSE]) /\ ~claim_lost'
             ELSE UNCHANGED claimVars
     \/ /\ \/ Failures \cap {"material", "nvs"} # {}
           \/ "gatt_register" \in Failures /\ ~nvs.counters
        /\ UNCHANGED <<claim_ready, proto, claimVars>>
     \/ /\ nvs.counters
        /\ Store!Save([nvs EXCEPT !.counters = FALSE])
        /\ claim_lost' \/ "gatt_register" \in Failures
        /\ UNCHANGED <<claim_ready, proto>>
  /\ UNCHANGED <<conn, response, response_valid, age, switch, chipq, matterVars>>

(***************************************************************************)
(* The Matter stack on its own.                                            *)
(***************************************************************************)
Post(items) == Len(chipq) + Len(items) <= MaxEvents /\ chipq' = chipq \o items

(* At boot without a fabric, or on request of an administrator. *)
MatterOpens ==
  /\ "matter" \in Inputs
  /\ up /\ ~matter_open
  /\ matter_open' = TRUE /\ matter_left' = MatterTimeout
  /\ Post(<<"opened">>)
  /\ UNCHANGED <<bootVars, gattVars, switch, fabric, claimVars>>

(* By its timeout at the latest. *)
MatterCloses ==
  /\ matter_open
  /\ matter_open' = FALSE /\ matter_left' = 0
  /\ Post(<<"closed">>)
  /\ UNCHANGED <<bootVars, gattVars, switch, fabric, claimVars>>

Commissioned ==
  /\ "commission" \in Inputs
  /\ matter_open
  /\ matter_open' = FALSE /\ matter_left' = 0
  /\ fabric' = TRUE
  /\ Post(<<"complete", "closed">>)
  /\ UNCHANGED <<bootVars, gattVars, switch, claimVars>>

(* kFabricRemoved only changes the colour of the pixel. *)
FabricRemoved ==
  /\ "matter" \in Inputs
  /\ up /\ fabric
  /\ fabric' = FALSE
  /\ UNCHANGED <<bootVars, gattVars, switch, chipq, matter_open, matter_left, claimVars>>

(* The fail-safe timer or a BLE connection ends. *)
SessionEnds ==
  /\ "ble" \in Inputs
  /\ up
  /\ Post(<<"released">>)
  /\ UNCHANGED <<bootVars, gattVars, switch, matterVars, claimVars>>

WorkerStep ==
  /\ Store!Worker
  /\ UNCHANGED <<bootVars, gattVars, switch, chipq, matterVars>>

(* A tick is long: presses and queued events are dealt with in less. *)
Tick ==
  /\ "time" \in Inputs
  /\ switch = "idle" /\ chipq = <<>>
  /\ matter_open => matter_left > 0
  /\ matter_left' = IF matter_open THEN matter_left - 1 ELSE 0
  /\ proto' = Later(proto)
  /\ age' = IF age < Duration THEN age + 1 ELSE age
  /\ UNCHANGED <<bootVars, conn, response, response_valid, switch, chipq, matter_open,
                 fabric, claimVars>>

-----------------------------------------------------------------------------
SwitchStep == PressSchedule \/ PressCancel \/ ResetClear \/ ResetErase \/ MatterReset

ChipStep == \/ WindowOpened \/ WindowClosed \/ CommissioningComplete \/ SessionReleased
            \/ open_commissioning_work \/ FactoryReset

ClientStep ==
  \E c \in Connections :
    \/ ReadIdentity(c) \/ ReadState(c)
    \/ WriteCancel(c)
    \/ \E challenge \in Challenges : WriteChallenge(c, challenge)

StackStep == MatterOpens \/ MatterCloses \/ Commissioned \/ FabricRemoved \/ SessionEnds

Next ==
  \/ Start
  \/ CommissioningPress \/ ResetPress
  \/ SwitchStep
  \/ ChipStep
  \/ ClientStep
  \/ StackStep
  \/ WorkerStep
  \/ Tick
  \/ PowerLoss

Spec == Init /\ [][Next]_vars

(***************************************************************************)
(* The tasks run; nobody has to press, connect or commission.              *)
(***************************************************************************)
FairSpec ==
  Spec /\ WF_vars(SwitchStep) /\ WF_vars(ChipStep) /\ WF_vars(WorkerStep)

-----------------------------------------------------------------------------
(***************************************************************************)
(* respond() rotates the nonce and every way of opening a window draws     *)
(* one: no proof is ever computed over a nonce that an earlier proof used  *)
(* or over the zeros that close() leaves.                                  *)
(***************************************************************************)
NonceOnOfferIsFresh == proto.active => proto.nonce = "fresh"

(***************************************************************************)
(* A proof is computed, and notified to the client that asked, only within *)
(* Duration of the last open_window, although expiry is noticed lazily,    *)
(* the difference of the two times wraps and two tasks open and close the  *)
(* window.  How long it can be read afterwards is another matter: see      *)
(* ExpiryClearsProof.                                                      *)
(***************************************************************************)
ProofComputedInWindow ==
  [][\A c \in Connections, challenge \in Challenges :
       WriteChallenge(c, challenge) /\ response_valid' => age < Duration]_vars

(***************************************************************************)
(* Once the tasks are done with a press or an event, an open claim window  *)
(* has an open Matter window over it, which will close it: the window the  *)
(* button opens ahead of the stack is taken back on every failure, and a   *)
(* late event of an earlier Matter window leaves none behind.              *)
(***************************************************************************)
NoOrphanWindow == switch = "idle" /\ chipq = <<>> /\ proto.active => matter_open

(***************************************************************************)
(* A client reads only a proof that was computed for it, and no proof      *)
(* outlives its session, whichever task ended the session.                 *)
(***************************************************************************)
ProofHasSession ==
  /\ \A c \in Connections : Readable(c) => response = c
  /\ response_valid => conn # NoConnection

(***************************************************************************)
(* What rhophi-claim-protocol.md says of the end of a window: expiry, like *)
(* a cancel, clears the proof.  In full: once the window is closed nobody  *)
(* reads a proof.  (An expiry that no access has noticed yet is excused.)  *)
(***************************************************************************)
ExpiryClearsProof == \A c \in Connections : Readable(c) => proto.active

(***************************************************************************)
(* At rest a reset brings back the claimed flag that the clients read,     *)
(* after any order of commissionings, factory resets and failed calls.     *)
(* Excused are a lost write and the clear() that was overtaken.            *)
(***************************************************************************)
ClaimSurvives ==
  /\ claim_ready /\ switch = "idle" /\ Store!ClaimSettled
  /\ ~claim_lost /\ ~overtaken
  => nvs.claimed = proto.claimed

(***************************************************************************)
(* The flags a client reads in the identity are those of the window and of *)
(* the claimed flag as the last method left them: each method that changes *)
(* one of the two refreshes the flags after its last assignment.           *)
(***************************************************************************)
FlagsAreCurrent ==
  proto.flags = [commissionable |-> proto.active, claimed |-> proto.claimed]

(***************************************************************************)
(* A completed commissioning reaches NVS unless a factory reset takes it   *)
(* back or a call fails: mark_commissioned only queues the flag for the    *)
(* worker, over an older request that may still be in the queue.  (Each    *)
(* further commissioning may replace a request whose write just failed,    *)
(* hence the premise.)                                                     *)
(***************************************************************************)
CommissioningStops == <>[][~CommissioningComplete]_vars

ClaimReachesNvs ==
  CommissioningStops => (proto.claimed ~> (nvs.claimed \/ ~proto.claimed \/ claim_lost))

(***************************************************************************)
(* As long as time passes every claim window ends, also one that nobody    *)
(* looks at, that is opened again before its end, or that the button opens *)
(* while the stack closes or refuses a Matter window.                      *)
(***************************************************************************)
WindowEnds == []<><<Tick>>_vars => (proto.active ~> ~proto.active)

(***************************************************************************)
(* What 03-rhophi-claim-gatt.md says of the factory reset: it erases the   *)
(* claim state.  Excused here is a reset whose clear() was overtaken or is *)
(* still under way because the button was held a second time.              *)
(***************************************************************************)
ResetErasesClaim ==
  [][FactoryReset /\ switch = "idle" /\ ~overtaken => ~nvs'.claimed]_vars

=============================================================================
