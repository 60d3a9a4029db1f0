# TLA+ verification of the smart device firmware

This directory models the firmware under `src/` in TLA+. TLC checks the models
on small instances, and TLAPS proves the properties that matter most for every
value of the constants.

The product is a mains switch on an ESP32-C6: a relay and an LED, a push button,
a Matter node (on/off over the network) and a claim protocol over BLE GATT by
which an owner binds the device. The code is C++ on FreeRTOS and ESP-IDF. Beside
the product, `components/middleware` holds a set of portable services that the
product does not use yet.

1. [Inventory](#1-inventory)
2. [Modules and how they correspond to the code](#2-modules-and-how-they-correspond-to-the-code)
3. [Runs](#3-runs)
4. [Fairness](#4-fairness)
5. [Proofs](#5-proofs)
6. [Findings and observations](#6-findings-and-observations)
7. [What is not modelled](#7-what-is-not-modelled)
8. [Plan](#8-plan)

`PROJECT.json` has the same in machine-readable form: components, runs, the map
from definitions to source lines, one mutant per property, hazards, theorems.

## 1. Inventory

### The product (`src/app`, `src/main`)

Five tasks run on one core, with an interrupt beside them:

| task | runs | priority |
|---|---|---|
| `app_main` | `SmartDevice::start`: restore, start the switch task, start Matter | - |
| `switch_ctrl` | `SwitchRuntime::run`: commands, the button, the application | 5 |
| CHIP | Matter: attribute writes, reports, device events, scheduled work | the stack's |
| NimBLE host | GATT accesses of the claim clients | the stack's |
| `esp_timer` | the flush of the relay store | the SDK's |
| claim worker | writes the claim state to NVS | 3 |

| component | state | operations | speaks with | what is hard |
|---|---|---|---|---|
| `NvsBinaryStateStore` | timer, pending value, two NVS keys | `load`, `save`, flush | switch service, esp_timer | a save while an older flush runs; loss of power between keys; half of stop-and-start failing |
| `BinarySwitchService` | state, two outputs | `restore`, `set`, `toggle` | GPIO, store | an output that refuses a level after the state has changed |
| `SmartDeviceApplication` | the last state told | `initialize`, `on_short_press`, `set_switch` | switch service, observer | duplicate commands |
| `SwitchRuntime` | queue of 8, task | `start`, `post_set_switch`, interrupt, loop | application, Matter node | edges lost to a full queue; blocking without a timeout |
| `ButtonInput` | debouncer | `update`, `is_active` | runtime | late samples near a threshold; wrap of the clock |
| `MatterNode` | `pending_state_`, `started_`, `report_scheduled_`, `applying_report_`, `claim_ready_` | `start`, `on_switch_state_changed`, `report_state`, the two long presses, events | runtime, CHIP, claim GATT | three callers racing for one report; events of an old window; a reset in two halves |
| `RhophiClaimGatt` | session, response | six characteristics, calls of the node | NimBLE, protocol | two tasks ending a session; the order of response and window |
| `RhophiClaimProtocol` | window, nonce, replay cache, flags | `open_window`, `respond`, `mark_commissioned`, `factory_reset`, ... | GATT, claim store | lazy expiry with wrapping time; nonce reuse |
| `NvsClaimStateStore` | queue of one, worker, mutex, NVS | `load`, `save`, `clear`, worker | protocol | a request between queue and mutex when `clear` runs |
| claim platform, board, clock, watchdog, composition root | - | thin calls of the SDK | all | I/O |

What makes the product correct:

- the outputs, the attribute a controller reads and what NVS holds all come to the
  state of the switch, whichever task changed it;
- no press is overlooked, and a press is taken for the gesture the finger made
  (ten seconds is a factory reset);
- a proof of ownership is computed over a fresh nonce, in a window, for the client
  that asked, and read by no other;
- a window always ends; a commissioning reaches NVS; a factory reset erases the claim.

### The services (`src/components/middleware`)

All are single-threaded and polled: what is hard is failing calls, time, limits
and long sequences of calls.

| component | state | operations | correct when |
|---|---|---|---|
| `ConfigService` | records, two flash slots, sequence | `initialize`, `set_*`, `erase`, `commit` | commit is atomic over failing storage and power loss |
| `ProvisioningService` | portal state, attempts, pending credentials | `start`, `stop`, `poll`, `factory_reset` | credentials are stored only after validation; no plaintext stays behind |
| `OtaService` | state, received, outstanding request | `offer`, `poll`, `activate`, `cancel` | only a verified image of the offered manifest is activated |
| `SecurityPolicy` | command roles, credential state | `register_command`, `authorize`, staging, `verify_image` | the latest registration of a command decides |
| `OfflineQueue`, `TelemetryService`, `CommandDispatcher`, `FixedRingBuffer` | ring of 32, sequence, 8 cached responses | `enqueue`, `publish_bool`, `replay_one`, `on_message` | order kept, a redelivered command runs once, no telemetry lost uncounted |
| `NetworkManager`, `Backoff`, `Deadline` | links, retry times, attempts | `add_link`, `set_observer`, `poll` | a link that is down is tried again in time, within its budget; the observer knows the state |
| `TimeSyncService` | quality, request, retry time | `on_connectivity_up`, `poll` | quality never claims more than was received |
| `HealthMonitor` | sources, last reboot request | `add_source`, `check_in`, `poll` | the watchdog is fed only if all mandatory sources are alive; reboots are rare |
| `IndicationService` | a request per source, the frame applied | `request`, `clear`, `poll` | the highest live request is shown |
| `DiagnosticsService` | counters, gauges, a ring of faults | `increment`, `set_gauge`, `record_fault` | counters saturate; the last faults are kept in order |
| `EnvironmentMonitor` | three periods, a command buffer | `run_once` | no buffer overrun; regular telemetry |
| `EventBus`, `EventQueue`, `StateMachine` | subscribers, ring, state | `publish`, `process` | each subscriber gets each event once, in order |
| CRC, byte, JSON, frame, topic and Modbus codecs | - | conversions | round trips; bounds |

The hazards, each at its line and with the properties that would catch it going
wrong, are in `PROJECT.json`.

## 2. Modules and how they correspond to the code

```
NvsBinaryStateStore <--INSTANCE-- SwitchControl          on/off path
                    <--EXTENDS--- NvsBinaryStateStoreHistory
DurableRegister     <--INSTANCE-- NvsBinaryStateStoreHistory   abstract store, refined
ButtonInput         <--EXTENDS--- SwitchRuntime          button and task loop
RhophiClaimProtocol <--EXTENDS--- ClaimLifecycle         window, session, ownership
NvsClaimStateStore  <--INSTANCE-- ClaimLifecycle
ConfigService                                            configuration on two slots
FixedRingBuffer     <--EXTENDS--- Messaging              offline queue, telemetry, commands
                    <--EXTENDS--- EventBus
StoreAndForward     <--INSTANCE-- Messaging              abstract queue, refined
ServiceClock        <--EXTENDS--- NetworkManager, TimeSyncService, HealthMonitor,
                                  IndicationService, ProvisioningService, EnvironmentMonitor
Backoff             <--EXTENDS--- NetworkManager, TimeSyncService
OtaService, SecurityPolicy, JsonCodec, FrameCodec        on their own
MCServices          --EXTENDS-->  ConfigService and all the services and codecs
```

Each `MC*` module extends one or more of these and defines the sets of failures a run
allows; the `.cfg` files give the other constants. `*Proofs` modules hold the
theorems: one for the store, the switch, the runtime, the claim lifecycle and the
configuration each, `TrustProofs` for OTA, security policy and provisioning,
`PolledServicesProofs` for health, environment monitor, time, indication and network,
`MessagingProofs` for messaging, the event bus and the codecs.

Conventions of all modules:

- An action is the code between two accesses to what another task also touches; a
  method under a mutex is one step. The ESP32-C6 has one core, so the steps
  interleave in one order. Where a task is inside a method is in `pc` (or
  `save_pc`, `flush_pc`, `switch`, `worker`).
- Variables have the code's names without the trailing underscore (`next_seq` is
  `sequence_` of the telemetry service). Variables whose
  comment begins with *history* are not in the code; properties refer to them, and no
  guard but the bound of a run does.
- Every call of the SDK that can fail does so only if its name is in `Failures`.
  `"power"` is a reset at any step: RAM is lost, NVS stays.
- A definition whose comment begins with *Mutant of* is a plausible bug used to
  show that a property can fail; no specification refers to it.

**NvsBinaryStateStore** (`adapters/NvsBinaryStateStore.cpp`). `SaveBegin`,
`SaveStop` and `SaveStart` are the three parts of `save()` (create the timer and
store the pending value; `esp_timer_stop`; `esp_timer_start_once`). `TimerFires`,
`FlushLoad`, `FlushSchema` and `FlushRelay` are the callback, one step per NVS key
since a reset may come between them. The 500 ms are abstracted: an armed timer may
fire at any time. `LoadOk` and `Loaded` are `load()`. **NvsBinaryStateStoreHistory** adds
two histories, the values saved since the one in NVS and where the running flush is among
them, and maps the store to **DurableRegister**, which does not know of timers, keys or
commits: a value handed over becomes durable later or never, a boot finds a value that
was handed over, and never one older than an earlier boot could have found.

**SwitchControl** (`SmartDevice.cpp`, `SmartDeviceApplication.cpp`,
`BinarySwitchService.cpp`, `SwitchRuntime.cpp`, the on/off part of `MatterNode.cpp`).
`app_main` runs `Initialize`, `StartRuntime`, `CreateNode`, `StartMatter`,
`SetStarted`; the switch task runs `Receive`, `Poll`, `ShortPress` or
`SampleNothing`, `SaveState`, `Notify`, `CheckStarted`; the CHIP task
`RemoteWrite`, `WriteAttribute` and the parts of `report_state`. All three reach
`schedule_state_report`: `Exchange`, `ScheduleWork`, `Unschedule`. The button is
reduced here to the outcome of `sample_button`. OnOff is a non-volatile attribute,
so `CreateNode` may keep the value the stack stored. `MatterEnabled` is the build
option `SMART_DEVICE_MATTER_NODE`.

**ButtonInput** and **SwitchRuntime** (`ButtonInput.cpp`, `SwitchRuntime.cpp`).
`Updated` and `EventOf` are `update()`. The code only uses distances between
`now_ms` and two stored times, modulo 2^32; the record keeps the distances,
modulo `TimeModulus`. The queue is its length, since every event leads to one
sample. `Tick` is the clock; `MaxLag` bounds how late a due task runs. The contact
either is clean (`MinDwell` between level changes) or bounces at any tick.

**RhophiClaimProtocol** has each method as an operator on a record: `over` is how
far the present time is past the end of the window (a wrapped distance, as the code
computes), `nonce` is whether it is new, used or zero, `replay` is the cache. The
HMAC is opaque. **NvsClaimStateStore** has `Save` (overwrite the one slot), the
worker (take the request, take the mutex, counters, claimed flag) and `clear()`
(mutex and queue, then erase). **ClaimLifecycle** composes the two with
`RhophiClaimGatt` and the claim half of `MatterNode`: accesses of BLE clients, the
two long presses step by step (each later call may fail and is taken back as in the
code), the events of the stack in one queue `chipq` with the scheduled work, and the
worker. The CHIP stack is external: `StackStep` opens and closes its window,
commissions, removes fabrics and ends sessions whenever the code in `src/` allows it.

**ConfigService** (`ConfigService.cpp`). Records are a function of the keys; a slot
is valid or not (header and CRC), with a sequence number. `commit()` is two steps,
`CommitErase` and `CommitWrite`; a write that failed or lost power may have left
nothing or everything valid. `InitializeFrom` takes the set of slots that can be read.

**FixedRingBuffer** has the methods of the ring buffer as operators on its four
members. **StoreAndForward** is the abstract queue: a message is published at once, waits or
is refused; what waits leaves from the front, because it was published or, if the queue is
full, because a record came; an answer pushes nothing out.

**Messaging** (`OfflineQueue.hpp`, `TelemetryService.hpp`, `CommandDispatcher.cpp`).
`PublishTelemetry` is `publish_bool`, `ReplayOne` is `replay_one`. `on_message` is
one action per outcome: `OnCorruptMessage`, `OnRepeatedCommand` (answered from the
cache), `OnDeniedCommand`, `OnUnknownCommand`, `OnCommand`. Each of them ends in
`respond`, which publishes or queues. The transport is external: `publish()` fails
although the message arrived, or because it did not, and any command may come again
at any time. Messages are a sequence number, or an identifier and a status. The history
`acked` is the message that the last step published.

**ServiceClock** is the time of the polled services: `now` is the `now_ms` of the
last call, modulo `TimeModulus`; `PollGaps` is what may pass between two polls.
`Elapsed` is the unsigned difference and `Due` the signed one, as the services
compute them. **Backoff** is the retry policy.

**NetworkManager**: `PollOnline` and `PollOffline` are `poll()` with and without a
link up. `Started` is the set of links one poll starts: those that may, in order, up
to one whose `start()` returns ok or busy. The history `passed` counts for each link
that is due how often each other link was started in its place. **TimeSyncService**: `PollTime` is all of
`poll()`; `SourceAnswers` is the external source, whose answer may belong to a request
that `on_connectivity_up` gave up. **HealthMonitor**: `PollAlive`, `PollDead`; the
watchdog is external and lets no more than `WatchdogTimeout` pass without food, and
`Reset` restarts the clock; sources are added while the clock reads 0, which is what
their initial `last_checkin` means. **IndicationService** and **EnvironmentMonitor**
have an action per method.

**OtaService**: `poll()` is `RequestChunk`, `TakeFails` or `TakeChunk`. An image is a
sequence of blocks, and the digest of an image is the image. The fetcher may answer
any chunk. The state `verifying` is entered and left within one poll.
**SecurityPolicy**: `EntryFor` is where `register_command` writes. **ProvisioningService**:
`poll()` is `PollTimeout`, `NothingTaken`, `ValidationBusy`, `ValidationFails`,
`NotStored` or `Stored`; the configuration is reduced to what `ConfigService` promises
(`CommitIsAtomic`): the credentials' record in RAM and in flash, and other clients
that commit.

**EventBus** has the bus over the queues of its sinks; `pushed` is the loop of
`publish()` over the places of a topic. **JsonCodec** writes an object
with two strings and reads it back; a text is a sequence of character classes, and a
key is one character. **FrameCodec** encodes, damages, cuts short and decodes a frame; the byte
that `encode` does not write holds anything, and a CRC is the bytes it covers.

**MCServices**: these services share no state, so an interleaving of two reaches
nothing new. Each behaviour runs one of them, which the variable `service` names.

## 3. Runs

| run | what it checks | instance | states |
|---|---|---|---|
| `store` | `SettledIsDurable`: at rest NVS has the last value saved. `EventuallyDurable`. `RegisterSpec`: wherever power is lost, between the two keys too, a boot finds a value that was saved and never an older one again | every failure and power loss, 3 values ahead of NVS | 5,354 |
| `switch_report` | `OneReportInFlight`, `ControllerAgrees`, `Converges` | Matter build, queue of 1, failing start, work items and updates | 560,023 |
| `switch_store` | `RebootRestoresState`, `OutputsFollowState` | standalone build, queue of 2, failing outputs, timers and NVS, power loss | 20,248 |
| `button` | `NoLostWakeup`, `DetectedInTime`, `GestureMatchesHold`, `EventuallyDetected` | thresholds 2, 3, 9, 15 ticks, poll 1, lag 1, queue of 2, time modulo 48 | 1,076,621 |
| `claim_session` | `NonceOnOfferIsFresh`, `NoOrphanWindow`, `ProofHasSession`, `ProofComputedInWindow` | 2 connections, 2 challenges, cache of 1, 3 queued events, time modulo 16 | 139,784 |
| `claim_ownership` | `FlagsAreCurrent`, `ClaimSurvives`, `ClaimReachesNvs`, `WindowEnds` | no clients, all failures and power loss, time modulo 10 | 108,389 |
| `services` | the properties of the thirteen services below | see below; symmetry in the identifiers of commands | 983,221 |
| `clear_is_final` | violated: `ClearIsFinal` with no failure at all | - | - |
| `expired_proof` | violated: `ExpiryClearsProof` with no failure at all | - | - |
| `reset_race` | violated: `ResetErasesClaim` with no failure at all | - | - |
| `retry_wrap` | violated: `RetriedInTime` | 1 link, time modulo 16 | - |
| `credentials_size` | violated: `FailedMeansInvalid` | 130 bytes of credentials, values of 64 | - |

What `services` checks, service by service:

| service | property | says |
|---|---|---|
| configuration | `CommitIsAtomic` | a boot finds the last commit, or all of the one under way |
| network manager | `NoLinkStarves` | a link that may start is passed over only for a link before it, and no more often than that has attempts |
| time | `TimeIsKept` | synced means a good answer in the last 24 hours; without a request out, the next is due within six hours |
| health | `FedOnlyIfAlive` | the watchdog is fed only if every mandatory source is in time |
| | `RebootsAreSpaced` | two reboot requests are ten minutes apart, across resets too |
| indication | `TopRequestIsShown` | the highest request that is not over is shown |
| OTA | `OnlyVerifiedBoots` | what is activated is all of a signed image |
| | `NoSessionLeaks` | every way out closes the store's session |
| policy | `LatestRoleDecides` | the latest registration of a command decides |
| provisioning | `CredentialsAreWiped` | passphrases do not outlive the portal |
| | `ProvisionedIsStored` | provisioned means stored, as validated |
| event bus | `EventsOnceInOrder` | each event once and in order |
| environment monitor | `LoopKeepsItsLimits` | the command is the line; telemetry is regular across the wrap |
| messaging | `NothingVanishes` | a telemetry record that neither arrived nor waits was counted as dropped |
| | `HandledOnce` | a command delivered again within the window neither runs nor is answered otherwise |
| | `FifoSpec` | the offline queue implements `StoreAndForward` |
| JSON | `JsonRoundTrip` | strings and numbers are read as written, or refused |
| frames | `FrameRoundTrip` | a frame is decoded as encoded, a damaged or cut one refused |

`switch_report` also checks `TypeOK`, the type invariant of the switch and the store;
`ConfigTypeOK` and `StoreTypeOK` are proved.

Why the bounds are enough:

- *Store and switch*: the state is finite but for the queue. A queue of 1 is full at
  every second input, one of 2 holds a command behind an edge; the theorems of
  section 5 cover every depth. `switch_report` has the
  failures between switch and controller, `switch_store` those between switch and
  NVS, each in the build where they matter; the theorems have all of them together.
  `store` lets 3 values be ahead of NVS: one that a flush carries, one that
  replaced it, and one more. `StoreIsDurableRegister` is for every number.
- *Button*: the thresholds keep the order of 25, 1000, 3000 and 10000 ms and are
  further apart than the sampling slack, so that gestures are told apart; a hold
  goes past the longest threshold; the modulus is more than the largest distance the
  code compares. Whether the contact bounces is chosen in the initial state.
- *Claim*: two connections and two challenges make one client overhear another and
  a challenge fall out of the cache; three queued events hold the events of an old
  and of a new window; the modulus is more than twice the two time-outs, so a
  window nobody looks at comes to the other half of the circle.
- *Config*: a capacity below the number of keys makes the records overflow; four
  commits use each slot twice.
- *Messaging*: three records and any number of answers overflow a queue of 2; three
  identifiers overflow a window of 2, so that a command is forgotten and runs again. The
  bound `FewCommands` keeps the two apart: once there is telemetry, the cache knows one
  command at a time. The theorems have all of them together.
- *Services*: rings, tables and queues have 2 places and are offered 3 or more. The
  clock wraps at 8, what is compared as signed is below half of that, as in the code, and
  the wrap happens many times. Two links and two attempts make a link wait for
  another and use up its budget. Images have 2 and 3 blocks and chunks up to 2: a
  download takes one, two or three chunks, and a chunk may reach beyond the image.
  JSON values hold quotes, backslashes, the keys, colons and blanks, and the buffer is
  too small for the longest. Frame payloads reach beyond the length byte. The credentials
  fit in a value of the configuration here; `credentials_size` has the code's sizes.
- *Retry*: `retry_wrap` needs a clock that a connection can outlast by half.

`CHECK_DEADLOCK FALSE` is set where `start()` may fail, after which the firmware
really stops.

## 4. Fairness

Weak fairness is given to each task's own steps and to nothing else: FreeRTOS runs
the highest ready priority, and every handler modelled here does bounded work and
then blocks. Nobody has to press, write, connect, commission or post; the poll of an
idle button is not fair either.

- `EventuallyDurable`, `Converges`, `ClaimReachesNvs` have a premise that the saves,
  people or commissionings stop: each `save()` re-arms the 500 ms timer, so saves
  more frequent than that postpone the flush for ever, in the code too.
- `EventuallyDetected` also uses weak fairness of the clock, and the premise that
  the finger is still.
- `WindowEnds` has the premise that time passes. The guard of `Tick` keeps time from
  passing a time-out of the Matter stack that is due, which models that its timer
  fires.

## 5. Proofs

TLAPS proves the theorems below for every value of the constants, under the named
assumptions of the modules (`SwitchAssumption`, `RuntimeAssumption`, ...) and, where a
theorem needs more, under the hypothesis it states. Every safety property of the
passing runs is proved: the run shows it on a small instance, the theorem in general.

| theorem | states | for every |
|---|---|---|
| `StoreTypeCorrect`, `StoreDurable` | the store's type, `SettledIsDurable` | set of failures |
| `StoreIsDurableRegister` | the store implements `DurableRegister` | the same, number of values ahead of NVS |
| `SwitchTypeCorrect`, `SwitchOneReportInFlight`, `SwitchControllerAgrees`, `SwitchRebootRestoresState`, `SwitchOutputsFollowState` | the invariants of the on/off path | queue depth, build, set of failures |
| `RuntimeNoLostWakeup`, `RuntimeDetectedInTime` | the invariants of the button | debounce time, poll period, lag, queue depth |
| `RuntimeGestureMatchesHold` | `GestureMatchesHold` | the same, if `DetectionMs <= MinDwell` |
| `ClaimNonceFresh`, `ClaimFlagsCurrent`, `ClaimProofHasSession`, `ClaimNoOrphanWindow`, `ClaimFlagSurvives`, `ClaimProofComputedInWindow` | the safety of the claim lifecycle | set of connections, challenges and failures, time-outs, number of queued events |
| `ConfigTypeCorrect`, `ConfigCommitIsAtomic` | commit is atomic | keys, values, capacity and number of commits |
| `OtaOnlyVerifiedBoots`, `OtaNoSessionLeaks` | the update service | manifests, blocks, chunk size |
| `PolicyLatestRoleDecides` | the table of roles | commands, table size |
| `ProvCredentialsAreWiped`, `ProvProvisionedIsStored` | provisioning | credentials, sizes, time-out, number of attempts |
| `HealthRebootsAreSpaced`, `HealthFedOnlyIfAlive` | the health monitor | sources, deadlines, clock; the second if `WatchdogBeatsWrap` |
| `MonitorKeepsItsLimits` | the environment monitor | capacity, periods; if `PolledWithin(kTelemetryPeriod)` |
| `TimeSyncTimeIsKept` | time synchronisation | periods, delays; if `TimesFit` |
| `IndicationTopRequestIsShown` | the indicator | number of sources, frames, durations; if `PolledInHalf` |
| `NetNoLinkStarves` | the network manager | number of links and attempts; if `DelaysFit` |
| `QueueIsFifo` | the offline queue implements `StoreAndForward` | depth |
| `QueueNothingVanishes`, `QueueHandledOnce` | telemetry and commands | depth, window, identifiers, handlers |
| `MessagingEventsOnceInOrder` | the event bus | topics, sinks, places, capacity |
| `MessagingFrameRoundTrip` | the frame codec | payload length, size of a byte |
| `MessagingJsonRoundTrip` | the JSON writer and scanner | values, keys that are names, sizes, numbers |

### Hypotheses

All but one relate constants of the code to the range of its clock, and hold with room
to spare for the code's own (2^32 ms are 49 days) and for the instances of the runs:

- `RuntimeAssumption`: the longest hold, the debounce time, a poll and four lags fit in
  the clock. Without it a hold of 49 days would be measured as a short press.
- `DetectionMs <= MinDwell`: the finger keeps each level until it is accepted. A press
  that is shorter may be overlooked, and the next one is then measured from it.
- `LifecycleAssumption`: the claim window and the Matter window together last less than
  half a turn of the clock, for the code compares a signed difference.
- `KeysArePlain`: a key of an object has no character that the scanner looks at; the keys
  of the code are names.
- `WatchdogBeatsWrap`: a deadline and the watchdog's time-out fit in the clock.
- `PolledWithin`, `PolledInHalf`: the loop does not pause for a turn, or half a turn, of
  the clock (49 and 25 days).
- `TimesFit`: the same, and a retry after a failure comes before the six hours of a renewal.
- `DelaysFit`: the last delay of the back-off is the longest, as in its table.

### Inductive invariants

**Store.** `SettledIsDurable` is not inductive: it says nothing of the states in
between. `StoreInv` adds `FlushOwed`: until NVS has the pending value, a save is
under way, the timer is armed, or a flush is running that has not yet read the
value or has read this one. For the register `HistoryInv` adds that the schema key is there
before any relay key, so that the write of the schema key never changes what `load()`
returns, and that the value of the flush is where `flush_at` says it is.

**Switch.** `SwitchInv` is a conjunction of parts, each preserved by a lemma of its
own: `BootInv` (which tasks exist at which point of the start), `TokenInv`
(`report_scheduled_` is a token with exactly one holder: a caller, the work item or
the report), `AgreeInv` (if the attribute differs from the pending state, a report
or a queued command is still to come, or a call failed), `SavedInv` (which value
the store has been given), `OutputsInv` (the outputs show the state also while it is
being saved and reported) and `StoreInv`. The last is preserved because every step
of the switch is a step of the store or leaves it alone (`StoreMap`), so that
the store's lemmas are used and not repeated.

**Runtime.** `ToSample` is the number of ticks until the next sample at the latest.
`LevelInv`: a level that the debouncer has not seen is sampled within two lags of its
arrival; one that it has seen was sampled at most two lags after it came, and the
sample that accepts it comes before `DetectionMs`. `ButtonInv` bounds the debouncer's own
distance in the same way, which is why it never wraps. For gestures `HoldInv` relates the
time since the accepted press to the real hold, in each phase of a press and a release.

**Claim.** `SessionInv` is about the session and the nonce. `WindowInv`: an active claim
window has a Matter window over it, or a press is about to ask for one, or its end is in
the queue of the CHIP task; and it was not open for longer than the Matter window above
it has used of its time-out. As time waits for a stack that is due, a window cannot
last until the signed difference turns. `ClaimedInv`: who holds the mutex, and that the
state the store was asked for last is queued, being written, or in NVS (`OnItsWay`).

**Configuration.** `ConfigInv` adds to atomicity that two valid slots are never
equally new (`Ordered`) and, while the service runs, what the active slot holds
(`ActiveHolds`) and that the other slot is older or is the commit whose write was
reported as failed (`TargetHolds`).

**OTA, policy, provisioning.** `OtaInv` adds `ReadyIsVerified`, what a service that waits
for its activation has verified. `PolicyInv` adds that a command has one entry at most
and that this has its latest role. The two properties of provisioning are inductive
together.

**Polled services.** The properties speak of real time and the code of instants modulo
2^32. Each invariant says for which differences the two agree: `SilenceIsReal` (a
source's silence is the clock's difference, for the watchdog resets before it wraps),
`RequestIsOlder` (the clock never makes a reboot request look older than it is),
`SyncIsRecent` and `RetryIsAhead`, `ExpiryIsAhead`, `RetryIsKnown`. For links,
`PassingCostsAttempts`: each time a link is passed over, the link started in its place
has used an attempt.

**Messaging.** `RingOf` are the buffers whose indices and count agree. `PushAppends` and
`DropRemovesHead` say what the two methods do to the sequence a buffer holds;
`QueueIsFifo` follows step by step, with `NumbersBelow`: a record that waits has a number
already given out, so that a new one does not wait twice. `NothingVanishes` is inductive with the types: each
step makes the set of lost records smaller, or adds the one that is counted.
`RecallInv`: the answer to a command that is not forgotten is on exactly one line of the
cache, as many lines behind `cache_index` as answers were cached since, and a forgotten
command has no line.

**Event bus.** `BusInv`: the places of a topic are taken from the front, so that
`subscribe()` meets a sink's own place before a free one and a sink has at most one; a
queue is ascending, and has the events its sink is owed. That the loop of `publish()`
then pushes at most once to a sink is an induction over the places (`PublishIs`).

**Frames.** `FrameInv`: a frame on the wire is what `encode` made of it, or has another
CRC than its bytes'.

**JSON.** `JsonInv`: the buffer holds the object of the two values, and it found room. The
work is in the operators, which are loops. A function that a loop defines exists
(`LoopExists`), by induction on a set (`Induction`, from the least element of what is
missing). The characters of an object are given by their places (`Layout`). A quote inside
a value has a backslash before it (`QuotesAreEscaped`), and the quote that ends the first
value has a comma behind it, so that no key stands before its own place
(`KeyStandsOnce`). What the writer has written after n characters stays (`WrittenStays`),
and from there on `get_string` reads the rest of the value, from its end backwards
(`ReadBack`). For numbers the overflow test is exact (`OverflowIsExact`), so that `get_u32`
has at each digit the number so far, or has refused it (`NumberIsRead`).

### Only model-checked

- Liveness: `EventuallyDurable`, `Converges`, `EventuallyDetected`, `ClaimReachesNvs` and
  `WindowEnds`. TLAPS does not reason about fairness.

## 6. Findings and observations

Five runs show a disagreement between the code and a document:

- `clear_is_final`: the claim worker takes its request out of the queue before it
  takes `io_mutex_`; a `clear()` in between empties the queue and erases NVS, and the
  worker then writes the old request. The erased device is claimed again.
- `expired_proof`: `docs/legacy/architecture/rhophi-claim-protocol.md:63` says that expiry
  clears proof buffers; `read_response` (`RhophiClaimGatt.cpp:263`) looks at the session
  only, so its client reads the proof also after a challenge has noticed the expiry, until the session is
  cleared. What does hold: a proof is computed in the window (`ProofComputedInWindow`) and
  read by its client only (`ProofHasSession`).
- `reset_race`: a commissioning that completes between the erase of the claim state
  and the reset of the Matter stack is written to NVS, and the reset device is
  claimed without a fabric.
- `retry_wrap`: the network manager keeps the retry instant from before a connection.
  After 25 days of connection the signed difference puts it in the future, and a link
  that goes down is not started again until the clock has come round.
- `credentials_size`: validated credentials, 130 bytes, are refused by `set_blob`,
  whose limit is 64, and count as failed attempts. A device cannot be provisioned.

Met while modelling, without a run:

- If the claim service did not start, a factory reset leaves the claim state in NVS
  (`MatterNode.cpp:150`).
- The lockout of the legacy claim document cannot be reached: `initialize()` zeroes
  its counters.
- A button held before the interrupt is enabled is not sampled until some other
  event arrives; the button properties exempt that press.
- `ConfigService::initialize` falls back to the older slot when the newer one cannot
  be read, and the next commit overwrites the newer one.
- `set()` keeps the requested state when an output refuses its level: state, relay and
  LED then differ, and the same command again is dropped as no change.
- `time_sync/README.md` says that implausible jumps are rejected; `poll()` only
  compares with the year 2020, and ignores what `set_utc` returns.
- A record published at once overtakes those still in the offline queue, and a response
  that finds the queue full is lost: only telemetry pushes an entry out.
- An indication that expires at instant 0 of the clock never expires.
- `factory_reset` of the provisioning service erases the record in RAM before the commit
  that may fail; the device stays provisioned and any later commit erases the record.
- A validator, a fetcher or a time source that never answers is waited for without a
  time-out. `cancel()` after `activate()` aborts the store of the image about to boot,
  and nothing calls `IBootControl::rollback`.
- After a command line that is too long, its tail is run as a command.

## 7. What is not modelled

- Claim platform, board, clock, timer and watchdog adapters: one-line calls of the
  SDK. Their results are inputs (`Failures`) of the models.
- The CHIP, NimBLE and ESP-IDF code is not in the repository; it is modelled by
  what `src/` uses of it.
- Status pixel, log lines and GATT notifications: output only, nothing reads them back.
- Bytes of NVS entries; the HMAC; the polynomials of the CRCs. Conversions are
  abstracted to the cases the control tells apart.
- The byte reader and writer, the MQTT topics and Modbus: conversions without state,
  which the host tests cover.
- Diagnostics: saturating counters, gauges and the last faults in the same ring buffer,
  used as `OfflineQueue` uses it; nothing else reads them.
- The state machine template: a first-match search in a table that nothing instantiates.
- The development bypass of the claim protocol, a build option.
- Vendored code, examples and host tests.
- Early returns that no caller in the repository can take: the capacity checks of
  `JsonScanner::get_string` and `frame_encode` and of the answer in
  `CommandDispatcher::respond` (every buffer holds the longest value), and the failing
  `get()` of `sample_button` (only a misconfigured pin).
- Excluded by a named assumption or guard: indications of half a turn of the clock or more
  (`IndicationService.cpp:19` takes any), and health sources added while the clock is not 0.

## 8. Plan

Done, in this order: the relay store, the on/off path over it, the button, the claim
store, protocol and lifecycle, the configuration service; their runs and the theorems
above. Then messaging with the abstract queue it implements, provisioning, OTA and
security policy, network, time and health, indication, event bus and environment
monitor, the JSON and frame codecs, with the run `services`.

The proofs came in the same order: store, switch and configuration first, then the claim
lifecycle, the button, OTA, policy and provisioning, the polled services, messaging, the
event bus, and the frame and JSON codecs.

What is left is liveness, which stays with TLC, and what section 7 lists as not modelled.
