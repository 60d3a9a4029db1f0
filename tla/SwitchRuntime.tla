---------------------------- MODULE SwitchRuntime ----------------------------
(***************************************************************************)
(* The event loop of the switch task and the push button: SwitchRuntime    *)
(* with its ButtonInput, the button interrupt, the runtime queue and the   *)
(* 5 ms poll.  The task blocks without a timeout while the button is idle, *)
(* so every press depends on the interrupt's wake-up reaching it; while    *)
(* the button is active it also polls.                                     *)
(*                                                                         *)
(* All events in the queue have the same effect here, one sample of the    *)
(* button (what a set_switch does besides is in module SwitchControl), so  *)
(* the queue is its length.  Time is in ticks; MaxLag bounds how long the  *)
(* scheduler and a running handler may keep a due task from its next step. *)
(***************************************************************************)
EXTENDS ButtonInput

CONSTANTS
  kQueueDepth,  \* slots of the runtime queue
  kPollMs,      \* the poll interval of an active button
  MaxLag,       \* ticks a step of the task may be late
  MinDwell,     \* shortest time between two level changes of a clean contact
  MaxHold       \* bound: the user lets go before this many ticks

ASSUME RuntimeAssumption ==
  /\ kQueueDepth \in Nat \ {0}
  /\ kPollMs \in Nat \ {0} /\ MaxLag \in Nat /\ MinDwell \in Nat
  /\ MaxHold \in Nat /\ MinDwell <= MaxHold
  /\ MaxHold + debounce_ms + kPollMs + 4 * MaxLag < TimeModulus

VARIABLES
  level,     \* the pin, TRUE while pressed
  queued,    \* events in queue_
  task,      \* "wait": in xQueueReceive; "sample": before sample_button
  button,    \* button_input_
  event,     \* what the last update() returned
  waited,    \* ticks of the receive timeout that have passed
  lag,       \* ticks the task has been due
  dwell,     \* ticks since the level changed, up to MaxDwell
  held,      \* ticks the current or last press lasted, up to MaxHold
  boot_hold, \* the current or last press began before the interrupt was enabled
  bounces    \* the contact of this device bounces, at any tick

vars == <<level, queued, task, button, event, waited, lag, dwell, held, boot_hold, bounces>>

(* The button may be held while the device starts. *)
Init ==
  /\ level \in BOOLEAN
  /\ queued = 0 /\ task = "wait" /\ button = NewButton /\ event = "none"
  /\ waited = 0 /\ lag = 0
  /\ dwell = MinDwell /\ held = 0 /\ boot_hold = level
  /\ bounces \in BOOLEAN

-----------------------------------------------------------------------------
(* Mutant of IsrQueued: the interrupt is attached to the releasing edge. *)
IsrQueuedOnRelease == IF level /\ queued < kQueueDepth THEN queued + 1 ELSE queued

(* button_isr: on a full queue the event is lost, xQueueSendFromISR's      *)
(* result is not looked at.                                                *)
IsrQueued == IF queued < kQueueDepth THEN queued + 1 ELSE queued

(* The contact opens or closes; both edges interrupt. *)
Edge ==
  /\ bounces \/ dwell >= MinDwell
  /\ level' = ~level
  /\ queued' = IsrQueued
  /\ dwell' = 0
  /\ held' = IF level' THEN 0 ELSE held
  /\ boot_hold' = (boot_hold /\ ~level')
  /\ UNCHANGED <<task, button, event, waited, lag, bounces>>

(* post_set_switch, from the CHIP task; a full queue answers busy. *)
PostSetSwitch ==
  /\ queued < kQueueDepth
  /\ queued' = queued + 1
  /\ UNCHANGED <<level, task, button, event, waited, lag, dwell, held, boot_hold, bounces>>

(* xQueueReceive returns an event, or, polling, nothing. *)
Receive ==
  /\ task = "wait"
  /\ queued > 0
  /\ queued' = queued - 1
  /\ task' = "sample"
  /\ lag' = 0
  /\ UNCHANGED <<level, button, event, waited, dwell, held, boot_hold, bounces>>

PollTimeout ==
  /\ task = "wait"
  /\ queued = 0
  /\ is_active(button) /\ waited >= kPollMs
  /\ task' = "sample"
  /\ lag' = 0
  /\ UNCHANGED <<level, queued, button, event, waited, dwell, held, boot_hold, bounces>>

(* sample_button, and around to the next xQueueReceive. *)
Sample ==
  /\ task = "sample"
  /\ button' = Updated(button, level)
  /\ event' = EventOf(button, level)
  /\ task' = "wait"
  /\ waited' = 0
  /\ lag' = 0
  /\ UNCHANGED <<level, queued, dwell, held, boot_hold, bounces>>

(* The task has something to do. *)
Due == \/ task = "sample" \/ queued > 0
       \/ is_active(button) /\ waited >= kPollMs

(* A level that has been stable this long has been accepted. *)
DetectionMs == debounce_ms + kPollMs + 4 * MaxLag

(* Bound: how long a level has been stable is not told apart beyond this. *)
MaxDwell == IF MinDwell < DetectionMs THEN DetectionMs ELSE MinDwell

UpTo(n, max) == IF n < max THEN n + 1 ELSE n

(* A millisecond passes, unless the task would be too late; a pressed      *)
(* button is released before MaxHold.                                      *)
Tick ==
  /\ Due => lag < MaxLag
  /\ level => held < MaxHold
  /\ button' = Aged(button)
  /\ waited' = IF task = "wait" /\ is_active(button) THEN UpTo(waited, kPollMs) ELSE waited
  /\ lag' = IF Due THEN lag + 1 ELSE 0
  /\ dwell' = UpTo(dwell, MaxDwell)
  /\ held' = IF level THEN held + 1 ELSE held
  /\ UNCHANGED <<level, queued, task, event, boot_hold, bounces>>

TaskStep == Receive \/ PollTimeout \/ Sample

Next == Edge \/ PostSetSwitch \/ TaskStep \/ Tick

Spec == Init /\ [][Next]_vars

(* The task runs when due and the clock goes on; nobody presses or posts.  *)
FairSpec == Spec /\ WF_vars(TaskStep) /\ WF_vars(Tick)

-----------------------------------------------------------------------------
(***************************************************************************)
(* A level the debouncer has not seen yet is never forgotten: an event is  *)
(* queued, or the task is about to sample, or it polls.  This is why an    *)
(* edge lost to a full queue does no harm.  The exception is a button held *)
(* since before the interrupt was enabled.                                 *)
(***************************************************************************)
NoLostWakeup ==
  level # button.raw_last /\ ~(boot_hold /\ level) =>
    queued > 0 \/ task = "sample" \/ is_active(button)

(***************************************************************************)
(* A stable level is accepted within the debounce time and a bounded       *)
(* number of polls, whatever else floods the queue.                        *)
(***************************************************************************)
DetectedInTime ==
  dwell >= DetectionMs /\ ~(boot_hold /\ level) => button.stable_pressed = level

(* How far the measured hold may be from the real one. *)
Slack == kPollMs + 4 * MaxLag

(***************************************************************************)
(* Without contact bounce, the gesture a release is taken for is the one   *)
(* the finger made, up to the sampling slack: a factory reset is never     *)
(* triggered by a press shorter than its threshold less the slack, nor a   *)
(* toggle by one longer than a short press plus the slack.                 *)
(***************************************************************************)
GestureOf(e, ms) ==
  CASE e = "short_press"         -> ms <= short_press_max_ms + Slack
    [] e = "commissioning_press" -> /\ ms + Slack >= commissioning_press_min_ms
                                    /\ ms < factory_reset_press_min_ms + Slack
    [] e = "factory_reset_press" -> ms + Slack >= factory_reset_press_min_ms
    [] OTHER -> TRUE

GestureMatchesHold ==
  [][task = "sample" /\ task' = "wait" /\ ~boot_hold /\ ~bounces
       => GestureOf(event', held)]_vars

(***************************************************************************)
(* Once the finger keeps still the debouncer comes to the level of the pin *)
(* and the task goes back to waiting without a poll if that is released.   *)
(***************************************************************************)
FingerStill == <>[][~Edge]_vars

EventuallyDetected ==
  FingerStill => <>[](~(boot_hold /\ level) => button.stable_pressed = level /\ ~button.debouncing)

=============================================================================
