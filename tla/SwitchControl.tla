---------------------------- MODULE SwitchControl ----------------------------
(***************************************************************************)
(* The on/off path of the product: who changes the relay, who hears of it  *)
(* and what survives a reset.  Four tasks of the firmware interleave:      *)
(*                                                                         *)
(*   "main"   app_main: start() of SmartDevice.cpp, which restores the     *)
(*            relay, starts the switch task and then the Matter stack;     *)
(*   "task"   switch_ctrl: SwitchRuntime::run, which takes commands from   *)
(*            the runtime queue and samples the button, and calls          *)
(*            SmartDeviceApplication, BinarySwitchService and the store;   *)
(*   "chip"   the CHIP event loop: attribute writes of a controller and    *)
(*            MatterNode::report_state;                                    *)
(*   esp_timer, inside the store (NvsBinaryStateStore, instantiated).      *)
(*                                                                         *)
(* A step is the code between two accesses to what another task also       *)
(* touches: the queue, the store, pending_state_, started_,                *)
(* report_scheduled_, the CHIP work queue.  The core is a single one, so   *)
(* the steps of the tasks interleave in one order everybody sees.          *)
(*                                                                         *)
(* The button is abstracted to the outcome of sample_button: a short press *)
(* or nothing (module SwitchRuntime has the debouncing).                   *)
(***************************************************************************)
EXTENDS Naturals, Sequences

CONSTANTS
  kQueueDepth,    \* slots of the runtime queue
  MatterEnabled,  \* the build defines SMART_DEVICE_MATTER_NODE
  Failures        \* the external calls that may fail, and "power"

ASSUME SwitchAssumption ==
  /\ kQueueDepth \in Nat \ {0}
  /\ MatterEnabled \in BOOLEAN
  /\ Failures \subseteq STRING

VARIABLES
  pc,                \* where each task is
  ret,               \* where the switch task continues after a state change
  queue,             \* queue_ of SwitchRuntime
  state,             \* state_.on of BinarySwitchService
  relay, led,        \* the levels of the two outputs
  unsaved,           \* history: state neither came from the store nor was handed to it
  pending_state,     \* pending_state_ of MatterNode
  started,           \* started_
  report_scheduled,  \* report_scheduled_
  applying_report,   \* applying_report_
  work,              \* report_state_work items in the CHIP event queue
  chip_val,          \* the value the CHIP task is writing or reporting
  attr,              \* the OnOff attribute a controller reads
  report_lost,       \* history: a report failed and none has succeeded since
  timer, pending_on, save_pc, flush_pc, flush_on, nvs_schema, nvs_relay, store_lost

Store == INSTANCE NvsBinaryStateStore

switchVars == <<ret, state, relay, led, unsaved>>
matterVars == <<pending_state, started, report_scheduled, applying_report,
                work, chip_val, attr, report_lost>>
storeVars  == <<timer, pending_on, save_pc, flush_pc, flush_on,
                nvs_schema, nvs_relay, store_lost>>
vars == <<pc, queue, switchVars, matterVars, storeVars>>

Tasks == {"main", "task", "chip"}

(* Event{set_switch, on} and Event{button_edge}. *)
SetEvent(on) == IF on THEN "set_on" ELSE "set_off"
Events == {"button_edge", "set_on", "set_off"}

Goto(p, l) == pc' = [pc EXCEPT ![p] = l]

-----------------------------------------------------------------------------
(* Every task before app_main runs; the attribute is whatever it was. *)
Init ==
  /\ pc = [main |-> "initialize", task |-> "none", chip |-> "none"]
  /\ ret = "receive"
  /\ queue = <<>>
  /\ state = FALSE /\ relay = FALSE /\ led = FALSE
  /\ unsaved = FALSE
  /\ pending_state = FALSE /\ started = FALSE
  /\ report_scheduled = FALSE /\ applying_report = FALSE
  /\ work = 0 /\ chip_val = FALSE /\ attr = FALSE /\ report_lost = FALSE
  /\ Store!Init

-----------------------------------------------------------------------------
(***************************************************************************)
(* BinarySwitchService                                                     *)
(***************************************************************************)
(* Setting one output either reaches the pin or leaves it as it was. *)
OutputSet(ok, pin, on) == (ok \/ "gpio" \in Failures) /\ pin' = IF ok THEN on ELSE pin

(* apply(): both outputs are always tried. *)
Apply(on, loadOk, ledOk) == OutputSet(loadOk, relay, on) /\ OutputSet(ledOk, led, on)

(* Mutant of ChangeState: a state the indicator refused is saved all the same. *)
ChangeStateLoadOnly(on, back) ==
  /\ state' = on
  /\ ret' = back
  /\ \E loadOk, ledOk \in BOOLEAN :
       /\ Apply(on, loadOk, ledOk)
       /\ unsaved' = ~loadOk
       /\ Goto("task", IF loadOk THEN "save" ELSE "notify")

(* set(): the state changes first; only an applied state is saved. *)
ChangeState(on, back) ==
  /\ state' = on
  /\ ret' = back
  /\ \E loadOk, ledOk \in BOOLEAN :
       /\ Apply(on, loadOk, ledOk)
       /\ unsaved' = ~(loadOk /\ ledOk)
       /\ Goto("task", IF loadOk /\ ledOk THEN "save" ELSE "notify")

-----------------------------------------------------------------------------
(***************************************************************************)
(* app_main                                                                *)
(***************************************************************************)
(* Mutant of Initialize: the device always starts switched off. *)
InitializeOff ==
  /\ pc["main"] = "initialize"
  /\ state' = FALSE /\ unsaved' = FALSE
  /\ Apply(FALSE, TRUE, TRUE)
  /\ Goto("main", "start_runtime")
  /\ pending_state' = FALSE
  /\ UNCHANGED <<ret, queue, started, report_scheduled, applying_report,
                 work, chip_val, attr, report_lost, storeVars>>

(* SmartDeviceApplication::initialize: restore(), which is off when load() *)
(* fails, and, if the outputs took the restored level, the observer.       *)
Initialize ==
  /\ pc["main"] = "initialize"
  /\ \E readOk, loadOk, ledOk \in BOOLEAN :
       /\ readOk \/ "nvs" \in Failures
       /\ state' = (readOk /\ Store!LoadOk /\ Store!Loaded)
       /\ unsaved' = ~readOk
       /\ Apply(state', loadOk, ledOk)
       /\ Goto("main", IF loadOk /\ ledOk THEN "start_runtime" ELSE "failed")
       /\ pending_state' = IF MatterEnabled /\ loadOk /\ ledOk
                             THEN state' ELSE pending_state
  /\ UNCHANGED <<ret, queue, started, report_scheduled, applying_report,
                 work, chip_val, attr, report_lost, storeVars>>

(* SwitchRuntime::start: queue, task and interrupt, or none of them. *)
StartRuntime ==
  /\ pc["main"] = "start_runtime"
  /\ \/ pc' = [pc EXCEPT !["task"] = "receive",
                         !["main"] = IF MatterEnabled THEN "create_node" ELSE "up"]
     \/ "runtime_start" \in Failures /\ Goto("main", "failed")
  /\ UNCHANGED <<queue, switchVars, matterVars, storeVars>>

(* MatterNode::start, first part.  OnOff is a non-volatile attribute: the  *)
(* stack may keep a value it stored earlier over the configured one.       *)
CreateNode ==
  /\ pc["main"] = "create_node"
  /\ \/ Goto("main", "start_matter") /\ attr' \in {pending_state, attr}
     \/ "matter_start" \in Failures /\ Goto("main", "failed") /\ UNCHANGED attr
  /\ UNCHANGED <<queue, switchVars, pending_state, started, report_scheduled,
                 applying_report, work, chip_val, report_lost, storeVars>>

(* esp_matter::start: from here on the CHIP task runs. *)
StartMatter ==
  /\ pc["main"] = "start_matter"
  /\ \/ pc' = [pc EXCEPT !["chip"] = "idle", !["main"] = "set_started"]
     \/ "matter_start" \in Failures /\ Goto("main", "failed")
  /\ UNCHANGED <<queue, switchVars, matterVars, storeVars>>

(* started_ = true, and on to schedule_state_report. *)
SetStarted ==
  /\ pc["main"] = "set_started"
  /\ started' = TRUE
  /\ Goto("main", "exchange")
  /\ UNCHANGED <<queue, switchVars, pending_state, report_scheduled, applying_report,
                 work, chip_val, attr, report_lost, storeVars>>

-----------------------------------------------------------------------------
(***************************************************************************)
(* MatterNode::schedule_state_report, called by all three tasks.           *)
(***************************************************************************)
ScheduleReturn(p) ==
  \/ p = "main" /\ Goto(p, "up")
  \/ p = "task" /\ Goto(p, ret)
  \/ p = "chip" /\ Goto(p, "idle")

Exchange(p) ==
  /\ pc[p] = "exchange"
  /\ report_scheduled' = TRUE
  /\ IF report_scheduled THEN ScheduleReturn(p) ELSE Goto(p, "schedule")
  /\ UNCHANGED <<queue, switchVars, pending_state, started, applying_report, work,
                 chip_val, attr, report_lost, storeVars>>

ScheduleWork(p) ==
  /\ pc[p] = "schedule"
  /\ \/ /\ work' = work + 1
        /\ ScheduleReturn(p)
        /\ UNCHANGED report_lost
     \/ /\ "schedule_work" \in Failures
        /\ report_lost' = TRUE
        /\ Goto(p, "unschedule")
        /\ UNCHANGED work
  /\ UNCHANGED <<queue, switchVars, pending_state, started, report_scheduled,
                 applying_report, chip_val, attr, storeVars>>

(* Mutant of Unschedule: the flag stays set. *)
UnscheduleForgotten(p) ==
  /\ pc[p] = "unschedule"
  /\ ScheduleReturn(p)
  /\ UNCHANGED <<queue, switchVars, matterVars, storeVars>>

(* The work item was refused: report_scheduled_.store(false). *)
Unschedule(p) ==
  /\ pc[p] = "unschedule"
  /\ report_scheduled' = FALSE
  /\ ScheduleReturn(p)
  /\ UNCHANGED <<queue, switchVars, pending_state, started, applying_report, work,
                 chip_val, attr, report_lost, storeVars>>

-----------------------------------------------------------------------------
(***************************************************************************)
(* switch_ctrl: SwitchRuntime::run                                         *)
(***************************************************************************)
(* A received event, up to the outputs of the set_switch it may be.  A     *)
(* command for the state the switch already has does nothing.              *)
Receive ==
  /\ pc["task"] = "receive"
  /\ queue # <<>>
  /\ queue' = Tail(queue)
  /\ IF Head(queue) = SetEvent(~state)
       THEN ChangeState(~state, "sample")
       ELSE Goto("task", "sample") /\ UNCHANGED switchVars
  /\ UNCHANGED <<matterVars, storeVars>>

(* The poll interval of an active button ran out with nothing in the queue. *)
Poll ==
  /\ pc["task"] = "receive"
  /\ queue = <<>>
  /\ Goto("task", "sample")
  /\ UNCHANGED <<queue, switchVars, matterVars, storeVars>>

(* sample_button finds nothing to do ... *)
SampleNothing ==
  /\ pc["task"] = "sample"
  /\ Goto("task", "receive")
  /\ UNCHANGED <<queue, switchVars, matterVars, storeVars>>

(* ... or the end of a short press: on_short_press, toggle(). *)
ShortPress ==
  /\ pc["task"] = "sample"
  /\ ChangeState(~state, "receive")
  /\ UNCHANGED <<queue, matterVars, storeVars>>

(* store_.save(state_), step by step. *)
SaveReturns == Goto("task", IF save_pc' = "idle" THEN "notify" ELSE "saving")

SaveState ==
  /\ \/ pc["task"] = "save" /\ Store!SaveBegin(state)
     \/ pc["task"] = "saving" /\ (Store!SaveStop \/ Store!SaveStart)
  /\ SaveReturns
  /\ UNCHANGED <<queue, switchVars, matterVars>>

(* notify_if_changed and on_switch_state_changed: every state change this  *)
(* task makes is a change of value, so the observer is always told.        *)
Notify ==
  /\ pc["task"] = "notify"
  /\ IF MatterEnabled
       THEN pending_state' = state /\ Goto("task", "check_started")
       ELSE UNCHANGED pending_state /\ Goto("task", ret)
  /\ UNCHANGED <<queue, switchVars, started, report_scheduled, applying_report, work,
                 chip_val, attr, report_lost, storeVars>>

CheckStarted ==
  /\ pc["task"] = "check_started"
  /\ Goto("task", IF started THEN "exchange" ELSE ret)
  /\ UNCHANGED <<queue, switchVars, matterVars, storeVars>>

(* Mutant of ButtonIsr: off by one at the depth of the queue. *)
ButtonIsrOffByOne ==
  /\ pc["task"] # "none"
  /\ Len(queue) <= kQueueDepth
  /\ queue' = Append(queue, "button_edge")
  /\ UNCHANGED <<pc, switchVars, matterVars, storeVars>>

(* The interrupt: a full queue loses the edge, but not the wake-up. *)
ButtonIsr ==
  /\ pc["task"] # "none"
  /\ Len(queue) < kQueueDepth
  /\ queue' = Append(queue, "button_edge")
  /\ UNCHANGED <<pc, switchVars, matterVars, storeVars>>

-----------------------------------------------------------------------------
(***************************************************************************)
(* The CHIP task                                                           *)
(***************************************************************************)
(* attribute_update_callback, PRE_UPDATE of OnOff: outside a report the    *)
(* value is posted to the runtime queue; a full queue refuses the write.   *)
AttributeUpdateCallback(on) ==
  IF applying_report
    THEN UNCHANGED queue
    ELSE Len(queue) < kQueueDepth /\ queue' = Append(queue, SetEvent(on))

(* A controller writes OnOff: first the callback, then the attribute. *)
RemoteWrite(on) ==
  /\ pc["chip"] = "idle"
  /\ AttributeUpdateCallback(on)
  /\ chip_val' = on
  /\ Goto("chip", "write")
  /\ UNCHANGED <<switchVars, pending_state, started, report_scheduled, applying_report,
                 work, attr, report_lost, storeVars>>

WriteAttribute ==
  /\ pc["chip"] = "write"
  /\ attr' = chip_val
  /\ Goto("chip", "idle")
  /\ UNCHANGED <<queue, switchVars, pending_state, started, report_scheduled,
                 applying_report, work, chip_val, report_lost, storeVars>>

(* report_state, up to the call of attribute::update. *)
ReportLoad ==
  /\ pc["chip"] = "idle"
  /\ work > 0
  /\ work' = work - 1
  /\ chip_val' = pending_state
  /\ applying_report' = TRUE
  /\ Goto("chip", "update")
  /\ UNCHANGED <<queue, switchVars, pending_state, started, report_scheduled, attr,
                 report_lost, storeVars>>

(* attribute::update, which calls the callback too. *)
ReportUpdate ==
  /\ pc["chip"] = "update"
  /\ AttributeUpdateCallback(chip_val)
  /\ \/ attr' = chip_val /\ report_lost' = FALSE
     \/ "attribute_update" \in Failures /\ report_lost' = TRUE /\ UNCHANGED attr
  /\ applying_report' = FALSE
  /\ Goto("chip", "clear")
  /\ UNCHANGED <<switchVars, pending_state, started, report_scheduled, work, chip_val,
                 storeVars>>

ReportClear ==
  /\ pc["chip"] = "clear"
  /\ report_scheduled' = FALSE
  /\ Goto("chip", "recheck")
  /\ UNCHANGED <<queue, switchVars, pending_state, started, applying_report, work,
                 chip_val, attr, report_lost, storeVars>>

(* Mutant of ReportRecheck: the report does not look again. *)
ReportRecheckNever ==
  /\ pc["chip"] = "recheck"
  /\ Goto("chip", "idle")
  /\ UNCHANGED <<queue, switchVars, matterVars, storeVars>>

(* The state may have changed since ReportLoad. *)
ReportRecheck ==
  /\ pc["chip"] = "recheck"
  /\ Goto("chip", IF pending_state # chip_val THEN "exchange" ELSE "idle")
  /\ UNCHANGED <<queue, switchVars, matterVars, storeVars>>

-----------------------------------------------------------------------------
(* The esp_timer task. *)
FlushState ==
  /\ Store!Flush
  /\ UNCHANGED <<pc, queue, switchVars, matterVars>>

(* A reset: outputs low, RAM gone; NVS and the stored attribute stay. *)
PowerLoss ==
  /\ Store!StorePowerLoss
  /\ pc' = [main |-> "initialize", task |-> "none", chip |-> "none"]
  /\ ret' = "receive"
  /\ queue' = <<>>
  /\ state' = FALSE /\ relay' = FALSE /\ led' = FALSE
  /\ unsaved' = FALSE
  /\ pending_state' = FALSE /\ started' = FALSE
  /\ report_scheduled' = FALSE /\ applying_report' = FALSE
  /\ work' = 0 /\ chip_val' = FALSE /\ report_lost' = FALSE
  /\ UNCHANGED attr

-----------------------------------------------------------------------------
MainStep == Initialize \/ StartRuntime \/ CreateNode \/ StartMatter \/ SetStarted

ScheduleStep(p) == Exchange(p) \/ ScheduleWork(p) \/ Unschedule(p)

(* The switch task at work; Poll is apart, an idle task need not poll. *)
TaskStep == Receive \/ SampleNothing \/ SaveState \/ Notify \/ CheckStarted

ChipStep == WriteAttribute \/ ReportLoad \/ ReportUpdate \/ ReportClear \/ ReportRecheck

(* What people do. *)
UserInput == ShortPress \/ ButtonIsr \/ \E on \in BOOLEAN : RemoteWrite(on)

Next ==
  \/ MainStep
  \/ TaskStep
  \/ ChipStep
  \/ \E p \in Tasks : ScheduleStep(p)
  \/ Poll
  \/ UserInput
  \/ FlushState
  \/ PowerLoss

Spec == Init /\ [][Next]_vars

(***************************************************************************)
(* Each task that has something to do is eventually scheduled: FreeRTOS    *)
(* runs the highest ready priority, and every task here blocks after a     *)
(* bounded amount of work.  Nothing is assumed of people or of the poll.   *)
(***************************************************************************)
Fairness ==
  /\ WF_vars(MainStep) /\ WF_vars(ScheduleStep("main"))
  /\ WF_vars(TaskStep) /\ WF_vars(ScheduleStep("task"))
  /\ WF_vars(ChipStep) /\ WF_vars(ScheduleStep("chip"))
  /\ WF_vars(FlushState)

FairSpec == Spec /\ Fairness
-----------------------------------------------------------------------------
MainLabels == {"initialize", "start_runtime", "create_node", "start_matter",
               "set_started", "exchange", "schedule", "unschedule", "up", "failed"}
TaskLabels == {"none", "receive", "sample", "save", "saving", "notify",
               "check_started", "exchange", "schedule", "unschedule"}
ChipLabels == {"none", "idle", "write", "update", "clear", "recheck",
               "exchange", "schedule", "unschedule"}

ControlTypeOK ==
  /\ pc \in [Tasks -> MainLabels \cup TaskLabels \cup ChipLabels]
  /\ pc["main"] \in MainLabels /\ pc["task"] \in TaskLabels /\ pc["chip"] \in ChipLabels
  /\ ret \in {"receive", "sample"}

DataTypeOK ==
  /\ queue \in Seq(Events) /\ Len(queue) <= kQueueDepth
  /\ state \in BOOLEAN /\ relay \in BOOLEAN /\ led \in BOOLEAN /\ unsaved \in BOOLEAN
  /\ pending_state \in BOOLEAN /\ started \in BOOLEAN /\ report_scheduled \in BOOLEAN
  /\ applying_report \in BOOLEAN /\ work \in Nat /\ chip_val \in BOOLEAN
  /\ attr \in BOOLEAN /\ report_lost \in BOOLEAN

TypeOK == ControlTypeOK /\ DataTypeOK /\ Store!StoreTypeOK

(* Between two events the switch task is in its loop with nothing begun. *)
TaskAtRest == pc["task"] \in {"none", "receive", "sample"}

CommandQueued(on) == \E i \in 1..Len(queue) : queue[i] = SetEvent(on)

(* Nobody is reporting, about to report, or about to change the switch. *)
ReportAtRest ==
  /\ started
  /\ pc["main"] = "up" /\ TaskAtRest /\ pc["chip"] = "idle" /\ work = 0
  /\ \A on \in BOOLEAN : ~CommandQueued(on)

(***************************************************************************)
(* Who holds the right that report_scheduled_ stands for: a task on its    *)
(* way to ScheduleWork or back from a refusal, the queued work item, the   *)
(* report before it clears the flag.                                       *)
(***************************************************************************)
ReportHolders ==
  { p \in Tasks : pc[p] \in {"schedule", "unschedule"} }
    \cup (IF pc["chip"] \in {"update", "clear"} THEN {"report"} ELSE {})
    \cup (IF work > 0 THEN {"work"} ELSE {})

(***************************************************************************)
(* However the three callers of schedule_state_report race with each other *)
(* and with the report, the CHIP event queue never holds two reports, and  *)
(* report_scheduled_ is set exactly while one holder is left to clear it:  *)
(* it is never stuck at true with no report to come.                       *)
(***************************************************************************)
OneReportInFlight ==
  /\ work <= 1
  /\ report_scheduled <=> ReportHolders # {}
  /\ \A x, y \in ReportHolders : x = y

(***************************************************************************)
(* When everything is at rest the attribute a controller reads is the      *)
(* state of the switch, after any interleaving of presses, remote writes,  *)
(* coalesced reports and the start of the stack; the only excuse is a      *)
(* ScheduleWork or attribute update that failed with no report since.      *)
(***************************************************************************)
ControllerAgrees ==
  ReportAtRest /\ ~report_lost => attr = state

(***************************************************************************)
(* At rest, a reset would bring back the state the switch has now, except  *)
(* after an output that could not be set (the state is then not saved) or  *)
(* a store call that failed.                                               *)
(***************************************************************************)
RebootRestoresState ==
  /\ pc["main"] # "initialize" /\ TaskAtRest
  /\ timer # "armed" /\ flush_pc = "idle"
  /\ ~unsaved /\ ~store_lost
  => (Store!LoadOk /\ Store!Loaded) = state

(***************************************************************************)
(* Whenever the switch task waits for an event, both outputs show a state  *)
(* that was restored from the store or handed to it: set() changes the     *)
(* state before the outputs and keeps it when one refuses, but then does   *)
(* not save it, and start() gives up when restore() cannot set them.       *)
(* Without a refusal the outputs show every state.                         *)
(***************************************************************************)
OutputsFollowState ==
  /\ pc["main"] \notin {"initialize", "failed"} /\ TaskAtRest
  /\ "gpio" \in Failures => ~unsaved
  => relay = state /\ led = state

(***************************************************************************)
(* If people stop, the controller's view, the outputs and NVS all come to  *)
(* the state of the switch and stay there: no report loop, no lost report, *)
(* no forgotten flush.  A ScheduleWork or update that failed is excused.   *)
(***************************************************************************)
InputStops == <>[][~UserInput]_vars

Converges ==
  InputStops => <>[]( /\ relay = state /\ led = state
                      /\ (Store!LoadOk /\ Store!Loaded) = state
                      /\ (started /\ ~report_lost => attr = state) )

=============================================================================
