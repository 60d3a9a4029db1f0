------------------------- MODULE SwitchControlProofs -------------------------
(***************************************************************************)
(* The on/off path, for every queue depth, both builds and every set of    *)
(* failing calls.                                                          *)
(***************************************************************************)
EXTENDS SwitchControl, TLAPS

(* The invariant of the store, which its history of saves plays no part in. *)
StoreP == INSTANCE NvsBinaryStateStoreProofs WITH ahead <- <<>>, flush_at <- 0, MaxAhead <- 0

-----------------------------------------------------------------------------
(***************************************************************************)
(* The order of the boot: which tasks exist at each point of app_main.     *)
(***************************************************************************)
BootInv ==
  /\ pc["main"] \in {"initialize", "start_runtime"} => pc["task"] = "none"
  /\ pc["task"] = "none" => pc["chip"] = "none" /\ queue = <<>>
  /\ pc["main"] = "start_runtime" /\ MatterEnabled => pending_state = state
  /\ pc["main"] \in {"create_node", "start_matter"} => MatterEnabled /\ pc["chip"] = "none"
  /\ pc["main"] \in {"create_node", "start_matter"} => pc["task"] # "none"
  /\ pc["main"] = "set_started" => pc["chip"] # "none"
  /\ pc["chip"] # "none" => MatterEnabled
  /\ started => pc["chip"] # "none"
  /\ pc["main"] \in {"exchange", "schedule", "unschedule"} => started
  /\ pc["main"] = "failed" => ~started
  /\ pc["task"] \in {"check_started", "exchange", "schedule", "unschedule"} => MatterEnabled
  /\ applying_report <=> pc["chip"] = "update"

(***************************************************************************)
(* OneReportInFlight spelt out: the right to report has at most one holder *)
(* and report_scheduled_ says whether it has one.                          *)
(***************************************************************************)
Calls(p) == pc[p] \in {"schedule", "unschedule"}
Reports  == pc["chip"] \in {"update", "clear"}

TokenInv ==
  /\ work \in {0, 1}
  /\ report_scheduled <=> \/ Calls("main") \/ Calls("task") \/ Calls("chip")
                          \/ Reports \/ work = 1
  /\ Calls("main") => ~Calls("task") /\ ~Calls("chip") /\ ~Reports /\ work = 0
  /\ Calls("task") => ~Calls("chip") /\ ~Reports /\ work = 0
  /\ Calls("chip") => work = 0
  /\ Reports => work = 0

(***************************************************************************)
(* The switch task has changed state_ but not yet told the observer.       *)
(***************************************************************************)
MidChange == pc["task"] \in {"save", "saving", "notify"}

(***************************************************************************)
(* A report that will read pending_state_ later than now is certain, or    *)
(* the right to schedule one is still to be asked for.                     *)
(***************************************************************************)
ReportToCome ==
  \/ work = 1
  \/ pc["main"] \in {"exchange", "schedule"}
  \/ MidChange \/ pc["task"] \in {"check_started", "exchange", "schedule"}

(***************************************************************************)
(* The strengthening of ControllerAgrees.  While a controller's command is *)
(* in the queue the attribute may be ahead of the switch; while a report   *)
(* is due it may be behind; otherwise the two agree.                       *)
(***************************************************************************)
AgreeInv ==
  /\ pc["task"] # "none" /\ MatterEnabled /\ ~MidChange => pending_state = state
  /\ \A p \in Tasks : pc[p] = "unschedule" => report_lost
  /\ pc["chip"] \in {"clear", "recheck", "exchange", "schedule", "unschedule"}
       => report_lost \/ attr = chip_val
  /\ pc["chip"] = "write" /\ started /\ ~report_lost
       => ReportToCome \/ CommandQueued(chip_val) \/ chip_val = pending_state
  /\ pc["chip"] \in {"idle", "write"} /\ started /\ ~report_lost
       => ReportToCome \/ CommandQueued(attr) \/ attr = pending_state

(***************************************************************************)
(* The strengthening of RebootRestoresState: the store has been given the  *)
(* state, or NVS had it when the device started.                           *)
(***************************************************************************)
SavedInv ==
  /\ save_pc # "idle" <=> pc["task"] = "saving"
  /\ pc["task"] = "saving" => pending_on = state /\ ~unsaved
  /\ pc["task"] = "save" => ~unsaved
  /\ pc["main"] = "initialize" => timer = "none"
  /\ pc["main"] # "initialize" /\ ~unsaved /\ pc["task"] # "save"
       => \/ timer # "none" /\ pending_on = state
          \/ timer = "none" /\ (store_lost \/ (Store!LoadOk /\ Store!Loaded) = state)

(***************************************************************************)
(* The strengthening of OutputsFollowState, also while the state is being  *)
(* saved and reported.                                                     *)
(***************************************************************************)
OutputsInv ==
  pc["main"] \notin {"initialize", "failed"} /\ ("gpio" \in Failures => ~unsaved)
    => relay = state /\ led = state

SwitchInv ==
  /\ TypeOK /\ BootInv /\ TokenInv /\ AgreeInv /\ SavedInv /\ OutputsInv
  /\ StoreP!StoreInv

-----------------------------------------------------------------------------
(* The boot order is kept by every step, a power loss included. *)
LEMMA BootStep ==
  TypeOK /\ BootInv /\ [Next]_vars => BootInv'
<1> SUFFICES ASSUME TypeOK, BootInv, [Next]_vars
             PROVE  BootInv'
    OBVIOUS
<1> USE DEF TypeOK, ControlTypeOK, DataTypeOK, BootInv, Goto, Tasks, switchVars, matterVars, storeVars
<1>1. CASE Initialize
      BY <1>1 DEF Initialize, Apply, OutputSet
<1>2. CASE StartRuntime
      BY <1>2 DEF StartRuntime
<1>3. CASE CreateNode
      BY <1>3 DEF CreateNode
<1>4. CASE StartMatter
      BY <1>4 DEF StartMatter
<1>5. CASE SetStarted
      BY <1>5 DEF SetStarted
<1>6. CASE Receive
      BY <1>6 DEF Receive, ChangeState, Apply, OutputSet
<1>7. CASE Poll
      BY <1>7 DEF Poll
<1>8. CASE SampleNothing
      BY <1>8 DEF SampleNothing
<1>9. CASE ShortPress
      BY <1>9 DEF ShortPress, ChangeState, Apply, OutputSet
<1>10. CASE SaveState
      BY <1>10 DEF SaveState, SaveReturns
<1>11. CASE Notify
      BY <1>11 DEF Notify
<1>12. CASE CheckStarted
      BY <1>12 DEF CheckStarted
<1>13. CASE ButtonIsr
      BY <1>13 DEF ButtonIsr
<1>14. CASE WriteAttribute
      BY <1>14 DEF WriteAttribute
<1>15. CASE ReportLoad
      BY <1>15 DEF ReportLoad
<1>16. CASE ReportUpdate
      BY <1>16 DEF ReportUpdate, AttributeUpdateCallback
<1>17. CASE ReportClear
      BY <1>17 DEF ReportClear
<1>18. CASE ReportRecheck
      BY <1>18 DEF ReportRecheck
<1>19. CASE FlushState
      BY <1>19 DEF FlushState
<1>20. CASE PowerLoss
      BY <1>20 DEF PowerLoss
<1>21. ASSUME NEW p \in Tasks, Exchange(p) PROVE BootInv'
      BY <1>21 DEF Exchange, ScheduleReturn
<1>22. ASSUME NEW p \in Tasks, ScheduleWork(p) PROVE BootInv'
      BY <1>22 DEF ScheduleWork, ScheduleReturn
<1>23. ASSUME NEW p \in Tasks, Unschedule(p) PROVE BootInv'
      BY <1>23 DEF Unschedule, ScheduleReturn
<1>24. ASSUME NEW on \in BOOLEAN, RemoteWrite(on) PROVE BootInv'
      BY <1>24 DEF RemoteWrite, AttributeUpdateCallback
<1>25. CASE UNCHANGED vars
      BY <1>25 DEF vars
<1>26. QED
      BY <1>1, <1>2, <1>3, <1>4, <1>5, <1>6, <1>7, <1>8, <1>9, <1>10, <1>11, <1>12, <1>13, <1>14, <1>15, <1>16, <1>17, <1>18, <1>19, <1>20, <1>21, <1>22, <1>23, <1>24, <1>25
      DEF Next, MainStep, TaskStep, ChipStep, ScheduleStep, UserInput

(* No step gives the right to report a second holder, or loses it. *)
LEMMA TokenStep ==
  TypeOK /\ BootInv /\ TokenInv /\ [Next]_vars => TokenInv'
<1> SUFFICES ASSUME TypeOK, BootInv, TokenInv, [Next]_vars
             PROVE  TokenInv'
    OBVIOUS
<1> USE DEF TypeOK, ControlTypeOK, DataTypeOK, BootInv, TokenInv, Calls, Reports, Goto, Tasks, switchVars, matterVars, storeVars
<1>1. CASE Initialize
      BY <1>1 DEF Initialize, Apply, OutputSet
<1>2. CASE StartRuntime
      BY <1>2 DEF StartRuntime
<1>3. CASE CreateNode
      BY <1>3 DEF CreateNode
<1>4. CASE StartMatter
      BY <1>4 DEF StartMatter
<1>5. CASE SetStarted
      BY <1>5 DEF SetStarted
<1>6. CASE Receive
      BY <1>6 DEF Receive, ChangeState, Apply, OutputSet
<1>7. CASE Poll
      BY <1>7 DEF Poll
<1>8. CASE SampleNothing
      BY <1>8 DEF SampleNothing
<1>9. CASE ShortPress
      BY <1>9 DEF ShortPress, ChangeState, Apply, OutputSet
<1>10. CASE SaveState
      BY <1>10 DEF SaveState, SaveReturns
<1>11. CASE Notify
      BY <1>11 DEF Notify
<1>12. CASE CheckStarted
      BY <1>12 DEF CheckStarted
<1>13. CASE ButtonIsr
      BY <1>13 DEF ButtonIsr
<1>14. CASE WriteAttribute
      BY <1>14 DEF WriteAttribute
<1>15. CASE ReportLoad
      BY <1>15 DEF ReportLoad
<1>16. CASE ReportUpdate
      BY <1>16 DEF ReportUpdate, AttributeUpdateCallback
<1>17. CASE ReportClear
      BY <1>17 DEF ReportClear
<1>18. CASE ReportRecheck
      BY <1>18 DEF ReportRecheck
<1>19. CASE FlushState
      BY <1>19 DEF FlushState
<1>20. CASE PowerLoss
      BY <1>20 DEF PowerLoss
<1>21. ASSUME NEW p \in Tasks, Exchange(p) PROVE TokenInv'
      BY <1>21 DEF Exchange, ScheduleReturn
<1>22. ASSUME NEW p \in Tasks, ScheduleWork(p) PROVE TokenInv'
      BY <1>22 DEF ScheduleWork, ScheduleReturn
<1>23. ASSUME NEW p \in Tasks, Unschedule(p) PROVE TokenInv'
      BY <1>23 DEF Unschedule, ScheduleReturn
<1>24. ASSUME NEW on \in BOOLEAN, RemoteWrite(on) PROVE TokenInv'
      BY <1>24 DEF RemoteWrite, AttributeUpdateCallback
<1>25. CASE UNCHANGED vars
      BY <1>25 DEF vars
<1>26. QED
      BY <1>1, <1>2, <1>3, <1>4, <1>5, <1>6, <1>7, <1>8, <1>9, <1>10, <1>11, <1>12, <1>13, <1>14, <1>15, <1>16, <1>17, <1>18, <1>19, <1>20, <1>21, <1>22, <1>23, <1>24, <1>25
      DEF Next, MainStep, TaskStep, ChipStep, ScheduleStep, UserInput

(* Taking the head off a queue leaves every other event in it. *)
LEMMA TailKeeps ==
  ASSUME NEW q \in Seq(Events), q # <<>>, NEW e, e # Head(q),
         \E i \in 1..Len(q) : q[i] = e
  PROVE  \E i \in 1..Len(Tail(q)) : Tail(q)[i] = e
<1>1. PICK i \in 1..Len(q) : q[i] = e
      OBVIOUS
<1>2. i # 1
      BY <1>1
<1>3. i - 1 \in 1..Len(Tail(q)) /\ Tail(q)[i - 1] = e
      BY <1>1, <1>2
<1>4. QED
      BY <1>3

(* Every step keeps the attribute, the queue and the due reports in agreement. *)
LEMMA AgreeStep ==
  TypeOK /\ BootInv /\ TokenInv /\ AgreeInv /\ [Next]_vars => AgreeInv'
<1> SUFFICES ASSUME TypeOK, BootInv, TokenInv, AgreeInv, [Next]_vars
             PROVE  AgreeInv'
    OBVIOUS
<1> USE DEF TypeOK, ControlTypeOK, DataTypeOK, BootInv, TokenInv, Calls, Reports, AgreeInv, MidChange, ReportToCome,
            CommandQueued, SetEvent, Events, Goto, Tasks, switchVars, matterVars, storeVars
<1>1. CASE Initialize
      BY <1>1 DEF Initialize, Apply, OutputSet
<1>2. CASE StartRuntime
      BY <1>2 DEF StartRuntime
<1>3. CASE CreateNode
      BY <1>3 DEF CreateNode
<1>4. CASE StartMatter
      BY <1>4 DEF StartMatter
<1>5. CASE SetStarted
      BY <1>5 DEF SetStarted
<1>6. CASE Receive
  <2>1. CASE Head(queue) = SetEvent(~state)
        BY <1>6, <2>1 DEF Receive, ChangeState, Apply, OutputSet
  <2>2. CASE Head(queue) # SetEvent(~state)
    <3>1. /\ queue # <<>> /\ queue' = Tail(queue)
          /\ pc["task"] = "receive" /\ pc' = [pc EXCEPT !["task"] = "sample"]
          /\ UNCHANGED <<switchVars, matterVars, storeVars>>
          BY <1>6, <2>2 DEF Receive
    <3>2. ASSUME NEW v \in BOOLEAN, CommandQueued(v), v # state
          PROVE  \E i \in 1..Len(queue') : queue'[i] = SetEvent(v)
      <4>1. SetEvent(v) # Head(queue)
            BY <2>2, <3>2
      <4>2. \E i \in 1..Len(queue) : queue[i] = SetEvent(v)
            BY <3>2
      <4>3. queue \in Seq(Events) /\ queue # <<>>
            BY <3>1
      <4>   HIDE DEF SetEvent, Events, TypeOK
      <4>4. \E i \in 1..Len(Tail(queue)) : Tail(queue)[i] = SetEvent(v)
            BY <4>1, <4>2, <4>3, TailKeeps
      <4>5. QED
            BY <3>1, <4>4
    <3>3. QED
          BY <3>1, <3>2
  <2>3. QED
        BY <2>1, <2>2
<1>7. CASE Poll
      BY <1>7 DEF Poll
<1>8. CASE SampleNothing
      BY <1>8 DEF SampleNothing
<1>9. CASE ShortPress
      BY <1>9 DEF ShortPress, ChangeState, Apply, OutputSet
<1>10. CASE SaveState
      BY <1>10 DEF SaveState, SaveReturns
<1>11. CASE Notify
      BY <1>11 DEF Notify
<1>12. CASE CheckStarted
      BY <1>12 DEF CheckStarted
<1>13. CASE ButtonIsr
      BY <1>13 DEF ButtonIsr
<1>14. CASE WriteAttribute
      BY <1>14 DEF WriteAttribute
<1>15. CASE ReportLoad
      BY <1>15 DEF ReportLoad
<1>16. CASE ReportUpdate
      BY <1>16 DEF ReportUpdate, AttributeUpdateCallback
<1>17. CASE ReportClear
      BY <1>17 DEF ReportClear
<1>18. CASE ReportRecheck
      BY <1>18 DEF ReportRecheck
<1>19. CASE FlushState
      BY <1>19 DEF FlushState
<1>20. CASE PowerLoss
      BY <1>20 DEF PowerLoss
<1>21. ASSUME NEW p \in Tasks, Exchange(p) PROVE AgreeInv'
      BY <1>21 DEF Exchange, ScheduleReturn
<1>22. ASSUME NEW p \in Tasks, ScheduleWork(p) PROVE AgreeInv'
      BY <1>22 DEF ScheduleWork, ScheduleReturn
<1>23. ASSUME NEW p \in Tasks, Unschedule(p) PROVE AgreeInv'
      BY <1>23 DEF Unschedule, ScheduleReturn
<1>24. ASSUME NEW on \in BOOLEAN, RemoteWrite(on) PROVE AgreeInv'
      BY <1>24 DEF RemoteWrite, AttributeUpdateCallback
<1>25. CASE UNCHANGED vars
      BY <1>25 DEF vars
<1>26. QED
      BY <1>1, <1>2, <1>3, <1>4, <1>5, <1>6, <1>7, <1>8, <1>9, <1>10, <1>11, <1>12,
         <1>13, <1>14, <1>15, <1>16, <1>17, <1>18, <1>19, <1>20, <1>21, <1>22, <1>23, <1>24, <1>25
      DEF Next, MainStep, TaskStep, ChipStep, ScheduleStep, UserInput

(* Every task stays within its labels. *)
LEMMA ControlTypeStep ==
  ControlTypeOK /\ [Next]_vars => ControlTypeOK'
<1> SUFFICES ASSUME ControlTypeOK, [Next]_vars
             PROVE  ControlTypeOK'
    OBVIOUS
<1> USE DEF ControlTypeOK, MainLabels, TaskLabels, ChipLabels, Goto, Tasks, switchVars, matterVars, storeVars
<1>1. CASE Initialize
      BY <1>1 DEF Initialize, Apply, OutputSet
<1>2. CASE StartRuntime
      BY <1>2 DEF StartRuntime
<1>3. CASE CreateNode
      BY <1>3 DEF CreateNode
<1>4. CASE StartMatter
      BY <1>4 DEF StartMatter
<1>5. CASE SetStarted
      BY <1>5 DEF SetStarted
<1>6. CASE Receive
      BY <1>6 DEF Receive, ChangeState, Apply, OutputSet
<1>7. CASE Poll
      BY <1>7 DEF Poll
<1>8. CASE SampleNothing
      BY <1>8 DEF SampleNothing
<1>9. CASE ShortPress
      BY <1>9 DEF ShortPress, ChangeState, Apply, OutputSet
<1>10. CASE SaveState
      BY <1>10 DEF SaveState, SaveReturns
<1>11. CASE Notify
      BY <1>11 DEF Notify
<1>12. CASE CheckStarted
      BY <1>12 DEF CheckStarted
<1>13. CASE ButtonIsr
      BY <1>13 DEF ButtonIsr
<1>14. CASE WriteAttribute
      BY <1>14 DEF WriteAttribute
<1>15. CASE ReportLoad
      BY <1>15 DEF ReportLoad
<1>16. CASE ReportUpdate
      BY <1>16 DEF ReportUpdate, AttributeUpdateCallback
<1>17. CASE ReportClear
      BY <1>17 DEF ReportClear
<1>18. CASE ReportRecheck
      BY <1>18 DEF ReportRecheck
<1>19. CASE FlushState
      BY <1>19 DEF FlushState
<1>20. CASE PowerLoss
      BY <1>20 DEF PowerLoss
<1>21. ASSUME NEW p \in Tasks, Exchange(p) PROVE ControlTypeOK'
      BY <1>21 DEF Exchange, ScheduleReturn
<1>22. ASSUME NEW p \in Tasks, ScheduleWork(p) PROVE ControlTypeOK'
      BY <1>22 DEF ScheduleWork, ScheduleReturn
<1>23. ASSUME NEW p \in Tasks, Unschedule(p) PROVE ControlTypeOK'
      BY <1>23 DEF Unschedule, ScheduleReturn
<1>24. ASSUME NEW on \in BOOLEAN, RemoteWrite(on) PROVE ControlTypeOK'
      BY <1>24 DEF RemoteWrite, AttributeUpdateCallback
<1>25. CASE UNCHANGED vars
      BY <1>25 DEF vars
<1>26. QED
      BY <1>1, <1>2, <1>3, <1>4, <1>5, <1>6, <1>7, <1>8, <1>9, <1>10, <1>11, <1>12,
         <1>13, <1>14, <1>15, <1>16, <1>17, <1>18, <1>19, <1>20, <1>21, <1>22, <1>23, <1>24, <1>25
      DEF Next, MainStep, TaskStep, ChipStep, ScheduleStep, UserInput

(* The empty queue is a queue. *)
LEMMA EmptyQueue == <<>> \in Seq(Events) /\ Len(<<>>) <= kQueueDepth
  BY SwitchAssumption

(* Every step keeps the types of the data. *)
LEMMA DataTypeStep ==
  BootInv /\ DataTypeOK /\ [Next]_vars => DataTypeOK'
<1> SUFFICES ASSUME BootInv, DataTypeOK, [Next]_vars
             PROVE  DataTypeOK'
    OBVIOUS
<1> USE DEF BootInv, DataTypeOK, Events, SetEvent, Goto, Tasks, switchVars, matterVars, storeVars
<1>1. CASE Initialize
      BY <1>1, SwitchAssumption DEF Initialize, Apply, OutputSet
<1>2. CASE StartRuntime
      BY <1>2 DEF StartRuntime
<1>3. CASE CreateNode
      BY <1>3 DEF CreateNode
<1>4. CASE StartMatter
      BY <1>4 DEF StartMatter
<1>5. CASE SetStarted
      BY <1>5 DEF SetStarted
<1>6. CASE Receive
  <2>1. queue' \in Seq(Events) /\ Len(queue') <= kQueueDepth
    <3>1. queue # <<>> /\ queue' = Tail(queue)
          BY <1>6 DEF Receive
    <3>2. Tail(queue) \in Seq(Events) /\ Len(Tail(queue)) = Len(queue) - 1
          BY <3>1
    <3>3. QED
          BY <3>1, <3>2, SwitchAssumption
  <2>2. UNCHANGED matterVars
        BY <1>6 DEF Receive
  <2>3. state' \in BOOLEAN /\ relay' \in BOOLEAN /\ led' \in BOOLEAN /\ unsaved' \in BOOLEAN
        BY <1>6 DEF Receive, ChangeState, Apply, OutputSet
  <2>4. QED
        BY <2>1, <2>2, <2>3
<1>7. CASE Poll
      BY <1>7 DEF Poll
<1>8. CASE SampleNothing
      BY <1>8 DEF SampleNothing
<1>9. CASE ShortPress
  <2>1. UNCHANGED <<queue, matterVars>>
        BY <1>9 DEF ShortPress
  <2>2. state' \in BOOLEAN /\ relay' \in BOOLEAN /\ led' \in BOOLEAN /\ unsaved' \in BOOLEAN
        BY <1>9 DEF ShortPress, ChangeState, Apply, OutputSet
  <2>3. QED
        BY <2>1, <2>2
<1>10. CASE SaveState
      BY <1>10 DEF SaveState, SaveReturns
<1>11. CASE Notify
      BY <1>11 DEF Notify
<1>12. CASE CheckStarted
      BY <1>12 DEF CheckStarted
<1>13. CASE ButtonIsr
      BY <1>13, SwitchAssumption DEF ButtonIsr
<1>14. CASE WriteAttribute
      BY <1>14 DEF WriteAttribute
<1>15. CASE ReportLoad
      BY <1>15 DEF ReportLoad
<1>16. CASE ReportUpdate
      BY <1>16, SwitchAssumption DEF ReportUpdate, AttributeUpdateCallback
<1>17. CASE ReportClear
      BY <1>17 DEF ReportClear
<1>18. CASE ReportRecheck
      BY <1>18 DEF ReportRecheck
<1>19. CASE FlushState
      BY <1>19 DEF FlushState
<1>20. CASE PowerLoss
  <2>1. queue' \in Seq(Events) /\ Len(queue') <= kQueueDepth
        BY <1>20, SwitchAssumption, EmptyQueue DEF PowerLoss
  <2>2. QED
        BY <1>20, <2>1 DEF PowerLoss
<1>21. ASSUME NEW p \in Tasks, Exchange(p) PROVE DataTypeOK'
      BY <1>21 DEF Exchange, ScheduleReturn
<1>22. ASSUME NEW p \in Tasks, ScheduleWork(p) PROVE DataTypeOK'
  <2>1. work' = work + 1 \/ work' = work
        BY <1>22 DEF ScheduleWork
  <2>2. report_lost' \in BOOLEAN
        BY <1>22 DEF ScheduleWork
  <2>3. UNCHANGED <<queue, state, relay, led, unsaved, pending_state, started,
                    report_scheduled, applying_report, chip_val, attr>>
        BY <1>22 DEF ScheduleWork
  <2>4. QED
        BY <2>1, <2>2, <2>3
<1>23. ASSUME NEW p \in Tasks, Unschedule(p) PROVE DataTypeOK'
      BY <1>23 DEF Unschedule, ScheduleReturn
<1>24. ASSUME NEW on \in BOOLEAN, RemoteWrite(on) PROVE DataTypeOK'
      BY <1>24, SwitchAssumption DEF RemoteWrite, AttributeUpdateCallback
<1>25. CASE UNCHANGED vars
      BY <1>25 DEF vars
<1>26. QED
      BY <1>1, <1>2, <1>3, <1>4, <1>5, <1>6, <1>7, <1>8, <1>9, <1>10, <1>11, <1>12,
         <1>13, <1>14, <1>15, <1>16, <1>17, <1>18, <1>19, <1>20, <1>21, <1>22, <1>23, <1>24, <1>25
      DEF Next, MainStep, TaskStep, ChipStep, ScheduleStep, UserInput

(* Every step keeps track of what the store has been given. *)
LEMMA SavedStep ==
  TypeOK /\ BootInv /\ SavedInv /\ StoreP!StoreInv /\ [Next]_vars => SavedInv'
<1> SUFFICES ASSUME TypeOK, BootInv, SavedInv, StoreP!StoreInv, [Next]_vars
             PROVE  SavedInv'
    OBVIOUS
<1> USE DEF TypeOK, ControlTypeOK, DataTypeOK, BootInv, SavedInv, StoreP!StoreInv, Store!StoreTypeOK, StoreP!StoreTypeOK,
            Store!LoadOk, Store!Loaded, Store!Stored, Goto, Tasks, switchVars, matterVars, storeVars
<1>1. CASE Initialize
      BY <1>1 DEF Initialize, Apply, OutputSet
<1>2. CASE StartRuntime
      BY <1>2 DEF StartRuntime
<1>3. CASE CreateNode
      BY <1>3 DEF CreateNode
<1>4. CASE StartMatter
      BY <1>4 DEF StartMatter
<1>5. CASE SetStarted
      BY <1>5 DEF SetStarted
<1>6. CASE Receive
      BY <1>6 DEF Receive, ChangeState, Apply, OutputSet
<1>7. CASE Poll
      BY <1>7 DEF Poll
<1>8. CASE SampleNothing
      BY <1>8 DEF SampleNothing
<1>9. CASE ShortPress
      BY <1>9 DEF ShortPress, ChangeState, Apply, OutputSet
<1>10. CASE SaveState
      BY <1>10 DEF SaveState, SaveReturns, Store!SaveBegin, Store!SaveStop, Store!SaveStart
<1>11. CASE Notify
      BY <1>11 DEF Notify
<1>12. CASE CheckStarted
      BY <1>12 DEF CheckStarted
<1>13. CASE ButtonIsr
      BY <1>13 DEF ButtonIsr
<1>14. CASE WriteAttribute
      BY <1>14 DEF WriteAttribute
<1>15. CASE ReportLoad
      BY <1>15 DEF ReportLoad
<1>16. CASE ReportUpdate
      BY <1>16 DEF ReportUpdate, AttributeUpdateCallback
<1>17. CASE ReportClear
      BY <1>17 DEF ReportClear
<1>18. CASE ReportRecheck
      BY <1>18 DEF ReportRecheck
<1>19. CASE FlushState
      BY <1>19 DEF FlushState, Store!Flush, Store!TimerFires, Store!FlushLoad, Store!FlushSchema, Store!FlushRelay, Store!CommitFails
<1>20. CASE PowerLoss
      BY <1>20 DEF PowerLoss, Store!StorePowerLoss
<1>21. ASSUME NEW p \in Tasks, Exchange(p) PROVE SavedInv'
      BY <1>21 DEF Exchange, ScheduleReturn
<1>22. ASSUME NEW p \in Tasks, ScheduleWork(p) PROVE SavedInv'
      BY <1>22 DEF ScheduleWork, ScheduleReturn
<1>23. ASSUME NEW p \in Tasks, Unschedule(p) PROVE SavedInv'
      BY <1>23 DEF Unschedule, ScheduleReturn
<1>24. ASSUME NEW on \in BOOLEAN, RemoteWrite(on) PROVE SavedInv'
      BY <1>24 DEF RemoteWrite, AttributeUpdateCallback
<1>25. CASE UNCHANGED vars
      BY <1>25 DEF vars
<1>26. QED
      BY <1>1, <1>2, <1>3, <1>4, <1>5, <1>6, <1>7, <1>8, <1>9, <1>10, <1>11, <1>12,
         <1>13, <1>14, <1>15, <1>16, <1>17, <1>18, <1>19, <1>20, <1>21, <1>22, <1>23, <1>24, <1>25
      DEF Next, MainStep, TaskStep, ChipStep, ScheduleStep, UserInput

(* Every step that changes the state sets both outputs or is known to have failed. *)
LEMMA OutputsStep ==
  TypeOK /\ OutputsInv /\ [Next]_vars => OutputsInv'
<1> SUFFICES ASSUME TypeOK, OutputsInv, [Next]_vars
             PROVE  OutputsInv'
    OBVIOUS
<1> USE DEF TypeOK, ControlTypeOK, DataTypeOK, OutputsInv, Goto, Tasks, switchVars, matterVars, storeVars
(* set() through any caller. *)
<1>c. ASSUME NEW on \in BOOLEAN, NEW back, ChangeState(on, back)
      PROVE  OutputsInv'
      BY <1>c DEF ChangeState, Apply, OutputSet
<1>1. CASE Initialize
      BY <1>1 DEF Initialize, Apply, OutputSet
<1>2. CASE StartRuntime
      BY <1>2 DEF StartRuntime
<1>3. CASE CreateNode
      BY <1>3 DEF CreateNode
<1>4. CASE StartMatter
      BY <1>4 DEF StartMatter
<1>5. CASE SetStarted
      BY <1>5 DEF SetStarted
<1>6. CASE Receive
  <2>1. CASE ChangeState(~state, "sample")
        BY <2>1, <1>c
  <2>2. CASE Goto("task", "sample") /\ UNCHANGED switchVars
        BY <2>2
  <2>3. QED
        BY <1>6, <2>1, <2>2 DEF Receive
<1>7. CASE Poll
      BY <1>7 DEF Poll
<1>8. CASE SampleNothing
      BY <1>8 DEF SampleNothing
<1>9. CASE ShortPress
      BY <1>9, <1>c DEF ShortPress
<1>10. CASE SaveState
      BY <1>10 DEF SaveState, SaveReturns
<1>11. CASE Notify
      BY <1>11 DEF Notify
<1>12. CASE CheckStarted
      BY <1>12 DEF CheckStarted
<1>13. CASE ButtonIsr
      BY <1>13 DEF ButtonIsr
<1>14. CASE WriteAttribute
      BY <1>14 DEF WriteAttribute
<1>15. CASE ReportLoad
      BY <1>15 DEF ReportLoad
<1>16. CASE ReportUpdate
      BY <1>16 DEF ReportUpdate, AttributeUpdateCallback
<1>17. CASE ReportClear
      BY <1>17 DEF ReportClear
<1>18. CASE ReportRecheck
      BY <1>18 DEF ReportRecheck
<1>19. CASE FlushState
      BY <1>19 DEF FlushState
<1>20. CASE PowerLoss
      BY <1>20 DEF PowerLoss
<1>21. ASSUME NEW p \in Tasks, Exchange(p) PROVE OutputsInv'
      BY <1>21 DEF Exchange, ScheduleReturn
<1>22. ASSUME NEW p \in Tasks, ScheduleWork(p) PROVE OutputsInv'
      BY <1>22 DEF ScheduleWork, ScheduleReturn
<1>23. ASSUME NEW p \in Tasks, Unschedule(p) PROVE OutputsInv'
      BY <1>23 DEF Unschedule, ScheduleReturn
<1>24. ASSUME NEW on \in BOOLEAN, RemoteWrite(on) PROVE OutputsInv'
      BY <1>24 DEF RemoteWrite, AttributeUpdateCallback
<1>25. CASE UNCHANGED vars
      BY <1>25 DEF vars
<1>26. QED
      BY <1>1, <1>2, <1>3, <1>4, <1>5, <1>6, <1>7, <1>8, <1>9, <1>10, <1>11, <1>12,
         <1>13, <1>14, <1>15, <1>16, <1>17, <1>18, <1>19, <1>20, <1>21, <1>22, <1>23, <1>24, <1>25
      DEF Next, MainStep, TaskStep, ChipStep, ScheduleStep, UserInput

(***************************************************************************)
(* Every step of the firmware is a step of the store or leaves the store   *)
(* alone.                                                                  *)
(***************************************************************************)
LEMMA StoreMap == TypeOK /\ [Next]_vars => [Store!Next]_storeVars
<1> SUFFICES ASSUME TypeOK, [Next]_vars PROVE [Store!Next]_storeVars
    OBVIOUS
<1>1. CASE SaveState
      BY <1>1 DEF SaveState, Store!Next, Store!Save, TypeOK, DataTypeOK
<1>2. CASE FlushState
      BY <1>2 DEF FlushState, Store!Next
<1>3. CASE PowerLoss
      BY <1>3 DEF PowerLoss, Store!Next
<1>4. CASE MainStep \/ Poll \/ UserInput
      BY <1>4 DEF MainStep, Initialize, StartRuntime, CreateNode, StartMatter, SetStarted,
                  Poll, UserInput, ShortPress, ButtonIsr, RemoteWrite, storeVars
<1>5. CASE Receive \/ SampleNothing \/ Notify \/ CheckStarted
      BY <1>5 DEF Receive, SampleNothing, Notify, CheckStarted, storeVars
<1>6. CASE ChipStep
      BY <1>6 DEF ChipStep, WriteAttribute, ReportLoad, ReportUpdate, ReportClear,
                  ReportRecheck, matterVars, storeVars
<1>7. ASSUME NEW p \in Tasks, ScheduleStep(p) PROVE UNCHANGED storeVars
      BY <1>7 DEF ScheduleStep, Exchange, ScheduleWork, Unschedule, storeVars
<1>8. CASE UNCHANGED vars
      BY <1>8 DEF vars, storeVars
<1>9. QED
      BY <1>1, <1>2, <1>3, <1>4, <1>5, <1>6, <1>7, <1>8 DEF Next, TaskStep

(* The store that was proved about is the store of the on/off path. *)
LEMMA SameStore == Store!Next => StoreP!Next
  BY DEF Store!Next, Store!Save, Store!SaveBegin, Store!SaveStop, Store!SaveStart,
         Store!Flush, Store!TimerFires, Store!FlushLoad, Store!FlushSchema,
         Store!FlushRelay, Store!CommitFails, Store!StorePowerLoss, Store!Stored,
         StoreP!Next, StoreP!Save, StoreP!SaveBegin, StoreP!SaveStop, StoreP!SaveStart,
         StoreP!Flush, StoreP!TimerFires, StoreP!FlushLoad, StoreP!FlushSchema,
         StoreP!FlushRelay, StoreP!CommitFails, StoreP!StorePowerLoss, StoreP!Stored

-----------------------------------------------------------------------------
(* Before app_main runs, all of the invariant holds. *)
LEMMA SwitchInit == Init => SwitchInv
<1> SUFFICES ASSUME Init PROVE SwitchInv
    OBVIOUS
<1> USE DEF Init, Store!Init, Store!StoreRamInit
<1>1. TypeOK
  <2>1. ControlTypeOK
        BY DEF ControlTypeOK, Tasks, MainLabels, TaskLabels, ChipLabels
  <2>2. DataTypeOK
        BY EmptyQueue DEF DataTypeOK
  <2>3. QED
        BY <2>1, <2>2 DEF TypeOK, Store!StoreTypeOK
<1>2. BootInv /\ TokenInv
      BY DEF BootInv, TokenInv, Calls, Reports
<1>3. AgreeInv /\ SavedInv /\ OutputsInv
      BY DEF AgreeInv, SavedInv, OutputsInv, Tasks, MidChange
<1>4. StoreP!StoreInv
      BY StoreP!StoreInit, SwitchAssumption DEF StoreP!Init, StoreP!StoreRamInit
<1>5. QED
      BY <1>1, <1>2, <1>3, <1>4 DEF SwitchInv

(* And every step preserves it. *)
LEMMA SwitchStep == SwitchInv /\ [Next]_vars => SwitchInv'
<1> SUFFICES ASSUME SwitchInv, [Next]_vars PROVE SwitchInv'
    OBVIOUS
<1>1. [StoreP!Next]_(StoreP!storeVars)
      BY StoreMap, SameStore DEF SwitchInv, StoreP!storeVars, storeVars
<1>2. StoreP!StoreInv'
      BY <1>1, StoreP!StoreStep, SwitchAssumption DEF SwitchInv
<1>3. QED
      BY <1>2, ControlTypeStep, DataTypeStep, BootStep, TokenStep, AgreeStep, SavedStep,
         OutputsStep
      DEF SwitchInv, TypeOK, StoreP!StoreInv, StoreP!StoreTypeOK, Store!StoreTypeOK

(* The inductive invariant of the on/off path. *)
THEOREM SwitchInvariant == Spec => []SwitchInv
  BY SwitchInit, SwitchStep, PTL DEF Spec

(* Every variable of the on/off path keeps its type. *)
THEOREM SwitchTypeCorrect == Spec => []TypeOK
<1>1. SwitchInv => TypeOK
      BY DEF SwitchInv
<1>2. QED
      BY <1>1, SwitchInvariant, PTL

(***************************************************************************)
(* schedule_state_report and report_state never put two reports in the     *)
(* CHIP queue, and report_scheduled_ is never left set with none to come,  *)
(* for every queue depth and every set of failing calls.                   *)
(***************************************************************************)
THEOREM SwitchOneReportInFlight == Spec => []OneReportInFlight
<1>1. TypeOK /\ TokenInv => OneReportInFlight
      BY DEF TypeOK, TokenInv, Calls, Reports, OneReportInFlight, ReportHolders, Tasks
<1>2. QED
      BY <1>1, SwitchInvariant, PTL DEF SwitchInv

(***************************************************************************)
(* At rest the OnOff attribute is the state of the switch, unless a report *)
(* failed and none has succeeded since.                                    *)
(***************************************************************************)
THEOREM SwitchControllerAgrees == Spec => []ControllerAgrees
<1>1. SwitchInv => ControllerAgrees
  <2> SUFFICES ASSUME SwitchInv, ReportAtRest, ~report_lost PROVE attr = state
      BY DEF ControllerAgrees
  <2>1. ~ReportToCome
      BY DEF ReportAtRest, TaskAtRest, ReportToCome, MidChange
  <2>2. attr = pending_state
      BY <2>1 DEF SwitchInv, AgreeInv, ReportAtRest, TypeOK, DataTypeOK
  <2>3. pending_state = state
      BY DEF SwitchInv, AgreeInv, BootInv, ReportAtRest, TaskAtRest, MidChange
  <2>4. QED
      BY <2>2, <2>3
<1>2. QED
      BY <1>1, SwitchInvariant, PTL

(***************************************************************************)
(* At rest a reset restores the state the switch has, unless an output     *)
(* could not be set or a call of the store failed.                         *)
(***************************************************************************)
THEOREM SwitchRebootRestoresState == Spec => []RebootRestoresState
<1>1. SwitchInv => RebootRestoresState
      BY DEF SwitchInv, SavedInv, RebootRestoresState, TaskAtRest, TypeOK,
             StoreP!StoreInv, StoreP!StoreTypeOK, StoreP!FlushOwed, StoreP!Stored,
             Store!LoadOk, Store!Loaded
<1>2. QED
      BY <1>1, SwitchInvariant, PTL

(***************************************************************************)
(* The relay and the indicator show every state that was restored or       *)
(* handed to the store, and every state if no output ever refuses.         *)
(***************************************************************************)
THEOREM SwitchOutputsFollowState == Spec => []OutputsFollowState
<1>1. SwitchInv => OutputsFollowState
      BY DEF SwitchInv, OutputsInv, OutputsFollowState
<1>2. QED
      BY <1>1, SwitchInvariant, PTL

=============================================================================
