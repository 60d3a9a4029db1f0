------------------------ MODULE SwitchRuntimeProofs ------------------------
(***************************************************************************)
(* The loop of the switch task and its button, for every debounce time,    *)
(* poll interval, queue depth, order of thresholds and lateness of the     *)
(* task.                                                                   *)
(***************************************************************************)
EXTENDS SwitchRuntime, TLAPS

RuntimeTypeOK ==
  /\ level \in BOOLEAN
  /\ queued \in 0..kQueueDepth /\ task \in {"wait", "sample"}
  /\ button \in ButtonStates
  /\ waited \in 0..kPollMs /\ lag \in 0..MaxLag
  /\ dwell \in 0..MaxDwell /\ held \in 0..MaxHold
  /\ boot_hold \in BOOLEAN /\ bounces \in BOOLEAN

-----------------------------------------------------------------------------
(* A sample of the button will be taken ... *)
Coming == task = "sample" \/ queued > 0 \/ is_active(button)

(* ... in at most so many ticks. *)
ToSample ==
  IF task = "sample" THEN MaxLag - lag
  ELSE IF queued > 0 \/ waited >= kPollMs THEN MaxLag - lag + MaxLag
  ELSE kPollMs - waited + 2 * MaxLag

(***************************************************************************)
(* The strengthening of DetectedInTime.  A level that was not sampled      *)
(* since it came will be in two lags; one that was is accepted by the      *)
(* first sample after the debounce time, a poll and two lags later.        *)
(***************************************************************************)
Unseen == dwell + ToSample <= 2 * MaxLag

Seen == /\ dwell <= button.since_change + 2 * MaxLag
        /\ dwell + ToSample < DetectionMs

LagInv == ~Due => lag = 0

ButtonInv ==
  /\ ~button.debouncing => button.stable_pressed = button.raw_last
  /\ button.debouncing
       => button.since_change + ToSample < debounce_ms + kPollMs + 2 * MaxLag

LevelInv ==
  ~(boot_hold /\ level) =>
    /\ level # button.raw_last => Coming /\ Unseen
    /\ level = button.raw_last /\ button.debouncing => Unseen \/ Seen

RuntimeInv == RuntimeTypeOK /\ LagInv /\ ButtonInv /\ LevelInv

-----------------------------------------------------------------------------
(* A distance of times counts up to the modulus of the clock. *)
LEMMA Advance ==
  ASSUME NEW m \in Nat \ {0}, NEW t \in 0..m-1
  PROVE  /\ (t + 1) % m \in 0..m-1
         /\ t + 1 < m => (t + 1) % m = t + 1
OBVIOUS

(* The constants as the arithmetic below needs them. *)
LEMMA Durations ==
  /\ debounce_ms \in Nat /\ debounce_ms > 0 /\ kPollMs \in Nat /\ kPollMs > 0
  /\ MaxLag \in Nat /\ MaxHold \in Nat /\ MinDwell \in Nat /\ kQueueDepth \in Nat
  /\ kQueueDepth > 0 /\ TimeModulus \in Nat \ {0}
  /\ DetectionMs = debounce_ms + kPollMs + 4 * MaxLag
  /\ DetectionMs \in Nat /\ MaxDwell \in Nat /\ DetectionMs <= MaxDwell
  /\ MinDwell <= MaxDwell
  /\ MaxHold + DetectionMs < TimeModulus
BY ButtonAssumption, RuntimeAssumption DEF DetectionMs, MaxDwell

(* ButtonInput::update: a changed level starts the debounce time ... *)
LEMMA UpdateChanged ==
  ASSUME NEW b \in ButtonStates, NEW raw \in BOOLEAN, raw # b.raw_last
  PROVE  /\ Updated(b, raw) \in ButtonStates
         /\ Updated(b, raw).raw_last = raw /\ Updated(b, raw).debouncing
         /\ Updated(b, raw).since_change = 0
         /\ Updated(b, raw).stable_pressed = b.stable_pressed
         /\ Updated(b, raw).since_press = b.since_press
<1>1. 0 \in 0..TimeModulus - 1
      BY Durations
<1>2. Updated(b, raw) = [b EXCEPT !.raw_last = raw, !.debouncing = TRUE, !.since_change = 0]
      BY DEF Updated
<1>3. QED
      BY <1>1, <1>2 DEF ButtonStates

(* ... and one that lasted for it is accepted. *)
LEMMA UpdateAccepted ==
  ASSUME NEW b \in ButtonStates, NEW raw \in BOOLEAN, DebounceOver(b, raw)
  PROVE  /\ Updated(b, raw) \in ButtonStates
         /\ Updated(b, raw).raw_last = raw /\ ~Updated(b, raw).debouncing
         /\ Updated(b, raw).stable_pressed = raw
         /\ Updated(b, raw).since_press = IF raw /\ ~b.stable_pressed THEN 0 ELSE b.since_press
<1>1. 0 \in 0..TimeModulus - 1
      BY Durations
<1>2. Updated(b, raw) = [b EXCEPT !.debouncing = FALSE, !.stable_pressed = raw,
                                  !.since_press = IF raw /\ ~b.stable_pressed THEN 0 ELSE @]
      BY DEF Updated, DebounceOver
<1>3. b.raw_last = raw
      BY DEF DebounceOver
<1>4. QED
      BY <1>1, <1>2, <1>3 DEF ButtonStates

(* Otherwise nothing changes. *)
LEMMA UpdateNothing ==
  ASSUME NEW b \in ButtonStates, NEW raw \in BOOLEAN, raw = b.raw_last, ~DebounceOver(b, raw)
  PROVE  Updated(b, raw) = b
BY DEF Updated

(* A tick only moves the two distances that are in use. *)
LEMMA AgedFacts ==
  ASSUME NEW b \in ButtonStates
  PROVE  /\ Aged(b) \in ButtonStates
         /\ Aged(b).raw_last = b.raw_last /\ Aged(b).debouncing = b.debouncing
         /\ Aged(b).stable_pressed = b.stable_pressed
         /\ b.debouncing /\ b.since_change + 1 < TimeModulus
              => Aged(b).since_change = b.since_change + 1
         /\ b.stable_pressed /\ b.since_press + 1 < TimeModulus
              => Aged(b).since_press = b.since_press + 1
         /\ ~b.stable_pressed => Aged(b).since_press = b.since_press
<1>1. /\ b.since_change \in 0..TimeModulus - 1 /\ b.since_press \in 0..TimeModulus - 1
      /\ TimeModulus \in Nat \ {0}
      BY Durations DEF ButtonStates
<1>2. /\ (b.since_change + 1) % TimeModulus \in 0..TimeModulus - 1
      /\ (b.since_press + 1) % TimeModulus \in 0..TimeModulus - 1
      /\ b.since_change + 1 < TimeModulus
           => (b.since_change + 1) % TimeModulus = b.since_change + 1
      /\ b.since_press + 1 < TimeModulus
           => (b.since_press + 1) % TimeModulus = b.since_press + 1
      BY <1>1, Advance
<1>3. QED
      BY <1>1, <1>2 DEF Aged, ButtonStates

-----------------------------------------------------------------------------
(* Every step keeps the types and the bound on the lateness. *)
LEMMA RuntimeTypeStep ==
  RuntimeTypeOK /\ LagInv /\ [Next]_vars => RuntimeTypeOK' /\ LagInv'
<1> SUFFICES ASSUME RuntimeTypeOK, LagInv, [Next]_vars PROVE RuntimeTypeOK' /\ LagInv'
    OBVIOUS
<1>a. Aged(button) \in ButtonStates /\ is_active(Aged(button)) = is_active(button)
      BY AgedFacts DEF RuntimeTypeOK, is_active
<1>u. Updated(button, level) \in ButtonStates
      BY UpdateChanged, UpdateAccepted, UpdateNothing DEF RuntimeTypeOK
<1> USE Durations DEF RuntimeTypeOK, LagInv, Due
<1>1. CASE Edge
      BY <1>1 DEF Edge, IsrQueued
<1>2. CASE PostSetSwitch
      BY <1>2 DEF PostSetSwitch
<1>3. CASE Receive
      BY <1>3 DEF Receive
<1>4. CASE PollTimeout
      BY <1>4 DEF PollTimeout
<1>5. CASE Sample
      BY <1>5, <1>u DEF Sample
<1>6. CASE Tick
      BY <1>6, <1>a DEF Tick, UpTo
<1>7. CASE UNCHANGED vars
      BY <1>7 DEF vars
<1>8. QED
      BY <1>1, <1>2, <1>3, <1>4, <1>5, <1>6, <1>7 DEF Next, TaskStep

(* What a step does to the time until the next sample. *)
Within(n) == \E k \in 0..n : ToSample' = k

Sooner == Coming => Coming' /\ Within(ToSample)

(* An interrupt, a command and a wake-up never postpone a sample. *)
LEMMA SampleSooner ==
  ASSUME RuntimeTypeOK, LagInv, Edge \/ PostSetSwitch \/ Receive \/ PollTimeout \/ UNCHANGED vars
  PROVE  Sooner
<1> SUFFICES ASSUME Coming PROVE Coming' /\ Within(ToSample)
    BY DEF Sooner
<1>t. ToSample \in Nat /\ MaxLag - lag \in Nat
      BY Durations DEF RuntimeTypeOK, ToSample
<1>k. ASSUME NEW k \in Nat, k <= ToSample, ToSample' = k PROVE Within(ToSample)
      BY <1>k, <1>t DEF Within
<1> USE Durations DEF RuntimeTypeOK, LagInv, Due, Coming
<1>1. CASE Edge \/ PostSetSwitch
  <2>1. /\ UNCHANGED <<task, button, waited, lag>> /\ queued' > 0 /\ Coming'
        BY <1>1 DEF Edge, PostSetSwitch, IsrQueued
  <2>2. CASE task = "sample"
    <3>1. ToSample' = ToSample
          BY <2>1, <2>2 DEF ToSample
    <3>2. QED
          BY <2>1, <3>1, <1>t, <1>k
  <2>3. CASE task # "sample"
    <3>1. ToSample' = MaxLag - lag + MaxLag
          BY <2>1, <2>3 DEF ToSample
    <3>2. MaxLag - lag + MaxLag \in Nat /\ MaxLag - lag + MaxLag <= ToSample
          BY <2>3 DEF ToSample
    <3>3. QED
          BY <2>1, <3>1, <3>2, <1>k
  <2>4. QED
        BY <2>2, <2>3
<1>2. CASE Receive \/ PollTimeout
  <2>1. /\ Coming' /\ ToSample' = MaxLag
        BY <1>2 DEF Receive, PollTimeout, ToSample
  <2>2. MaxLag <= ToSample
        BY <1>2 DEF Receive, PollTimeout, ToSample
  <2>3. QED
        BY <2>1, <2>2, <1>k
<1>3. CASE UNCHANGED vars
  <2>1. Coming' /\ ToSample' = ToSample
        BY <1>3 DEF vars, ToSample
  <2>2. QED
        BY <2>1, <1>t, <1>k
<1>4. QED
      BY <1>1, <1>2, <1>3

(* An interrupt brings one in two lags; a tick brings it nearer. *)
LEMMA SampleNearer ==
  ASSUME RuntimeTypeOK, LagInv
  PROVE  /\ ToSample \in Nat
         /\ Edge => Coming' /\ Within(2 * MaxLag)
         /\ Sample => Within(kPollMs + 2 * MaxLag)
         /\ Tick /\ Coming => Coming' /\ ToSample > 0 /\ ToSample' = ToSample - 1
<1> USE Durations DEF RuntimeTypeOK, LagInv, Due, Coming
<1>1. ToSample \in Nat
      BY DEF ToSample
<1>2. ASSUME Edge PROVE Coming' /\ Within(2 * MaxLag)
  <2>1. /\ UNCHANGED <<task, button, waited, lag>> /\ queued' > 0 /\ Coming'
        BY <1>2 DEF Edge, IsrQueued
  <2>2. ToSample' = IF task = "sample" THEN MaxLag - lag ELSE MaxLag - lag + MaxLag
        BY <2>1 DEF ToSample
  <2>3. (IF task = "sample" THEN MaxLag - lag ELSE MaxLag - lag + MaxLag) \in 0..2 * MaxLag
        OBVIOUS
  <2>4. QED
        BY <2>1, <2>2, <2>3 DEF Within
<1>3. ASSUME Sample PROVE Within(kPollMs + 2 * MaxLag)
  <2>1. ToSample' = IF queued > 0 THEN MaxLag + MaxLag ELSE kPollMs + 2 * MaxLag
        BY <1>3 DEF Sample, ToSample
  <2>2. (IF queued > 0 THEN MaxLag + MaxLag ELSE kPollMs + 2 * MaxLag) \in 0..kPollMs + 2 * MaxLag
        OBVIOUS
  <2>3. QED
        BY <2>1, <2>2 DEF Within
<1>4. ASSUME Tick, Coming PROVE Coming' /\ ToSample > 0 /\ ToSample' = ToSample - 1
  <2>1. is_active(button') = is_active(button)
        BY <1>4, AgedFacts DEF Tick, is_active
  <2>2. Coming'
        BY <1>4, <2>1 DEF Tick
  <2>3. ToSample > 0 /\ ToSample' = ToSample - 1
        BY <1>4, <2>1 DEF Tick, UpTo, ToSample
  <2>4. QED
        BY <2>2, <2>3
<1>5. QED
      BY <1>1, <1>2, <1>3, <1>4

(* Every step keeps the debounce time short of a wrap of the clock. *)
LEMMA ButtonStep ==
  RuntimeTypeOK /\ LagInv /\ ButtonInv /\ [Next]_vars => ButtonInv'
<1> SUFFICES ASSUME RuntimeTypeOK, LagInv, ButtonInv, [Next]_vars PROVE ButtonInv'
    OBVIOUS
<1>t. /\ button \in ButtonStates /\ level \in BOOLEAN /\ ToSample \in Nat
      /\ button.since_change \in Nat
      BY SampleNearer DEF RuntimeTypeOK, ButtonStates
<1>1. CASE Edge \/ PostSetSwitch \/ Receive \/ PollTimeout \/ UNCHANGED vars
  <2>1. button' = button /\ Sooner
        BY <1>1, SampleSooner DEF Edge, PostSetSwitch, Receive, PollTimeout, vars
  <2>2. CASE button.debouncing
    <3>1. PICK k \in 0..ToSample : ToSample' = k
          BY <2>1, <2>2 DEF Sooner, Within, Coming, is_active
    <3>2. QED
          BY <2>1, <2>2, <3>1, <1>t, Durations DEF ButtonInv
  <2>3. QED
        BY <2>1, <2>2 DEF ButtonInv
<1>2. CASE Sample
  <2>0. PICK k \in 0..kPollMs + 2 * MaxLag : ToSample' = k
        BY <1>2, SampleNearer DEF Within
  <2>1. button' = Updated(button, level) /\ ToSample' = k
        BY <1>2, <2>0 DEF Sample
  <2>2. CASE level # button.raw_last
        BY <2>1, <2>2, <1>t, UpdateChanged, Durations DEF ButtonInv
  <2>3. CASE DebounceOver(button, level)
        BY <2>1, <2>3, <1>t, UpdateAccepted DEF ButtonInv
  <2>4. CASE level = button.raw_last /\ ~DebounceOver(button, level)
    <3>1. button' = button
          BY <2>1, <2>4, <1>t, UpdateNothing
    <3>2. QED
          BY <2>1, <2>4, <3>1, <1>t, Durations DEF ButtonInv, DebounceOver
  <2>5. QED
        BY <2>2, <2>3, <2>4
<1>3. CASE Tick
  <2>1. button' = Aged(button)
        BY <1>3 DEF Tick
  <2>2. CASE ~button.debouncing
        BY <2>1, <2>2, <1>t, AgedFacts DEF ButtonInv
  <2>3. CASE button.debouncing
    <3>1. ToSample' = ToSample - 1
          BY <1>3, <2>3, SampleNearer DEF Coming, is_active
    <3>2. button.since_change + 1 < TimeModulus
          BY <2>3, <1>t, Durations DEF ButtonInv
    <3>3. button'.since_change = button.since_change + 1
          BY <2>1, <2>3, <3>2, <1>t, AgedFacts
    <3>4. button'.debouncing
          BY <2>1, <2>3, <1>t, AgedFacts
    <3>5. QED
          BY <2>3, <3>1, <3>3, <3>4, <1>t, Durations DEF ButtonInv
  <2>4. QED
        BY <2>2, <2>3
<1>4. QED
      BY <1>1, <1>2, <1>3 DEF Next, TaskStep

(* Every step keeps a level on its way to the debouncer. *)
LEMMA LevelStep ==
  RuntimeTypeOK /\ LagInv /\ ButtonInv /\ LevelInv /\ [Next]_vars => LevelInv'
<1> SUFFICES ASSUME RuntimeTypeOK, LagInv, ButtonInv, LevelInv, [Next]_vars,
                    ~(boot_hold' /\ level')
             PROVE  /\ level' # button'.raw_last => Coming' /\ Unseen'
                    /\ level' = button'.raw_last /\ button'.debouncing => Unseen' \/ Seen'
    BY DEF LevelInv
<1>t. /\ button \in ButtonStates /\ level \in BOOLEAN /\ ToSample \in Nat
      /\ button.since_change \in Nat /\ dwell \in 0..MaxDwell
      BY SampleNearer DEF RuntimeTypeOK, ButtonStates
<1>1. CASE Edge
  <2>0. PICK k \in 0..2 * MaxLag : ToSample' = k
        BY <1>1, SampleNearer DEF Within
  <2>1. Coming' /\ ToSample' = k /\ dwell' = 0
        BY <1>1, <2>0, SampleNearer DEF Edge
  <2>2. Unseen'
        BY <2>1, <1>t, Durations DEF Unseen
  <2>3. QED
        BY <2>1, <2>2
<1>2. CASE PostSetSwitch \/ Receive \/ PollTimeout \/ UNCHANGED vars
  <2>1. UNCHANGED <<button, level, dwell, boot_hold>> /\ Sooner
        BY <1>2, SampleSooner DEF PostSetSwitch, Receive, PollTimeout, vars
  <2>2. /\ Coming /\ Unseen => Unseen'
        /\ Coming /\ Seen => Seen'
    <3>1. ASSUME Coming PROVE \E k \in 0..ToSample : ToSample' = k
          BY <2>1, <3>1 DEF Sooner, Within
    <3>2. ASSUME NEW k \in 0..ToSample, ToSample' = k
          PROVE  (Unseen => Unseen') /\ (Seen => Seen')
          BY <2>1, <3>2, <1>t, Durations DEF Unseen, Seen, DetectionMs
    <3>3. QED
          BY <3>1, <3>2
  <2>3. button.debouncing => Coming
        BY DEF Coming, is_active
  <2>4. QED
        BY <2>1, <2>2, <2>3 DEF LevelInv, Sooner
<1>3. CASE Sample
  <2>0. PICK k \in 0..kPollMs + 2 * MaxLag : ToSample' = k
        BY <1>3, SampleNearer DEF Within
  <2>1. /\ button' = Updated(button, level) /\ ToSample' = k
        /\ UNCHANGED <<level, dwell, boot_hold>>
        BY <1>3, <2>0 DEF Sample
  <2>2. CASE level # button.raw_last
    <3>1. dwell <= 2 * MaxLag
          BY <2>1, <2>2, <1>t, Durations DEF LevelInv, Unseen
    <3>2. button'.raw_last = level /\ button'.since_change = 0
          BY <2>1, <2>2, <1>t, UpdateChanged
    <3>3. Seen'
          BY <2>1, <3>1, <3>2, <1>t, Durations DEF Seen, DetectionMs
    <3>4. QED
          BY <2>1, <3>2, <3>3
  <2>3. CASE DebounceOver(button, level)
        BY <2>1, <2>3, <1>t, UpdateAccepted
  <2>4. CASE level = button.raw_last /\ ~DebounceOver(button, level)
    <3>1. button' = button
          BY <2>1, <2>4, <1>t, UpdateNothing
    <3>2. ASSUME button.debouncing PROVE Seen'
      <4>1. button.since_change < debounce_ms
            BY <2>4, <3>2, <1>t, Durations DEF DebounceOver
      <4>2. dwell <= button.since_change + 2 * MaxLag
            BY <2>1, <2>4, <3>2, <1>t, Durations DEF LevelInv, Unseen, Seen
      <4>3. QED
            BY <2>1, <3>1, <4>1, <4>2, <1>t, Durations DEF Seen, DetectionMs
    <3>3. QED
          BY <2>1, <2>4, <3>1, <3>2
  <2>5. QED
        BY <2>2, <2>3, <2>4
<1>4. CASE Tick
  <2>1. /\ button' = Aged(button) /\ UNCHANGED <<level, boot_hold>>
        /\ dwell' = IF dwell < MaxDwell THEN dwell + 1 ELSE dwell
        BY <1>4 DEF Tick, UpTo
  <2>2. /\ button'.raw_last = button.raw_last /\ button'.debouncing = button.debouncing
        BY <2>1, <1>t, AgedFacts
  <2>3. Coming => Coming' /\ ToSample' = ToSample - 1
        BY <1>4, SampleNearer
  <2>4. Coming /\ Unseen => Unseen'
        BY <2>1, <2>3, <1>t, Durations DEF Unseen
  <2>5. ASSUME button.debouncing, Seen PROVE Seen'
    <3>1. Coming
          BY <2>5 DEF Coming, is_active
    <3>2. button.since_change + 1 < TimeModulus
          BY <2>5, <1>t, Durations DEF ButtonInv
    <3>3. button'.since_change = button.since_change + 1
          BY <2>1, <2>5, <3>2, <1>t, AgedFacts
    <3>4. QED
          BY <2>1, <2>3, <2>5, <3>1, <3>3, <1>t, Durations DEF Seen, DetectionMs
  <2>6. button.debouncing => Coming
        BY DEF Coming, is_active
  <2>7. QED
        BY <2>1, <2>2, <2>3, <2>4, <2>5, <2>6 DEF LevelInv
<1>5. QED
      BY <1>1, <1>2, <1>3, <1>4 DEF Next, TaskStep

(* The device as it starts, with the button held or not. *)
LEMMA RuntimeInit == Init => RuntimeInv
<1> SUFFICES ASSUME Init PROVE RuntimeInv
    OBVIOUS
<1>1. NewButton \in ButtonStates
      BY Durations DEF NewButton, ButtonStates
<1>2. RuntimeTypeOK /\ LagInv
      BY <1>1, Durations DEF Init, RuntimeTypeOK, LagInv
<1>3. ButtonInv /\ LevelInv
      BY DEF Init, ButtonInv, LevelInv, NewButton
<1>4. QED
      BY <1>2, <1>3 DEF RuntimeInv

(* The inductive invariant of the loop: no sample is forgotten or late. *)
THEOREM RuntimeInvariant == Spec => []RuntimeInv
<1>1. RuntimeInv /\ [Next]_vars => RuntimeInv'
      BY RuntimeTypeStep, ButtonStep, LevelStep DEF RuntimeInv
<1>2. QED
      BY <1>1, RuntimeInit, PTL DEF Spec

(***************************************************************************)
(* A level the debouncer has not seen has a sample coming, even when the   *)
(* interrupt lost its event to a full queue.                               *)
(***************************************************************************)
THEOREM RuntimeNoLostWakeup == Spec => []NoLostWakeup
<1>1. RuntimeInv => NoLostWakeup
      BY DEF RuntimeInv, LevelInv, Coming, NoLostWakeup
<1>2. QED
      BY <1>1, RuntimeInvariant, PTL

(* What the invariant says of a level that has been stable for so long. *)
LEMMA StableIsDetected == RuntimeInv => DetectedInTime
<1> SUFFICES ASSUME RuntimeInv, dwell >= DetectionMs, ~(boot_hold /\ level)
             PROVE  button.stable_pressed = level
    BY DEF DetectedInTime
<1>1. ToSample \in Nat /\ dwell \in Nat /\ level \in BOOLEAN
      BY Durations DEF RuntimeInv, RuntimeTypeOK, ToSample
<1>2. ~Unseen /\ ~Seen
      BY <1>1, Durations DEF Unseen, Seen
<1>3. QED
      BY <1>2 DEF RuntimeInv, LevelInv, ButtonInv

(***************************************************************************)
(* A stable level is accepted within the debounce time, one poll and four  *)
(* times the lateness of the task.                                         *)
(***************************************************************************)
THEOREM RuntimeDetectedInTime == Spec => []DetectedInTime
  BY StableIsDetected, RuntimeInvariant, PTL

-----------------------------------------------------------------------------
(***************************************************************************)
(* The measured hold.  It starts when the press is accepted and ends when  *)
(* the release is, each at least the debounce time and less than           *)
(* DetectionMs after its edge; what the debouncer counts is therefore the  *)
(* real hold up to the difference of the two delays.                       *)
(***************************************************************************)
HoldInv ==
  ~bounces /\ ~boot_hold =>
    /\ button.debouncing /\ button.raw_last = level => button.since_change <= dwell
    /\ level /\ ~button.stable_pressed => held = dwell
    /\ level /\ button.stable_pressed
         => /\ button.since_press + debounce_ms <= held
            /\ held < button.since_press + DetectionMs
    /\ ~level /\ button.stable_pressed
         => /\ button.since_press + debounce_ms <= held + dwell
            /\ held + dwell < button.since_press + DetectionMs

(* A clean contact that keeps each level until it is accepted is measured. *)
LEMMA HoldStep ==
  ASSUME DetectionMs <= MinDwell, RuntimeInv, HoldInv, [Next]_vars
  PROVE  HoldInv'
<1>t. /\ button \in ButtonStates /\ level \in BOOLEAN /\ boot_hold \in BOOLEAN
      /\ button.since_change \in 0..TimeModulus - 1 /\ button.since_press \in 0..TimeModulus - 1
      /\ button.stable_pressed \in BOOLEAN /\ button.raw_last \in BOOLEAN
      /\ dwell \in 0..MaxDwell /\ held \in 0..MaxHold /\ ToSample \in Nat
      BY SampleNearer DEF RuntimeInv, RuntimeTypeOK, ButtonStates
(* As long as the level is not accepted its age is below the bound. *)
<1>d. ASSUME ~(boot_hold /\ level),
             \/ level # button.raw_last \/ button.debouncing
             \/ button.stable_pressed # level
      PROVE  dwell < DetectionMs
  <2>1. CASE button.stable_pressed # level
        BY <2>1, <1>d, <1>t, StableIsDetected, Durations DEF DetectedInTime
  <2>2. CASE level # button.raw_last \/ button.debouncing
    <3>1. Unseen \/ Seen
          BY <2>2, <1>d DEF RuntimeInv, LevelInv
    <3>2. QED
          BY <3>1, <1>t, Durations DEF Unseen, Seen
  <2>3. QED
        BY <1>d, <2>1, <2>2
<1>1. CASE Edge
  <2>1. /\ level' = ~level /\ dwell' = 0 /\ held' = (IF level' THEN 0 ELSE held)
        /\ boot_hold' = (boot_hold /\ ~level') /\ UNCHANGED <<button, bounces>>
        /\ bounces \/ dwell >= MinDwell
        BY <1>1 DEF Edge
  <2>2. SUFFICES ASSUME ~bounces, ~boot_hold' PROVE HoldInv'
        BY <2>1 DEF HoldInv
  <2>3. ~(boot_hold /\ level)
        BY <2>1, <2>2, <1>t
  <2>4. /\ level = button.raw_last /\ button.stable_pressed = level
        BY <2>1, <2>2, <2>3, <1>d, <1>t, Durations
  <2>5. CASE level
    <3>1. /\ button.since_press + debounce_ms <= held
          /\ held < button.since_press + DetectionMs
          BY <2>2, <2>3, <2>4, <2>5, <1>t DEF HoldInv
    <3>2. ~level' /\ held' = held /\ button'.raw_last # level' /\ button' = button
          BY <2>1, <2>4, <2>5
    <3>3. QED
          BY <2>1, <3>1, <3>2, <1>t, Durations DEF HoldInv, DetectionMs
  <2>6. CASE ~level
        BY <2>1, <2>4, <2>6, <1>t DEF HoldInv
  <2>7. QED
        BY <2>5, <2>6
<1>2. CASE PostSetSwitch \/ Receive \/ PollTimeout \/ UNCHANGED vars
  <2>1. UNCHANGED <<level, button, dwell, held, boot_hold, bounces>>
        BY <1>2 DEF PostSetSwitch, Receive, PollTimeout, vars
  <2>2. QED
        BY <2>1 DEF HoldInv, DetectionMs
<1>3. CASE Sample
  <2>1. button' = Updated(button, level) /\ UNCHANGED <<level, dwell, held, boot_hold, bounces>>
        BY <1>3 DEF Sample
  <2>2. SUFFICES ASSUME ~bounces, ~boot_hold PROVE HoldInv'
        BY <2>1 DEF HoldInv
  <2>3. CASE level # button.raw_last
    <3>1. /\ button'.since_change = 0 /\ button'.stable_pressed = button.stable_pressed
          /\ button'.since_press = button.since_press
          BY <2>1, <2>3, <1>t, UpdateChanged
    <3>2. QED
          BY <2>1, <2>2, <3>1, <1>t, Durations DEF HoldInv, DetectionMs
  <2>4. CASE DebounceOver(button, level)
    <3>1. /\ button'.stable_pressed = level /\ ~button'.debouncing
          /\ button'.since_press = IF level /\ ~button.stable_pressed THEN 0
                                   ELSE button.since_press
          BY <2>1, <2>4, <1>t, UpdateAccepted
    <3>2. /\ button.debouncing /\ button.since_change >= debounce_ms /\ button.raw_last = level
          BY <2>4 DEF DebounceOver
    <3>3. debounce_ms <= dwell /\ dwell < DetectionMs
          BY <2>2, <3>2, <1>d, <1>t, Durations DEF HoldInv
    <3>4. CASE level /\ ~button.stable_pressed
      <4>1. held = dwell /\ button'.since_press = 0
            BY <2>2, <3>1, <3>4 DEF HoldInv
      <4>2. 0 + debounce_ms <= held /\ held < 0 + DetectionMs
            BY <3>3, <4>1, <1>t, Durations
      <4>3. /\ button'.since_press + debounce_ms <= held'
            /\ held' < button'.since_press + DetectionMs
            BY <2>1, <4>1, <4>2
      <4>4. level' /\ button'.stable_pressed
            BY <2>1, <3>1, <3>4
      <4>5. QED
            BY <3>1, <4>3, <4>4 DEF HoldInv, DetectionMs
    <3>5. CASE level /\ button.stable_pressed
      <4>1. button'.since_press = button.since_press
            BY <3>1, <3>5
      <4>2. QED
            BY <2>1, <2>2, <3>1, <3>5, <4>1, <1>t, Durations DEF HoldInv, DetectionMs
    <3>6. CASE ~level
          BY <2>1, <3>1, <3>6 DEF HoldInv
    <3>7. QED
          BY <3>4, <3>5, <3>6, <1>t
  <2>5. CASE level = button.raw_last /\ ~DebounceOver(button, level)
    <3>1. button' = button
          BY <2>1, <2>5, <1>t, UpdateNothing
    <3>2. QED
          BY <2>1, <3>1 DEF HoldInv, DetectionMs
  <2>6. QED
        BY <2>3, <2>4, <2>5
<1>4. CASE Tick
  <2>1. /\ button' = Aged(button) /\ UNCHANGED <<level, boot_hold, bounces>>
        /\ dwell' = (IF dwell < MaxDwell THEN dwell + 1 ELSE dwell)
        /\ held' = (IF level THEN held + 1 ELSE held)
        BY <1>4 DEF Tick, UpTo
  <2>2. SUFFICES ASSUME ~bounces, ~boot_hold PROVE HoldInv'
        BY <2>1 DEF HoldInv
  <2>3. /\ button'.raw_last = button.raw_last /\ button'.debouncing = button.debouncing
        /\ button'.stable_pressed = button.stable_pressed
        BY <2>1, <1>t, AgedFacts
  <2>4. ASSUME \/ level # button.raw_last \/ button.debouncing
               \/ button.stable_pressed # level
        PROVE  dwell' = dwell + 1 /\ dwell < DetectionMs
        BY <2>1, <2>2, <2>4, <1>d, <1>t, Durations
  <2>5. button'.debouncing /\ button'.raw_last = level' => button'.since_change <= dwell'
    <3> SUFFICES ASSUME button.debouncing, button.raw_last = level
                 PROVE  button'.since_change <= dwell'
        BY <2>1, <2>3
    <3>1. button.since_change <= dwell /\ dwell' = dwell + 1 /\ dwell < DetectionMs
          BY <2>2, <2>4 DEF HoldInv
    <3>2. button'.since_change = button.since_change + 1
          BY <2>1, <3>1, <1>t, AgedFacts, Durations
    <3>3. QED
          BY <3>1, <3>2, <1>t, Durations
  <2>6. CASE level /\ ~button.stable_pressed
    <3>1. held = dwell /\ dwell' = dwell + 1 /\ held' = held + 1
          BY <2>1, <2>2, <2>4, <2>6, <1>t DEF HoldInv
    <3>2. QED
          BY <2>1, <2>3, <2>5, <2>6, <3>1 DEF HoldInv
  <2>7. CASE level /\ button.stable_pressed
    <3>1. /\ button.since_press + debounce_ms <= held
          /\ held < button.since_press + DetectionMs /\ held' = held + 1
          BY <2>1, <2>2, <2>7 DEF HoldInv
    <3>2. button'.since_press = button.since_press + 1
          BY <2>1, <2>7, <3>1, <1>t, AgedFacts, Durations
    <3>3. /\ (button.since_press + 1) + debounce_ms <= held + 1
          /\ held + 1 < (button.since_press + 1) + DetectionMs
          BY <3>1, <1>t, Durations
    <3>4. /\ button'.since_press + debounce_ms <= held'
          /\ held' < button'.since_press + DetectionMs
          BY <3>1, <3>2, <3>3
    <3>5. level' /\ button'.stable_pressed
          BY <2>1, <2>3, <2>7
    <3>6. QED
          BY <2>5, <3>4, <3>5 DEF HoldInv, DetectionMs
  <2>8. CASE ~level /\ button.stable_pressed
    <3>1. /\ button.since_press + debounce_ms <= held + dwell
          /\ held + dwell < button.since_press + DetectionMs
          /\ held' = held /\ dwell' = dwell + 1 /\ dwell < DetectionMs
          BY <2>1, <2>2, <2>4, <2>8, <1>t DEF HoldInv
    <3>2. button'.since_press = button.since_press + 1
          BY <2>1, <2>8, <3>1, <1>t, AgedFacts, Durations
    <3>3. QED
          BY <2>1, <2>3, <2>5, <2>8, <3>1, <3>2, <1>t, Durations DEF HoldInv, DetectionMs
  <2>9. CASE ~level /\ ~button.stable_pressed
        BY <2>1, <2>3, <2>5, <2>9 DEF HoldInv
  <2>10. QED
        BY <2>6, <2>7, <2>8, <2>9, <1>t
<1>5. QED
      BY <1>1, <1>2, <1>3, <1>4 DEF Next, TaskStep

(* A sample that ends a press takes it for the gesture the finger made. *)
LEMMA SampleMatches ==
  ASSUME RuntimeInv, HoldInv, Sample, ~boot_hold, ~bounces
  PROVE  GestureOf(event', held)
<1>t. /\ button \in ButtonStates /\ level \in BOOLEAN
      /\ button.since_change \in Nat /\ button.since_press \in Nat
      /\ button.stable_pressed \in BOOLEAN
      /\ dwell \in 0..MaxDwell /\ held \in 0..MaxHold
      BY DEF RuntimeInv, RuntimeTypeOK, ButtonStates
<1>1. event' = EventOf(button, level)
      BY DEF Sample
<1>2. CASE EventOf(button, level) \in {"none", "press_started"}
      BY <1>1, <1>2 DEF GestureOf
<1>3. CASE /\ DebounceOver(button, level) /\ ~level /\ button.stable_pressed
           /\ event' = Classify(button.since_press)
  <2>1. /\ button.debouncing /\ button.since_change >= debounce_ms /\ button.raw_last = level
        BY <1>3 DEF DebounceOver
  <2>2. /\ button.since_change <= dwell
        /\ button.since_press + debounce_ms <= held + dwell
        /\ held + dwell < button.since_press + DetectionMs
        BY <1>3, <2>1 DEF HoldInv
  <2>3. dwell < DetectionMs
    <3>1. button.stable_pressed # level /\ ~(boot_hold /\ level)
          BY <1>3
    <3>2. DetectedInTime
          BY StableIsDetected
    <3>3. ~(dwell >= DetectionMs)
          BY <3>1, <3>2 DEF DetectedInTime
    <3>4. QED
          BY <3>3, <1>t, Durations
  <2>4. /\ held < button.since_press + Slack /\ button.since_press < held + Slack
        /\ Slack \in Nat
        BY <2>1, <2>2, <2>3, <1>t, Durations DEF Slack
  <2>5. /\ short_press_max_ms \in Nat /\ commissioning_press_min_ms \in Nat
        /\ factory_reset_press_min_ms \in Nat
        BY ButtonAssumption
  <2>6. QED
        BY <1>3, <2>4, <2>5, <1>t, Durations DEF Classify, GestureOf
<1>4. QED
      BY <1>1, <1>2, <1>3, <1>t DEF EventOf

(***************************************************************************)
(* If a clean contact keeps each level for at least DetectionMs, a release *)
(* is taken for the gesture the finger made, up to the slack of sampling;  *)
(* in particular no factory reset is triggered by a press that is shorter  *)
(* than its threshold by the slack.                                        *)
(***************************************************************************)
THEOREM RuntimeGestureMatchesHold ==
  ASSUME DetectionMs <= MinDwell
  PROVE  Spec => GestureMatchesHold
<1>1. Init => HoldInv
      BY Durations DEF Init, HoldInv, NewButton
<1>2. RuntimeInv /\ HoldInv /\ [Next]_vars => HoldInv'
      BY HoldStep
<1>3. Spec => []HoldInv
      BY <1>1, <1>2, RuntimeInvariant, PTL DEF Spec
<1>4. RuntimeInv /\ HoldInv /\ [Next]_vars
        => [task = "sample" /\ task' = "wait" /\ ~boot_hold /\ ~bounces
              => GestureOf(event', held)]_vars
  <2> SUFFICES ASSUME RuntimeInv, HoldInv, [Next]_vars,
                      task = "sample", task' = "wait", ~boot_hold, ~bounces
               PROVE  GestureOf(event', held)
      OBVIOUS
  <2>1. Sample
        BY DEF Next, TaskStep, Edge, PostSetSwitch, Receive, PollTimeout, Tick, vars
  <2>2. QED
        BY <2>1, SampleMatches
<1>5. QED
      BY <1>3, <1>4, RuntimeInvariant, PTL DEF Spec, GestureMatchesHold

=============================================================================
