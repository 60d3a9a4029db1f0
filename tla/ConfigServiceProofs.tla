------------------------- MODULE ConfigServiceProofs -------------------------
(***************************************************************************)
(* commit() is atomic, for every set of keys, values and failing calls and *)
(* any number of commits, failed commits and resets.                       *)
(***************************************************************************)
EXTENDS ConfigService, TLAPS

(***************************************************************************)
(* The strengthening of CommitIsAtomic for a service that runs: the slot   *)
(* in use, which no commit touches, holds what was committed, and the      *)
(* other one is older or holds the attempt since, one number ahead.        *)
(***************************************************************************)
ActiveHolds ==
  IF flash[active_slot].valid
    THEN flash[active_slot].sequence = sequence /\ flash[active_slot].records = committed
    ELSE sequence = 0 /\ committed = Empty /\ ~rolled_back

TargetHolds ==
  flash[Target].valid =>
    \/ rolled_back
    \/ flash[active_slot].valid /\ flash[Target].sequence < sequence
    \/ flash[Target].sequence = sequence + 1 /\ flash[Target].records = attempted

Running ==
  /\ ActiveHolds /\ TargetHolds
  /\ pc = "write" => ~flash[Target].valid /\ attempted = records

(* Two valid slots are never equally new. *)
Ordered == flash[0].valid /\ flash[1].valid => flash[0].sequence # flash[1].sequence

ConfigInv ==
  ConfigTypeOK /\ Ordered /\ (pc # "off" => Running) /\ CommitIsAtomic

-----------------------------------------------------------------------------
(* What a boot would find while the service runs. *)
LEMMA RunningIsAtomic == ConfigTypeOK /\ Ordered /\ Running => CommitIsAtomic
<1> SUFFICES ASSUME ConfigTypeOK, Ordered, Running, ~rolled_back
             PROVE  Durable \in {committed, attempted}
    BY DEF CommitIsAtomic
<1> USE DEF ConfigTypeOK, Ordered, Running, ActiveHolds, TargetHolds, Target, Slots,
            SlotStates, Durable, Selected, Valid
<1>1. CASE active_slot = 0
      BY <1>1
<1>2. CASE active_slot = 1
      BY <1>2
<1> QED BY <1>1, <1>2

(* An unused configuration and a bad slot have their types. *)
LEMMA EmptyType == Empty \in Records /\ BadSlot \in SlotStates
<1>1. Empty \in Records
      BY DEF Empty, Records
<1> QED BY <1>1 DEF BadSlot, SlotStates

(* Factory-new flash satisfies the invariant. *)
LEMMA ConfigInit == Init => ConfigInv
<1> SUFFICES ASSUME Init PROVE ConfigInv
    OBVIOUS
<1>1. ConfigTypeOK
      BY EmptyType DEF Init, ConfigTypeOK, Slots
<1>2. Ordered /\ CommitIsAtomic
      BY DEF Init, Ordered, CommitIsAtomic, Durable, Valid, Slots, BadSlot
<1> QED BY <1>1, <1>2 DEF Init, ConfigInv

-----------------------------------------------------------------------------
(* initialize() picks a slot it may pick. *)
LEMMA SelectedValid ==
  ASSUME ConfigTypeOK, NEW ok \in SUBSET Valid, ok # {}
  PROVE  Selected(ok) \in ok
  BY DEF Selected, Valid, Slots, ConfigTypeOK

(* Every step keeps the types. *)
LEMMA ConfigTypeStep == ConfigTypeOK /\ [Next]_vars => ConfigTypeOK'
<1> SUFFICES ASSUME ConfigTypeOK, [Next]_vars PROVE ConfigTypeOK'
    OBVIOUS
<1> USE DEF ConfigTypeOK
<1>0. Target \in Slots
      BY DEF Target, Slots
<1>w. Written \in [Slots -> SlotStates]
      BY <1>0 DEF Written, SlotStates
<1>b. [flash EXCEPT ![Target] = BadSlot] \in [Slots -> SlotStates]
      BY <1>0, EmptyType
<1>1. CASE InitializeEmpty
      BY <1>1, EmptyType DEF InitializeEmpty, Slots
<1>2. ASSUME NEW readable \in SUBSET Slots, InitializeFrom(readable) PROVE ConfigTypeOK'
  <2> DEFINE s == Selected(readable \cap Valid)
  <2>1. s \in Slots
        BY DEF Selected, Slots
  <2>2. flash[s] \in SlotStates
        BY <2>1
  <2>3. flash[s].sequence \in Nat /\ flash[s].records \in Records
        BY <2>2 DEF SlotStates
  <2>4. (s # Selected(Valid)) \in BOOLEAN
        OBVIOUS
  <2> QED BY <1>2, <2>1, <2>3, <2>4 DEF InitializeFrom
<1>3. ASSUME NEW key \in Keys, Erase(key) PROVE ConfigTypeOK'
      BY <1>3 DEF Erase, Records
<1>4. ASSUME NEW key \in Keys, NEW value \in Values, SetBlob(key, value) PROVE ConfigTypeOK'
      BY <1>4 DEF SetBlob, Records
<1>5. CASE CommitErase
      BY <1>5, <1>b DEF CommitErase
<1>6. CASE CommitWrite
  <2>1. pc' = "ready" /\ records' = records /\ attempted' = attempted
        BY <1>6 DEF CommitWrite
  <2>2. flash' \in [Slots -> SlotStates]
        BY <1>6, <1>w DEF CommitWrite
  <2>3. active_slot' \in Slots /\ sequence' \in Nat /\ committed' \in Records
        BY <1>6, <1>0 DEF CommitWrite
  <2>4. rolled_back' \in BOOLEAN
        BY <1>6 DEF CommitWrite
  <2> QED BY <2>1, <2>2, <2>3, <2>4
<1>7. CASE PowerLoss
      BY <1>7, <1>w, EmptyType DEF PowerLoss, Slots
<1>8. CASE UNCHANGED vars
      BY <1>8 DEF vars
<1> QED BY <1>1, <1>2, <1>3, <1>4, <1>5, <1>6, <1>7, <1>8 DEF Next

(* While the service runs: a step that ends with the service running. *)
LEMMA RunningStep ==
  ConfigInv /\ ConfigTypeOK' /\ [Next]_vars => Ordered' /\ (pc' # "off" => Running')
<1> SUFFICES ASSUME ConfigInv, ConfigTypeOK', [Next]_vars
             PROVE  Ordered' /\ (pc' # "off" => Running')
    OBVIOUS
<1> USE DEF ConfigInv, ConfigTypeOK, Ordered, Running, ActiveHolds, TargetHolds, Target, Slots,
            SlotStates
<1>1. CASE InitializeEmpty
      BY <1>1 DEF InitializeEmpty, Valid
<1>2. ASSUME NEW readable \in SUBSET Slots, InitializeFrom(readable)
      PROVE  Ordered' /\ (pc' # "off" => Running')
  <2> DEFINE s == Selected(readable \cap Valid)
  <2>1. s \in Valid
        BY <1>2, SelectedValid DEF InitializeFrom, Valid
  <2>2. flash[1 - s].valid /\ s = Selected(Valid) => flash[1 - s].sequence < flash[s].sequence
        BY <2>1 DEF Selected, Valid
  <2> HIDE DEF s
  <2>3. /\ pc' = "ready" /\ active_slot' = s /\ sequence' = flash[s].sequence
        /\ committed' = flash[s].records /\ rolled_back' = (s # Selected(Valid))
        /\ flash' = flash
        BY <1>2 DEF InitializeFrom, s
  <2> QED BY <2>1, <2>2, <2>3 DEF Valid
<1>3. ASSUME NEW key \in Keys, Erase(key) PROVE Ordered' /\ (pc' # "off" => Running')
      BY <1>3 DEF Erase
<1>4. ASSUME NEW key \in Keys, NEW value \in Values, SetBlob(key, value)
      PROVE  Ordered' /\ (pc' # "off" => Running')
      BY <1>4 DEF SetBlob
<1>5. CASE CommitErase
      BY <1>5 DEF CommitErase, BadSlot
<1>6. CASE CommitWrite
  <2>1. CASE /\ flash' = Written /\ active_slot' = Target /\ sequence' = sequence + 1
             /\ committed' = records /\ rolled_back' = FALSE
    <3>1. pc' = "ready"
          BY <1>6 DEF CommitWrite
    <3>2. CASE active_slot = 0
          BY <2>1, <3>1, <3>2, <1>6 DEF CommitWrite, Written
    <3>3. CASE active_slot = 1
          BY <2>1, <3>1, <3>3, <1>6 DEF CommitWrite, Written
    <3> QED BY <3>2, <3>3
  <2>2. CASE /\ flash' \in {flash, Written}
             /\ UNCHANGED <<active_slot, sequence, committed, rolled_back>>
    <3>1. pc' = "ready" /\ attempted' = attempted /\ attempted = records
          BY <1>6 DEF CommitWrite
    <3>2. CASE active_slot = 0
          BY <1>6, <2>2, <3>1, <3>2 DEF CommitWrite, Written
    <3>3. CASE active_slot = 1
          BY <1>6, <2>2, <3>1, <3>3 DEF CommitWrite, Written
    <3> QED BY <3>2, <3>3
  <2> QED BY <1>6, <2>1, <2>2 DEF CommitWrite
<1>7. CASE PowerLoss
  <2>1. CASE active_slot = 0
        BY <1>7, <2>1 DEF PowerLoss, Written
  <2>2. CASE active_slot = 1
        BY <1>7, <2>2 DEF PowerLoss, Written
  <2> QED BY <2>1, <2>2
<1>8. CASE UNCHANGED vars
      BY <1>8 DEF vars
<1> QED BY <1>1, <1>2, <1>3, <1>4, <1>5, <1>6, <1>7, <1>8 DEF Next

(* A reset in the middle of a write leaves the committed slot, or both. *)
LEMMA AtomicStep ==
  ConfigInv /\ ConfigTypeOK' /\ [Next]_vars /\ Ordered' /\ (pc' # "off" => Running')
    => CommitIsAtomic'
<1> SUFFICES ASSUME ConfigInv, ConfigTypeOK', [Next]_vars, Ordered', pc' # "off" => Running'
             PROVE  CommitIsAtomic'
    OBVIOUS
<1>1. CASE pc' # "off"
  <2>1. (ConfigTypeOK /\ Ordered /\ Running => CommitIsAtomic)'
        BY RunningIsAtomic, PTL
  <2> QED BY <1>1, <2>1
<1>2. CASE pc' = "off"
  <2>1. CASE PowerLoss /\ pc = "write" /\ flash' = Written
    <3> USE DEF ConfigInv, ConfigTypeOK, Running, ActiveHolds, Target, Slots, SlotStates
    <3>1. rolled_back' = rolled_back /\ committed' = committed /\ attempted' = attempted
          BY <2>1 DEF PowerLoss
    <3>2. attempted = records /\ ~flash[Target].valid
          BY <2>1
    <3>3. CASE active_slot = 0
          BY <2>1, <3>1, <3>2, <3>3 DEF Written, CommitIsAtomic, Durable, Selected, Valid
    <3>4. CASE active_slot = 1
          BY <2>1, <3>1, <3>2, <3>4 DEF Written, CommitIsAtomic, Durable, Selected, Valid
    <3> QED BY <3>3, <3>4
  <2>2. CASE UNCHANGED <<flash, committed, attempted, rolled_back>>
        BY <2>2 DEF ConfigInv, CommitIsAtomic, Durable, Selected, Valid
  <2>3. \/ PowerLoss /\ pc = "write" /\ flash' = Written
        \/ UNCHANGED <<flash, committed, attempted, rolled_back>>
        BY <1>2 DEF Next, vars, InitializeEmpty, InitializeFrom, SetBlob, Erase, CommitErase,
                    CommitWrite, PowerLoss
  <2> QED BY <2>1, <2>2, <2>3
<1> QED BY <1>1, <1>2

-----------------------------------------------------------------------------
(* The strengthened invariant holds in every reachable state. *)
THEOREM ConfigInvariant == Spec => []ConfigInv
<1>1. ConfigInv /\ [Next]_vars => ConfigInv'
  <2> SUFFICES ASSUME ConfigInv, [Next]_vars PROVE ConfigInv'
      OBVIOUS
  <2>1. ConfigTypeOK'
        BY ConfigTypeStep DEF ConfigInv
  <2>2. Ordered' /\ (pc' # "off" => Running')
        BY <2>1, RunningStep
  <2>3. CommitIsAtomic'
        BY <2>1, <2>2, AtomicStep
  <2> QED BY <2>1, <2>2, <2>3 DEF ConfigInv
<1> QED BY <1>1, ConfigInit, PTL DEF Spec

(***************************************************************************)
(* The records, the slots and the sequence number of ConfigService keep    *)
(* their types over any number of commits, failures and resets.            *)
(***************************************************************************)
THEOREM ConfigTypeCorrect == Spec => []ConfigTypeOK
<1>1. ConfigInv => ConfigTypeOK
      BY DEF ConfigInv
<1> QED BY <1>1, ConfigInvariant, PTL

(***************************************************************************)
(* ConfigService::commit is atomic with respect to failing storage calls   *)
(* and loss of power: a boot finds the last committed configuration or all *)
(* of the one being written.                                               *)
(***************************************************************************)
THEOREM ConfigCommitIsAtomic == Spec => []CommitIsAtomic
<1>1. ConfigInv => CommitIsAtomic
      BY DEF ConfigInv
<1> QED BY <1>1, ConfigInvariant, PTL

=============================================================================
