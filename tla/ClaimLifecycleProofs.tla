------------------------ MODULE ClaimLifecycleProofs ------------------------
(***************************************************************************)
(* The claim lifecycle, for every number of connections and challenges,    *)
(* every length of the queue and of the two windows, every input and every *)
(* set of failing calls.                                                   *)
(***************************************************************************)
EXTENDS ClaimLifecycle, TLAPS

Items == {"open_work", "opened", "closed", "complete", "released", "factory_reset"}

(* The variables of the claim service, of MatterNode and of the stack. *)
LifecycleTypeOK ==
  /\ up \in BOOLEAN /\ claim_ready \in BOOLEAN
  /\ proto \in Protocols
  /\ conn \in Connections \cup {NoConnection}
  /\ response \in Connections \cup {NoConnection} /\ response_valid \in BOOLEAN
  /\ switch \in {"idle", "schedule", "cancel", "clear", "erase", "matter_reset"}
  /\ chipq \in Seq(Items)
  /\ matter_open \in BOOLEAN /\ matter_left \in 0..MatterTimeout /\ fabric \in BOOLEAN
  /\ age \in 0..Duration

(* Those of the claim store. *)
ClaimStoreTypeOK ==
  /\ slot \subseteq Store!ClaimStates
  /\ worker \in {"none", "receive", "take", "counters", "claimed"}
  /\ request \in Store!ClaimStates /\ nvs \in Store!ClaimStates /\ wanted \in Store!ClaimStates
  /\ io_mutex \in {"free", "worker", "clear"}
  /\ claim_lost \in BOOLEAN /\ overtaken \in BOOLEAN

-----------------------------------------------------------------------------
(***************************************************************************)
(* The session: ProofHasSession without the quantifier.                    *)
(***************************************************************************)
SessionInv ==
  /\ NonceOnOfferIsFresh
  /\ FlagsAreCurrent
  /\ response_valid => response = conn /\ conn # NoConnection

(***************************************************************************)
(* The window.  Ticks since it was opened, read off the time left; what    *)
(* waits in the queue of the CHIP task; an "opened" that a "closed"        *)
(* follows.                                                                *)
(***************************************************************************)
OpenFor(p) == IF p.over >= TimeModulus - Duration
              THEN p.over - (TimeModulus - Duration) ELSE p.over + Duration

Has(q, item) == \E i \in 1..Len(q) : q[i] = item

ClosedFollows(q) ==
  \A i \in 1..Len(q) : q[i] = "opened" => \E j \in 1..Len(q) : i < j /\ q[j] = "closed"

PressUnderWay == switch \in {"schedule", "cancel"} \/ Has(chipq, "open_work")

(***************************************************************************)
(* The strengthening of NoOrphanWindow and ProofComputedInWindow.  An      *)
(* active claim window has a Matter window over it, or one is about to be  *)
(* asked for, or its end is in the queue.  As a tick waits for the queue   *)
(* to be empty, the claim window was not open for longer than the Matter   *)
(* window above it, which is too short for the clock to come round.        *)
(***************************************************************************)
WindowInv ==
  /\ proto.active => claim_ready
  /\ matter_open \/ ClosedFollows(chipq)
  /\ proto.active => matter_open \/ PressUnderWay \/ Has(chipq, "closed")
  /\ proto.active /\ PressUnderWay => OpenFor(proto) = 0
  /\ proto.active => /\ OpenFor(proto) <= MatterTimeout
                     /\ \/ OpenFor(proto) + matter_left <= MatterTimeout
                        \/ Has(chipq, "closed")
  /\ proto.active => age = IF OpenFor(proto) < Duration THEN OpenFor(proto) ELSE Duration

(***************************************************************************)
(* The strengthening of ClaimSurvives.  The protocol has the flag that the *)
(* store was asked for last, except between the two steps of a reset; and  *)
(* that state is queued, being written, or in NVS.                         *)
(***************************************************************************)
OnItsWay ==
  \/ slot = {wanted}
  \/ slot = {} /\ worker \in {"take", "counters", "claimed"} /\ request = wanted
  \/ slot = {} /\ worker \in {"none", "receive"} /\ (io_mutex = "clear" \/ nvs = wanted)
  \/ claim_lost \/ overtaken

ClaimedInv ==
  /\ io_mutex = "worker" <=> worker \in {"counters", "claimed"}
  /\ io_mutex = "clear" <=> switch = "erase"
  /\ io_mutex = "clear" => slot = {} /\ wanted = Store!Unclaimed
  /\ ~up => ~claim_ready /\ wanted = nvs /\ slot = {} /\ worker = "none" /\ switch = "idle"
  /\ slot # {} => slot = {wanted}
  /\ worker = "none" => slot = {}
  /\ switch = "clear" => ~proto.claimed
  /\ worker = "claimed" => nvs.counters = request.counters
  /\ claim_ready /\ switch # "clear" => wanted.claimed = proto.claimed
  /\ OnItsWay

ClaimInv == LifecycleTypeOK /\ ClaimStoreTypeOK /\ SessionInv /\ WindowInv /\ ClaimedInv

-----------------------------------------------------------------------------
(* The methods of the protocol keep its types. *)
LEMMA ProtocolTypes ==
  ASSUME NEW p \in Protocols, NEW b \in BOOLEAN
  PROVE  /\ refresh_flags(p) \in Protocols
         /\ Initialized(b) \in Protocols
         /\ close(p) \in Protocols
         /\ open_window(p) \in Protocols
         /\ is_active(p) \in Protocols
         /\ \A challenge \in Challenges : Answered(p, challenge) \in Protocols
         /\ mark_commissioned(p) \in Protocols
         /\ factory_reset(p) \in Protocols
         /\ Later(p) \in Protocols
<1>1. \A q \in Protocols : refresh_flags(q) \in Protocols
      BY DEF Protocols, refresh_flags
<1>2. Initialized(b) \in Protocols
  <2>1. [active |-> FALSE, over |-> 0, nonce |-> "zero", replay |-> <<>>, claimed |-> b,
         flags |-> [commissionable |-> FALSE, claimed |-> FALSE]] \in Protocols
        BY ProtocolAssumption DEF Protocols, Nonces
  <2>2. QED
        BY <1>1, <2>1 DEF Initialized
<1> DEFINE Reset(q, a, t, n, r) == [q EXCEPT !.active = a, !.over = t, !.nonce = n, !.replay = r]
<1>0. ASSUME NEW q \in Protocols, NEW a \in BOOLEAN, NEW t \in 0..TimeModulus - 1,
             NEW n \in Nonces, NEW r \in Seq(Challenges)
      PROVE  Reset(q, a, t, n, r) \in Protocols
      BY DEF Protocols
<1>e. <<>> \in Seq(Challenges) /\ 0 \in 0..TimeModulus - 1
        /\ TimeModulus - Duration \in 0..TimeModulus - 1
      BY ProtocolAssumption
<1>3. \A q \in Protocols : close(q) \in Protocols
  <2>1. ASSUME NEW q \in Protocols PROVE Reset(q, FALSE, 0, "zero", <<>>) \in Protocols
        BY <1>0, <1>e DEF Nonces
  <2>2. QED
        BY <1>1, <2>1 DEF close
<1>4. open_window(p) \in Protocols
  <2>1. Reset(p, TRUE, TimeModulus - Duration, "fresh", <<>>) \in Protocols
        BY <1>0, <1>e DEF Nonces
  <2>2. QED
        BY <1>1, <2>1 DEF open_window
<1>5. is_active(p) \in Protocols
      BY <1>1, <1>3 DEF is_active
<1>6. ASSUME NEW challenge \in Challenges PROVE Answered(p, challenge) \in Protocols
  <2>1. [p EXCEPT !.nonce = "fresh"] \in Protocols
        BY DEF Protocols, Nonces
  <2>2. ASSUME NEW q \in Protocols PROVE remember_challenge(q, challenge) \in Protocols
    <3>1. q.replay \in Seq(Challenges)
          BY DEF Protocols
    <3>2. Append(IF Len(q.replay) = kReplayCacheSize THEN Tail(q.replay) ELSE q.replay, challenge)
            \in Seq(Challenges)
      <4>1. CASE Len(q.replay) = kReplayCacheSize
        <5>1. Tail(q.replay) \in Seq(Challenges)
              BY <3>1, <4>1, ProtocolAssumption
        <5>2. QED
              BY <4>1, <5>1
      <4>2. CASE Len(q.replay) # kReplayCacheSize
            BY <3>1, <4>2
      <4>3. QED
            BY <4>1, <4>2
    <3>3. QED
          BY <3>2 DEF remember_challenge, Protocols
  <2>3. QED
        BY <1>1, <2>1, <2>2 DEF Answered
<1>7. mark_commissioned(p) \in Protocols
  <2>1. [p EXCEPT !.claimed = TRUE] \in Protocols
        BY DEF Protocols
  <2>2. QED
        BY <1>3, <2>1 DEF mark_commissioned
<1>8. factory_reset(p) \in Protocols
  <2>1. [close(p) EXCEPT !.claimed = FALSE] \in Protocols
        BY <1>3 DEF Protocols
  <2>2. QED
        BY <1>1, <2>1 DEF factory_reset
<1>9. Later(p) \in Protocols
      BY ProtocolAssumption DEF Later, Protocols
<1>10. QED
      BY <1>1, <1>2, <1>3, <1>4, <1>5, <1>6, <1>7, <1>8, <1>9

(* What a step may do to the protocol object. *)
Touched ==
  \/ proto' = proto \/ proto' = Initialized(FALSE) \/ proto' = Initialized(nvs.claimed)
  \/ proto' = open_window(proto) \/ proto' = close(proto)
  \/ proto' = mark_commissioned(proto) \/ proto' = factory_reset(proto)
  \/ proto' = is_active(proto) \/ proto' = Later(proto)
  \/ \E challenge \in Challenges :
       proto' = Answered(is_active(proto), challenge) /\ is_active(proto).active

(* Every step calls at most one method of the protocol. *)
LEMMA ProtocolStep == [Next]_vars => Touched
<1> SUFFICES ASSUME [Next]_vars PROVE Touched
    OBVIOUS
<1> USE DEF Touched, GattOpenWindow, GattOpenFails, GattCancel, GattRelease,
            GattMarkCommissioned, GattFactoryReset, gattVars
<1>1. CASE Start
      BY <1>1 DEF Start
<1>2. CASE CommissioningPress
      BY <1>2 DEF CommissioningPress
<1>3. CASE ResetPress
      BY <1>3 DEF ResetPress
<1>4. CASE PressSchedule
      BY <1>4 DEF PressSchedule
<1>5. CASE PressCancel
      BY <1>5 DEF PressCancel
<1>6. CASE ResetClear
      BY <1>6 DEF ResetClear
<1>7. CASE ResetErase
      BY <1>7 DEF ResetErase
<1>8. CASE MatterReset
      BY <1>8 DEF MatterReset
<1>9. CASE WindowOpened
      BY <1>9 DEF WindowOpened
<1>10. CASE WindowClosed
      BY <1>10 DEF WindowClosed
<1>11. CASE CommissioningComplete
      BY <1>11 DEF CommissioningComplete
<1>12. CASE SessionReleased
      BY <1>12 DEF SessionReleased
<1>13. CASE open_commissioning_work
      BY <1>13 DEF open_commissioning_work
<1>14. CASE FactoryReset
      BY <1>14 DEF FactoryReset, Restart
<1>15. CASE MatterOpens
      BY <1>15 DEF MatterOpens
<1>16. CASE MatterCloses
      BY <1>16 DEF MatterCloses
<1>17. CASE Commissioned
      BY <1>17 DEF Commissioned
<1>18. CASE FabricRemoved
      BY <1>18 DEF FabricRemoved
<1>19. CASE SessionEnds
      BY <1>19 DEF SessionEnds
<1>20. CASE WorkerStep
      BY <1>20 DEF WorkerStep
<1>21. CASE Tick
      BY <1>21 DEF Tick
<1>22. CASE PowerLoss
      BY <1>22 DEF PowerLoss, Restart
<1>23. ASSUME NEW c \in Connections, LookAtWindow(c)
     PROVE  Touched
      BY <1>23 DEF LookAtWindow
<1>24. ASSUME NEW c \in Connections, WriteCancel(c)
     PROVE  Touched
      BY <1>24 DEF WriteCancel
<1>25. ASSUME NEW c \in Connections, NEW challenge \in Challenges, WriteChallenge(c, challenge)
     PROVE  Touched
      BY <1>25 DEF WriteChallenge, MayAnswer
<1>26. CASE UNCHANGED vars
      BY <1>26 DEF vars
<1>27. QED
      BY <1>1, <1>2, <1>3, <1>4, <1>5, <1>6, <1>7, <1>8, <1>9, <1>10, <1>11,
         <1>12, <1>13, <1>14, <1>15, <1>16, <1>17, <1>18, <1>19, <1>20, <1>21,
         <1>22, <1>23, <1>24, <1>25, <1>26
      DEF Next, SwitchStep, ChipStep, ClientStep, StackStep, ReadIdentity, ReadState

(* What a step may do to the queue of the CHIP task. *)
Moved ==
  \/ chipq' = chipq \/ chipq' = <<>>
  \/ chipq # <<>> /\ (chipq' = Tail(chipq) \/ chipq' = Append(Tail(chipq), "opened"))
  \/ \E item \in {"open_work", "factory_reset"} : chipq' = Append(chipq, item)
  \/ \E item \in {"opened", "closed", "released"} : chipq' = chipq \o <<item>>
  \/ chipq' = chipq \o <<"complete", "closed">>

(* Items are taken from the front of the queue and put at its end. *)
LEMMA QueueStep == [Next]_vars => Moved
<1> SUFFICES ASSUME [Next]_vars PROVE Moved
    OBVIOUS
<1> USE DEF Moved, Dispatch, Post
<1>1. CASE Start
      BY <1>1 DEF Start
<1>2. CASE CommissioningPress
      BY <1>2 DEF CommissioningPress
<1>3. CASE ResetPress
      BY <1>3 DEF ResetPress
<1>4. CASE PressSchedule
      BY <1>4 DEF PressSchedule
<1>5. CASE PressCancel
      BY <1>5 DEF PressCancel
<1>6. CASE ResetClear
      BY <1>6 DEF ResetClear
<1>7. CASE ResetErase
      BY <1>7 DEF ResetErase
<1>8. CASE MatterReset
      BY <1>8 DEF MatterReset
<1>9. CASE WindowOpened
      BY <1>9 DEF WindowOpened
<1>10. CASE WindowClosed
      BY <1>10 DEF WindowClosed
<1>11. CASE CommissioningComplete
      BY <1>11 DEF CommissioningComplete
<1>12. CASE SessionReleased
      BY <1>12 DEF SessionReleased
<1>13. CASE open_commissioning_work
      BY <1>13 DEF open_commissioning_work
<1>14. CASE FactoryReset
      BY <1>14 DEF FactoryReset, Restart
<1>15. CASE MatterOpens
      BY <1>15 DEF MatterOpens
<1>16. CASE MatterCloses
      BY <1>16 DEF MatterCloses
<1>17. CASE Commissioned
      BY <1>17 DEF Commissioned
<1>18. CASE FabricRemoved
      BY <1>18 DEF FabricRemoved
<1>19. CASE SessionEnds
      BY <1>19 DEF SessionEnds
<1>20. CASE WorkerStep
      BY <1>20 DEF WorkerStep
<1>21. CASE Tick
      BY <1>21 DEF Tick
<1>22. CASE PowerLoss
      BY <1>22 DEF PowerLoss, Restart
<1>23. ASSUME NEW c \in Connections, LookAtWindow(c)
     PROVE  Moved
      BY <1>23 DEF LookAtWindow
<1>24. ASSUME NEW c \in Connections, WriteCancel(c)
     PROVE  Moved
      BY <1>24 DEF WriteCancel
<1>25. ASSUME NEW c \in Connections, NEW challenge \in Challenges, WriteChallenge(c, challenge)
     PROVE  Moved
      BY <1>25 DEF WriteChallenge
<1>26. CASE UNCHANGED vars
      BY <1>26 DEF vars
<1>27. QED
      BY <1>1, <1>2, <1>3, <1>4, <1>5, <1>6, <1>7, <1>8, <1>9, <1>10, <1>11,
         <1>12, <1>13, <1>14, <1>15, <1>16, <1>17, <1>18, <1>19, <1>20, <1>21,
         <1>22, <1>23, <1>24, <1>25, <1>26
      DEF Next, SwitchStep, ChipStep, ClientStep, StackStep, ReadIdentity, ReadState

(* Every step keeps the types of the claim service and the stack. *)
LEMMA LifecycleTypeStep ==
  LifecycleTypeOK /\ ClaimStoreTypeOK /\ [Next]_vars => LifecycleTypeOK'
<1> SUFFICES ASSUME LifecycleTypeOK, ClaimStoreTypeOK, [Next]_vars
             PROVE  LifecycleTypeOK'
    OBVIOUS
<1>p. proto' \in Protocols
  <2>1. proto \in Protocols /\ nvs.claimed \in BOOLEAN
        BY DEF LifecycleTypeOK, ClaimStoreTypeOK, Store!ClaimStates
  <2>2. is_active(proto) \in Protocols
        BY <2>1, ProtocolTypes
  <2>3. Touched
        BY ProtocolStep
  <2>4. QED
        BY <2>1, <2>2, <2>3, ProtocolTypes DEF Touched
<1>q. chipq' \in Seq(Items)
  <2>1. chipq \in Seq(Items) /\ Moved
        BY QueueStep DEF LifecycleTypeOK
  <2>2. Items = Items \cup {"open_work", "factory_reset", "opened", "closed", "released", "complete"}
        BY DEF Items
  <2>3. <<>> \in Seq(Items) /\ <<"complete", "closed">> \in Seq(Items)
        BY <2>2
  <2>4. \A item \in Items : <<item>> \in Seq(Items) /\ Append(chipq, item) \in Seq(Items)
        BY <2>1
  <2>5. chipq # <<>> => Tail(chipq) \in Seq(Items) /\ Append(Tail(chipq), "opened") \in Seq(Items)
        BY <2>1, <2>2
  <2>6. \A r \in Seq(Items) : chipq \o r \in Seq(Items)
        BY <2>1
  <2>7. QED
        BY <2>1, <2>2, <2>3, <2>4, <2>5, <2>6 DEF Moved
<1>b. /\ 0 \in 0..MatterTimeout /\ MatterTimeout \in 0..MatterTimeout
      /\ 0 \in 0..Duration /\ Duration \in 0..Duration
      /\ Duration \in Nat /\ MatterTimeout \in Nat
      BY ProtocolAssumption, LifecycleAssumption
<1> USE <1>p, <1>q, <1>b
    DEF LifecycleTypeOK, clear_session_locked,
        GattOpenWindow, GattOpenFails, GattCancel, GattRelease, GattMarkCommissioned,
        GattFactoryReset, gattVars, bootVars, matterVars
<1>1. CASE Start
      BY <1>1 DEF Start
<1>2. CASE CommissioningPress
      BY <1>2 DEF CommissioningPress
<1>3. CASE ResetPress
      BY <1>3 DEF ResetPress
<1>4. CASE PressSchedule
      BY <1>4 DEF PressSchedule
<1>5. CASE PressCancel
      BY <1>5 DEF PressCancel
<1>6. CASE ResetClear
      BY <1>6 DEF ResetClear
<1>7. CASE ResetErase
      BY <1>7 DEF ResetErase
<1>8. CASE MatterReset
      BY <1>8 DEF MatterReset
<1>9. CASE WindowOpened
      BY <1>9 DEF WindowOpened
<1>10. CASE WindowClosed
      BY <1>10 DEF WindowClosed
<1>11. CASE CommissioningComplete
      BY <1>11 DEF CommissioningComplete
<1>12. CASE SessionReleased
      BY <1>12 DEF SessionReleased
<1>13. CASE open_commissioning_work
      BY <1>13 DEF open_commissioning_work
<1>14. CASE FactoryReset
      BY <1>14 DEF FactoryReset, Restart
<1>15. CASE MatterOpens
      BY <1>15 DEF MatterOpens
<1>16. CASE MatterCloses
      BY <1>16 DEF MatterCloses
<1>17. CASE Commissioned
      BY <1>17 DEF Commissioned
<1>18. CASE FabricRemoved
      BY <1>18 DEF FabricRemoved
<1>19. CASE SessionEnds
      BY <1>19 DEF SessionEnds
<1>20. CASE WorkerStep
      BY <1>20 DEF WorkerStep
<1>21. CASE Tick
      BY <1>21 DEF Tick
<1>22. CASE PowerLoss
      BY <1>22 DEF PowerLoss, Restart
<1>23. ASSUME NEW c \in Connections, LookAtWindow(c)
     PROVE  LifecycleTypeOK'
      BY <1>23 DEF LookAtWindow
<1>24. ASSUME NEW c \in Connections, WriteCancel(c)
     PROVE  LifecycleTypeOK'
      BY <1>24 DEF WriteCancel
<1>25. ASSUME NEW c \in Connections, NEW challenge \in Challenges, WriteChallenge(c, challenge)
     PROVE  LifecycleTypeOK'
      BY <1>25 DEF WriteChallenge
<1>26. CASE UNCHANGED vars
      BY <1>26 DEF vars
<1>27. QED
      BY <1>1, <1>2, <1>3, <1>4, <1>5, <1>6, <1>7, <1>8, <1>9, <1>10, <1>11,
         <1>12, <1>13, <1>14, <1>15, <1>16, <1>17, <1>18, <1>19, <1>20, <1>21,
         <1>22, <1>23, <1>24, <1>25, <1>26
      DEF Next, SwitchStep, ChipStep, ClientStep, StackStep, ReadIdentity, ReadState

(* Every step keeps the types of the claim store. *)
LEMMA ClaimStoreTypeStep ==
  ClaimStoreTypeOK /\ [Next]_vars => ClaimStoreTypeOK'
<1> SUFFICES ASSUME ClaimStoreTypeOK, [Next]_vars
             PROVE  ClaimStoreTypeOK'
    OBVIOUS
<1>s. ASSUME NEW state \in Store!ClaimStates, Store!Save(state)
      PROVE  ClaimStoreTypeOK'
      BY <1>s DEF ClaimStoreTypeOK, Store!Save
<1>v. ASSUME NEW c \in BOOLEAN, NEW d \in BOOLEAN
      PROVE  /\ [counters |-> c, claimed |-> d] \in Store!ClaimStates
             /\ [nvs EXCEPT !.counters = c] \in Store!ClaimStates
             /\ [nvs EXCEPT !.claimed = c] \in Store!ClaimStates
             /\ nvs.counters \in BOOLEAN /\ nvs.claimed \in BOOLEAN
             /\ request.counters \in BOOLEAN /\ request.claimed \in BOOLEAN
      BY DEF ClaimStoreTypeOK, Store!ClaimStates
<1>u. Store!Unclaimed \in Store!ClaimStates
      BY <1>v DEF Store!Unclaimed
<1> USE DEF ClaimStoreTypeOK, claimVars
<1>1. CASE Start
      BY <1>1, <1>s, <1>v DEF Start
<1>2. CASE CommissioningPress
      BY <1>2 DEF CommissioningPress
<1>3. CASE ResetPress
      BY <1>3 DEF ResetPress
<1>4. CASE PressSchedule
      BY <1>4 DEF PressSchedule
<1>5. CASE PressCancel
      BY <1>5 DEF PressCancel
<1>6. CASE ResetClear
      BY <1>6, <1>u DEF ResetClear, Store!ClearBegin
<1>7. CASE ResetErase
  <2>1. \/ nvs' = Store!Unclaimed
        \/ \E c \in {nvs.counters, FALSE}, d \in {nvs.claimed, FALSE} :
             nvs' = [counters |-> c, claimed |-> d]
        BY <1>7 DEF ResetErase, Store!ClearErase
  <2>2. nvs' \in Store!ClaimStates
        BY <2>1, <1>u, <1>v
  <2>3. /\ UNCHANGED <<slot, worker, request, wanted, overtaken>>
        /\ io_mutex' = "free" /\ (claim_lost' = claim_lost \/ claim_lost' = TRUE)
        BY <1>7 DEF ResetErase, Store!ClearErase
  <2>4. QED
        BY <2>2, <2>3
<1>8. CASE MatterReset
      BY <1>8 DEF MatterReset
<1>9. CASE WindowOpened
      BY <1>9 DEF WindowOpened
<1>10. CASE WindowClosed
      BY <1>10 DEF WindowClosed
<1>11. CASE CommissioningComplete
      BY <1>11, <1>s, <1>v DEF CommissioningComplete, GattMarkCommissioned
<1>12. CASE SessionReleased
      BY <1>12 DEF SessionReleased
<1>13. CASE open_commissioning_work
      BY <1>13 DEF open_commissioning_work
<1>14. CASE FactoryReset
      BY <1>14, <1>u DEF FactoryReset, Restart
<1>15. CASE MatterOpens
      BY <1>15 DEF MatterOpens
<1>16. CASE MatterCloses
      BY <1>16 DEF MatterCloses
<1>17. CASE Commissioned
      BY <1>17 DEF Commissioned
<1>18. CASE FabricRemoved
      BY <1>18 DEF FabricRemoved
<1>19. CASE SessionEnds
      BY <1>19 DEF SessionEnds
<1>20. CASE WorkerStep
      BY <1>20, <1>v DEF WorkerStep, Store!Worker, Store!WorkerReceive, Store!WorkerTake, Store!WriteCounters, Store!WriteClaimed, Store!WriteFails
<1>21. CASE Tick
      BY <1>21 DEF Tick
<1>22. CASE PowerLoss
      BY <1>22, <1>u DEF PowerLoss, Restart
<1>23. ASSUME NEW c \in Connections, LookAtWindow(c)
     PROVE  ClaimStoreTypeOK'
      BY <1>23 DEF LookAtWindow
<1>24. ASSUME NEW c \in Connections, WriteCancel(c)
     PROVE  ClaimStoreTypeOK'
      BY <1>24 DEF WriteCancel
<1>25. ASSUME NEW c \in Connections, NEW challenge \in Challenges, WriteChallenge(c, challenge)
     PROVE  ClaimStoreTypeOK'
      BY <1>25 DEF WriteChallenge
<1>26. CASE UNCHANGED vars
      BY <1>26 DEF vars
<1>27. QED
      BY <1>1, <1>2, <1>3, <1>4, <1>5, <1>6, <1>7, <1>8, <1>9, <1>10, <1>11,
         <1>12, <1>13, <1>14, <1>15, <1>16, <1>17, <1>18, <1>19, <1>20, <1>21,
         <1>22, <1>23, <1>24, <1>25, <1>26
      DEF Next, SwitchStep, ChipStep, ClientStep, StackStep, ReadIdentity, ReadState

-----------------------------------------------------------------------------
(* The clock counts up to its modulus. *)
LEMMA Increment ==
  ASSUME NEW m \in Nat \ {0}, NEW t \in 0..m-1
  PROVE  (t + 1) % m = IF t + 1 = m THEN 0 ELSE t + 1
OBVIOUS

(* What the methods of the protocol do to the window, the flag and the nonce. *)
LEMMA Methods ==
  ASSUME NEW p \in Protocols, NEW b \in BOOLEAN
  PROVE  /\ ~Initialized(b).active /\ Initialized(b).claimed = b
         /\ ~close(p).active /\ close(p).claimed = p.claimed
         /\ open_window(p).active /\ open_window(p).over = TimeModulus - Duration
         /\ open_window(p).nonce = "fresh" /\ open_window(p).claimed = p.claimed
         /\ ~mark_commissioned(p).active /\ mark_commissioned(p).claimed
         /\ ~factory_reset(p).active /\ ~factory_reset(p).claimed
         /\ is_active(p).active => /\ p.active /\ ~Expired(p)
                                   /\ is_active(p).over = p.over /\ is_active(p).nonce = p.nonce
         /\ is_active(p).claimed = p.claimed
         /\ Later(p).active = p.active /\ Later(p).claimed = p.claimed
         /\ Later(p).nonce = p.nonce /\ Later(p).flags = p.flags
         /\ p.active => Later(p).over = IF p.over + 1 = TimeModulus THEN 0 ELSE p.over + 1
<1> USE DEF Protocols, refresh_flags
<1>1. ~Initialized(b).active /\ Initialized(b).claimed = b
      BY DEF Initialized
<1>2. /\ ~close(p).active /\ close(p).claimed = p.claimed
      BY DEF close
<1>3. /\ open_window(p).active /\ open_window(p).over = TimeModulus - Duration
      /\ open_window(p).nonce = "fresh" /\ open_window(p).claimed = p.claimed
      BY DEF open_window
<1>4. ~mark_commissioned(p).active /\ mark_commissioned(p).claimed
      BY DEF mark_commissioned, close
<1>5. ~factory_reset(p).active /\ ~factory_reset(p).claimed
      BY DEF factory_reset, close
<1>6. /\ is_active(p).active => /\ p.active /\ ~Expired(p)
                                /\ is_active(p).over = p.over /\ is_active(p).nonce = p.nonce
      /\ is_active(p).claimed = p.claimed
  <2>1. CASE p.active /\ Expired(p)
        BY <1>2, <2>1 DEF is_active
  <2>2. CASE ~(p.active /\ Expired(p))
        BY <2>2 DEF is_active
  <2>3. QED
        BY <2>1, <2>2
<1>8. /\ Later(p).active = p.active /\ Later(p).claimed = p.claimed
      /\ Later(p).nonce = p.nonce /\ Later(p).flags = p.flags
      BY DEF Later
<1>9. p.active => Later(p).over = IF p.over + 1 = TimeModulus THEN 0 ELSE p.over + 1
  <2>1. p.over \in 0..TimeModulus - 1 /\ TimeModulus \in Nat \ {0}
        BY ProtocolAssumption
  <2>2. (p.over + 1) % TimeModulus = IF p.over + 1 = TimeModulus THEN 0 ELSE p.over + 1
        BY <2>1, Increment
  <2>3. QED
        BY <2>2 DEF Later
<1>10. QED
      BY <1>1, <1>2, <1>3, <1>4, <1>5, <1>6, <1>8, <1>9

(* An answer rotates the nonce and leaves the window as it is. *)
LEMMA AnswerMethod ==
  ASSUME NEW p \in Protocols, NEW challenge \in Challenges
  PROVE  /\ Answered(p, challenge).active = p.active /\ Answered(p, challenge).over = p.over
         /\ Answered(p, challenge).claimed = p.claimed /\ Answered(p, challenge).nonce = "fresh"
BY DEF Protocols, refresh_flags, Answered, remember_challenge

(* What the identity says is what the object holds. *)
Flagged(p) == p.flags = [commissionable |-> p.active, claimed |-> p.claimed]

(* Every method ends with refresh_flags; the clock touches neither field it reads. *)
LEMMA MethodsFlagged ==
  ASSUME NEW p \in Protocols, NEW b \in BOOLEAN
  PROVE  /\ Flagged(Initialized(b)) /\ Flagged(close(p)) /\ Flagged(open_window(p))
         /\ Flagged(mark_commissioned(p)) /\ Flagged(factory_reset(p)) /\ Flagged(is_active(p))
         /\ \A challenge \in Challenges : Flagged(Answered(p, challenge))
         /\ Flagged(p) => Flagged(Later(p))
<1>1. ASSUME NEW q, NEW a, NEW t, NEW n, NEW r, NEW c, NEW f,
             q = [active |-> a, over |-> t, nonce |-> n, replay |-> r, claimed |-> c, flags |-> f]
      PROVE  Flagged(refresh_flags(q))
      BY <1>1 DEF refresh_flags, Flagged
<1>2. \A q \in Protocols : Flagged(refresh_flags(q))
      BY DEF refresh_flags, Flagged, Protocols
<1>3. ASSUME NEW q \in Protocols
      PROVE  Flagged(close(q))
      BY DEF close, refresh_flags, Flagged, Protocols
<1>4. Flagged(open_window(p))
      BY DEF open_window, refresh_flags, Flagged, Protocols
<1>5. Flagged(mark_commissioned(p))
      BY DEF mark_commissioned, close, refresh_flags, Flagged, Protocols
<1>6. Flagged(factory_reset(p))
      BY DEF factory_reset, close, refresh_flags, Flagged, Protocols
<1>7. Flagged(is_active(p))
      BY <1>2, <1>3 DEF is_active
<1>8. ASSUME NEW challenge \in Challenges PROVE Flagged(Answered(p, challenge))
      BY DEF Answered, remember_challenge, refresh_flags, Flagged, Protocols
<1>9. Flagged(p) => Flagged(Later(p))
      BY Methods DEF Flagged
<1>10. Flagged(Initialized(b))
      BY <1>1 DEF Initialized
<1>11. QED
      BY <1>2, <1>3, <1>4, <1>5, <1>6, <1>7, <1>8, <1>9, <1>10

(* Every step that ends or moves a session invalidates the response with it. *)
LEMMA ProofStep ==
  ASSUME LifecycleTypeOK, SessionInv, [Next]_vars
  PROVE  (response_valid => response = conn /\ conn # NoConnection)'
<1> DEFINE Goal == (response_valid => response = conn /\ conn # NoConnection)'
<1> USE LifecycleAssumption
    DEF SessionInv, clear_session_locked, GattOpenWindow, GattOpenFails, GattCancel, GattRelease,
        GattMarkCommissioned, GattFactoryReset, gattVars
<1>1. CASE Start
      BY <1>1 DEF Start
<1>2. CASE CommissioningPress
      BY <1>2 DEF CommissioningPress
<1>3. CASE ResetPress
      BY <1>3 DEF ResetPress
<1>4. CASE PressSchedule
      BY <1>4 DEF PressSchedule
<1>5. CASE PressCancel
      BY <1>5 DEF PressCancel
<1>6. CASE ResetClear
      BY <1>6 DEF ResetClear
<1>7. CASE ResetErase
      BY <1>7 DEF ResetErase
<1>8. CASE MatterReset
      BY <1>8 DEF MatterReset
<1>9. CASE WindowOpened
      BY <1>9 DEF WindowOpened
<1>10. CASE WindowClosed
      BY <1>10 DEF WindowClosed
<1>11. CASE CommissioningComplete
      BY <1>11 DEF CommissioningComplete
<1>12. CASE SessionReleased
      BY <1>12 DEF SessionReleased
<1>13. CASE open_commissioning_work
      BY <1>13 DEF open_commissioning_work
<1>14. CASE FactoryReset
      BY <1>14 DEF FactoryReset, Restart
<1>15. CASE MatterOpens
      BY <1>15 DEF MatterOpens
<1>16. CASE MatterCloses
      BY <1>16 DEF MatterCloses
<1>17. CASE Commissioned
      BY <1>17 DEF Commissioned
<1>18. CASE FabricRemoved
      BY <1>18 DEF FabricRemoved
<1>19. CASE SessionEnds
      BY <1>19 DEF SessionEnds
<1>20. CASE WorkerStep
      BY <1>20 DEF WorkerStep
<1>21. CASE Tick
      BY <1>21 DEF Tick
<1>22. CASE PowerLoss
      BY <1>22 DEF PowerLoss, Restart
<1>23. ASSUME NEW c \in Connections, LookAtWindow(c)
     PROVE  Goal
      BY <1>23 DEF LookAtWindow
<1>24. ASSUME NEW c \in Connections, WriteCancel(c)
     PROVE  Goal
      BY <1>24 DEF WriteCancel
<1>25. ASSUME NEW c \in Connections, NEW challenge \in Challenges, WriteChallenge(c, challenge)
     PROVE  Goal
      BY <1>25 DEF WriteChallenge
<1>26. CASE UNCHANGED vars
      BY <1>26 DEF vars
<1>27. QED
      BY <1>1, <1>2, <1>3, <1>4, <1>5, <1>6, <1>7, <1>8, <1>9, <1>10, <1>11,
         <1>12, <1>13, <1>14, <1>15, <1>16, <1>17, <1>18, <1>19, <1>20, <1>21,
         <1>22, <1>23, <1>24, <1>25, <1>26
      DEF Next, SwitchStep, ChipStep, ClientStep, StackStep, ReadIdentity, ReadState

(* Every step keeps the nonce, the flags and the session in order. *)
LEMMA SessionStep ==
  LifecycleTypeOK /\ ClaimStoreTypeOK /\ SessionInv /\ [Next]_vars => SessionInv'
<1> SUFFICES ASSUME LifecycleTypeOK, ClaimStoreTypeOK, SessionInv, [Next]_vars
             PROVE  SessionInv'
    OBVIOUS
<1>1. /\ proto \in Protocols /\ nvs.claimed \in BOOLEAN /\ Touched
      /\ Flagged(proto) /\ NonceOnOfferIsFresh
      BY ProtocolStep
      DEF LifecycleTypeOK, ClaimStoreTypeOK, Store!ClaimStates, SessionInv, FlagsAreCurrent, Flagged
<1>2. is_active(proto) \in Protocols
      BY <1>1, ProtocolTypes
<1>3. NonceOnOfferIsFresh'
  <2>1. /\ ~close(proto).active /\ ~mark_commissioned(proto).active /\ ~factory_reset(proto).active
        /\ open_window(proto).nonce = "fresh"
        /\ \A b \in BOOLEAN : ~Initialized(b).active
        BY <1>1, Methods
  <2>2. /\ is_active(proto).active => is_active(proto).nonce = "fresh"
        /\ Later(proto).active => Later(proto).nonce = "fresh"
        BY <1>1, Methods DEF NonceOnOfferIsFresh
  <2>3. \A challenge \in Challenges : Answered(is_active(proto), challenge).nonce = "fresh"
        BY <1>2, AnswerMethod
  <2>4. QED
        BY <1>1, <2>1, <2>2, <2>3 DEF Touched, NonceOnOfferIsFresh
<1>4. Flagged(proto')
      BY <1>1, <1>2, MethodsFlagged DEF Touched
<1>5. QED
      BY <1>3, <1>4, ProofStep DEF SessionInv, FlagsAreCurrent, Flagged

-----------------------------------------------------------------------------
(* How long a window has been open, through the methods of the protocol. *)
LEMMA OpenForFacts ==
  ASSUME NEW p \in Protocols
  PROVE  /\ OpenFor(p) \in Nat
         /\ OpenFor(open_window(p)) = 0
         /\ is_active(p).active => OpenFor(is_active(p)) = OpenFor(p)
         /\ \A challenge \in Challenges : OpenFor(Answered(p, challenge)) = OpenFor(p)
         /\ p.active /\ OpenFor(p) < MatterTimeout => OpenFor(Later(p)) = OpenFor(p) + 1
         /\ ~Expired(p) /\ OpenFor(p) <= MatterTimeout => OpenFor(p) < Duration
<1>1. /\ p.over \in 0..TimeModulus - 1 /\ TimeModulus \in Nat /\ Duration \in Nat
      /\ MatterTimeout \in Nat /\ TimeModulus \div 2 \in Nat
      /\ Duration + MatterTimeout < TimeModulus \div 2 /\ TimeModulus \div 2 <= TimeModulus
      BY ProtocolAssumption, LifecycleAssumption DEF Protocols
<1>2. OpenFor(p) \in Nat
      BY <1>1 DEF OpenFor
<1>3. OpenFor(open_window(p)) = 0
  <2>1. open_window(p).over = TimeModulus - Duration
        BY Methods
  <2>2. QED
        BY <1>1, <2>1 DEF OpenFor
<1>4. is_active(p).active => OpenFor(is_active(p)) = OpenFor(p)
      BY Methods DEF OpenFor
<1>5. ASSUME NEW challenge \in Challenges PROVE OpenFor(Answered(p, challenge)) = OpenFor(p)
  <2>1. Answered(p, challenge).over = p.over
        BY AnswerMethod
  <2>2. QED
        BY <2>1 DEF OpenFor
<1>6. p.active /\ OpenFor(p) < MatterTimeout => OpenFor(Later(p)) = OpenFor(p) + 1
  <2>1. p.active => Later(p).over = IF p.over + 1 = TimeModulus THEN 0 ELSE p.over + 1
        BY Methods
  <2>2. QED
        BY <1>1, <2>1 DEF OpenFor
<1>7. ~Expired(p) /\ OpenFor(p) <= MatterTimeout => OpenFor(p) < Duration
      BY <1>1 DEF OpenFor, Expired
<1>8. QED
      BY <1>2, <1>3, <1>4, <1>5, <1>6, <1>7

(* An item put at the end of the queue. *)
LEMMA AtTheEnd ==
  ASSUME NEW q \in Seq(Items), NEW x \in Items
  PROVE  /\ Append(q, x) \in Seq(Items)
         /\ \A item : Has(Append(q, x), item) <=> Has(q, item) \/ item = x
         /\ q \o <<x>> = Append(q, x)
         /\ ClosedFollows(q) /\ x # "opened" => ClosedFollows(Append(q, x))
         /\ ClosedFollows(Append(q, "closed"))
<1> DEFINE n == Len(q)
<1>1. /\ n \in Nat
      /\ \A y \in Items : /\ Append(q, y) \in Seq(Items) /\ Len(Append(q, y)) = n + 1
                          /\ Append(q, y)[n + 1] = y
                          /\ \A i \in 1..n : Append(q, y)[i] = q[i]
      OBVIOUS
<1> HIDE DEF n
<1>2. "closed" \in Items /\ n = Len(q)
      BY DEF Items, n
<1>3. ASSUME NEW item PROVE Has(Append(q, x), item) <=> Has(q, item) \/ item = x
  <2>1. 1..n + 1 = 1..n \cup {n + 1}
        BY <1>1
  <2>2. QED
        BY <1>1, <1>2, <2>1 DEF Has
<1>4. q \o <<x>> = Append(q, x)
      OBVIOUS
<1>5. ClosedFollows(q) /\ x # "opened" => ClosedFollows(Append(q, x))
  <2> SUFFICES ASSUME ClosedFollows(q), x # "opened",
                      NEW i \in 1..n + 1, Append(q, x)[i] = "opened"
               PROVE  \E j \in 1..n + 1 : i < j /\ Append(q, x)[j] = "closed"
      BY <1>1, <1>2 DEF ClosedFollows
  <2>1. i \in 1..n /\ q[i] = "opened"
        BY <1>1
  <2>2. PICK j \in 1..n : i < j /\ q[j] = "closed"
        BY <1>2, <2>1 DEF ClosedFollows
  <2>3. j \in 1..n + 1 /\ Append(q, x)[j] = "closed"
        BY <1>1, <2>2
  <2>4. QED
        BY <2>2, <2>3
<1>6. ClosedFollows(Append(q, "closed"))
  <2> SUFFICES ASSUME NEW i \in 1..n + 1, Append(q, "closed")[i] = "opened"
               PROVE  \E j \in 1..n + 1 : i < j /\ Append(q, "closed")[j] = "closed"
      BY <1>1, <1>2 DEF ClosedFollows
  <2>1. i # n + 1
        BY <1>1, <1>2
  <2>2. n + 1 \in 1..n + 1 /\ i < n + 1 /\ Append(q, "closed")[n + 1] = "closed"
        BY <1>1, <1>2, <2>1
  <2>3. QED
        BY <2>2
<1>7. QED
      BY <1>1, <1>3, <1>4, <1>5, <1>6

(* An item taken from its front. *)
LEMMA FromTheFront ==
  ASSUME NEW q \in Seq(Items), q # <<>>
  PROVE  /\ Tail(q) \in Seq(Items)
         /\ \A item : Has(q, item) <=> Has(Tail(q), item) \/ item = Head(q)
         /\ ClosedFollows(q) => ClosedFollows(Tail(q))
         /\ ClosedFollows(q) /\ Head(q) = "opened" => Has(Tail(q), "closed")
<1> DEFINE n == Len(q)
<1>1. /\ n \in Nat /\ n > 0 /\ Tail(q) \in Seq(Items) /\ Len(Tail(q)) = n - 1
      /\ Head(q) = q[1] /\ \A i \in 1..n - 1 : Tail(q)[i] = q[i + 1]
      OBVIOUS
<1> HIDE DEF n
<1>2. n = Len(q)
      BY DEF n
<1>3. ASSUME NEW item PROVE Has(q, item) <=> Has(Tail(q), item) \/ item = Head(q)
  <2>1. ASSUME Has(q, item), item # Head(q) PROVE Has(Tail(q), item)
    <3>1. PICK i \in 1..n : q[i] = item
          BY <1>2, <2>1 DEF Has
    <3>2. i - 1 \in 1..n - 1 /\ Tail(q)[i - 1] = item
          BY <1>1, <2>1, <3>1
    <3>3. QED
          BY <1>1, <3>2 DEF Has
  <2>2. ASSUME Has(Tail(q), item) PROVE Has(q, item)
    <3>1. PICK i \in 1..n - 1 : Tail(q)[i] = item
          BY <1>1, <2>2 DEF Has
    <3>2. i + 1 \in 1..n /\ q[i + 1] = item
          BY <1>1, <3>1
    <3>3. QED
          BY <1>2, <3>2 DEF Has
  <2>3. Has(q, Head(q))
    <3>1. 1 \in 1..n /\ q[1] = Head(q)
          BY <1>1
    <3>2. QED
          BY <1>2, <3>1 DEF Has
  <2>4. QED
        BY <2>1, <2>2, <2>3
<1>4. ASSUME ClosedFollows(q) PROVE ClosedFollows(Tail(q))
  <2> SUFFICES ASSUME NEW i \in 1..n - 1, Tail(q)[i] = "opened"
               PROVE  \E j \in 1..n - 1 : i < j /\ Tail(q)[j] = "closed"
      BY <1>1 DEF ClosedFollows
  <2>1. i + 1 \in 1..n /\ q[i + 1] = "opened"
        BY <1>1
  <2>2. PICK j \in 1..n : i + 1 < j /\ q[j] = "closed"
        BY <1>2, <1>4, <2>1 DEF ClosedFollows
  <2>3. j - 1 \in 1..n - 1 /\ i < j - 1 /\ Tail(q)[j - 1] = "closed"
        BY <1>1, <2>2
  <2>4. QED
        BY <2>3
<1>5. ASSUME ClosedFollows(q), Head(q) = "opened" PROVE Has(Tail(q), "closed")
  <2>1. 1 \in 1..n /\ q[1] = "opened"
        BY <1>1, <1>5
  <2>2. PICK j \in 1..n : 1 < j /\ q[j] = "closed"
        BY <1>2, <1>5, <2>1 DEF ClosedFollows
  <2>3. j - 1 \in 1..n - 1 /\ Tail(q)[j - 1] = "closed"
        BY <1>1, <2>2
  <2>4. QED
        BY <1>1, <2>3 DEF Has
<1>6. QED
      BY <1>1, <1>3, <1>4, <1>5

(* Every step keeps an open claim window under a Matter window. *)
LEMMA WindowStep ==
  LifecycleTypeOK /\ ClaimStoreTypeOK /\ WindowInv /\ [Next]_vars => WindowInv'
<1> SUFFICES ASSUME LifecycleTypeOK, ClaimStoreTypeOK, WindowInv, [Next]_vars
             PROVE  WindowInv'
    OBVIOUS
<1>t. /\ proto \in Protocols /\ is_active(proto) \in Protocols /\ nvs.claimed \in BOOLEAN
      /\ chipq \in Seq(Items) /\ matter_left \in 0..MatterTimeout
      /\ MatterTimeout \in Nat /\ Duration \in Nat \ {0}
      BY ProtocolTypes, ProtocolAssumption, LifecycleAssumption
      DEF LifecycleTypeOK, ClaimStoreTypeOK, Store!ClaimStates
<1>m. /\ ~close(proto).active /\ ~mark_commissioned(proto).active /\ ~factory_reset(proto).active
      /\ \A b \in BOOLEAN : ~Initialized(b).active
      /\ is_active(proto).active => proto.active
      /\ Later(proto).active = proto.active
      BY <1>t, Methods
<1>o. /\ OpenFor(proto) \in Nat /\ OpenFor(open_window(proto)) = 0
      /\ is_active(proto).active => OpenFor(is_active(proto)) = OpenFor(proto)
      /\ proto.active /\ OpenFor(proto) < MatterTimeout => OpenFor(Later(proto)) = OpenFor(proto) + 1
      BY <1>t, OpenForFacts
(* The window is left alone, or closed; the rest is as before. *)
<1>k. ASSUME proto'.active => proto.active /\ OpenFor(proto') = OpenFor(proto),
             UNCHANGED <<claim_ready, switch, chipq, matter_open, matter_left, age>>
      PROVE  WindowInv'
      BY <1>k DEF WindowInv, PressUnderWay
(* The window is closed, whatever happens to the rest. *)
<1>c. ASSUME ~proto'.active, matter_open' \/ ClosedFollows(chipq')
      PROVE  WindowInv'
      BY <1>c DEF WindowInv
(* The queue loses an item that concerns no window. *)
<1>r. ASSUME UNCHANGED <<proto, age, claim_ready, switch, matter_open, matter_left>>,
             chipq # <<>>, Head(chipq) \notin {"open_work", "closed"}, chipq' = Tail(chipq)
      PROVE  WindowInv'
  <2>1. /\ Has(chipq', "closed") <=> Has(chipq, "closed")
        /\ Has(chipq', "open_work") <=> Has(chipq, "open_work")
        /\ ClosedFollows(chipq) => ClosedFollows(chipq')
        BY <1>t, <1>r, FromTheFront
  <2>2. QED
        BY <1>r, <2>1 DEF WindowInv, PressUnderWay
(* Something that concerns no window is put into it. *)
<1>a. ASSUME NEW x \in {"factory_reset", "released"}, chipq' = Append(chipq, x),
             UNCHANGED <<proto, age, claim_ready, matter_open, matter_left>>,
             switch' \in {"schedule", "cancel"} <=> switch \in {"schedule", "cancel"}
      PROVE  WindowInv'
  <2>1. x \in Items /\ x \notin {"closed", "open_work", "opened"}
        BY DEF Items
  <2>2. /\ Has(chipq', "closed") <=> Has(chipq, "closed")
        /\ Has(chipq', "open_work") <=> Has(chipq, "open_work")
        /\ ClosedFollows(chipq) => ClosedFollows(chipq')
        BY <1>t, <1>a, <2>1, AtTheEnd
  <2>3. QED
        BY <1>a, <2>2 DEF WindowInv, PressUnderWay
(* The Matter window closes. *)
<1>d. ASSUME NEW q \in Seq(Items), \A item \in Items : Has(chipq, item) => Has(q, item),
             Has(q, "open_work") => Has(chipq, "open_work"),
             chipq' = Append(q, "closed"), matter_left' = 0,
             UNCHANGED <<proto, age, claim_ready, switch>>
      PROVE  WindowInv'
  <2>1. "closed" \in Items /\ "open_work" \in Items
        BY DEF Items
  <2>2. /\ Has(chipq', "closed") /\ ClosedFollows(chipq')
        /\ Has(chipq', "open_work") <=> Has(chipq, "open_work")
        BY <1>d, <2>1, AtTheEnd
  <2>3. QED
        BY <1>d, <1>t, <1>o, <2>2 DEF WindowInv, PressUnderWay
<1> USE DEF gattVars, bootVars, matterVars
<1>1. CASE Start
  <2>1. CASE proto' = Initialized(nvs.claimed)
        BY <1>1, <2>1, <1>t, <1>m, <1>c DEF Start, WindowInv
  <2>2. CASE UNCHANGED <<claim_ready, proto>>
        BY <1>1, <2>2, <1>k DEF Start
  <2>3. QED
        BY <1>1, <2>1, <2>2 DEF Start
<1>2. CASE CommissioningPress
  <2>1. CASE GattOpenWindow /\ switch' = "schedule"
        BY <1>2, <2>1, <1>t, <1>o DEF CommissioningPress, GattOpenWindow, WindowInv, PressUnderWay
  <2>2. CASE GattOpenFails /\ UNCHANGED switch
        BY <1>2, <2>2, <1>k DEF CommissioningPress, GattOpenFails
  <2>3. QED
        BY <1>2, <2>1, <2>2 DEF CommissioningPress
<1>3. CASE ResetPress
      BY <1>3, <1>m, <1>c DEF ResetPress, GattFactoryReset, WindowInv
<1>4. CASE PressSchedule
  <2>1. CASE chipq' = Append(chipq, "open_work") /\ switch' = "idle"
    <3>1. "open_work" \in Items
          BY DEF Items
    <3>2. /\ Has(chipq', "open_work") /\ (Has(chipq, "closed") => Has(chipq', "closed"))
          /\ ClosedFollows(chipq) => ClosedFollows(chipq')
          BY <1>t, <2>1, <3>1, AtTheEnd
    <3>3. QED
          BY <1>4, <2>1, <3>2, <1>t, <1>o DEF PressSchedule, WindowInv, PressUnderWay
  <2>2. CASE switch' = "cancel" /\ UNCHANGED chipq
        BY <1>4, <2>2 DEF PressSchedule, WindowInv, PressUnderWay
  <2>3. QED
        BY <1>4, <2>1, <2>2 DEF PressSchedule
<1>5. CASE PressCancel
      BY <1>5, <1>m, <1>c DEF PressCancel, GattCancel, WindowInv
<1>6. CASE ResetClear
      BY <1>6 DEF ResetClear, WindowInv, PressUnderWay
<1>7. CASE ResetErase
      BY <1>7 DEF ResetErase, WindowInv, PressUnderWay
<1>8. CASE MatterReset
  <2>1. CASE chipq' = Append(chipq, "factory_reset")
        BY <1>8, <2>1, <1>a DEF MatterReset
  <2>2. CASE UNCHANGED chipq
        BY <1>8, <2>2 DEF MatterReset, WindowInv, PressUnderWay
  <2>3. QED
        BY <1>8, <2>1, <2>2 DEF MatterReset
<1>9. CASE WindowOpened
  <2>1. CASE claim_ready /\ GattOpenWindow
    <3>1. chipq # <<>> /\ Head(chipq) = "opened" /\ chipq' = Tail(chipq)
          BY <1>9 DEF WindowOpened, Dispatch
    <3>2. /\ matter_open \/ Has(chipq', "closed")
          /\ matter_open \/ ClosedFollows(chipq')
          BY <1>t, <3>1, FromTheFront DEF WindowInv
    <3>3. /\ proto'.active => OpenFor(proto') = 0 /\ age' = 0
          /\ UNCHANGED <<matter_open, matter_left, claim_ready>>
          BY <1>9, <2>1, <1>o DEF WindowOpened, GattOpenWindow
    <3>4. QED
          BY <1>t, <2>1, <3>2, <3>3 DEF WindowInv, PressUnderWay
  <2>2. CASE UNCHANGED <<proto, age>>
        BY <1>9, <2>2, <1>r DEF WindowOpened, Dispatch
  <2>3. QED
        BY <1>9, <2>1, <2>2 DEF WindowOpened, GattOpenFails
<1>10. CASE WindowClosed
  <2>1. ~proto'.active
        BY <1>10, <1>m DEF WindowClosed, GattCancel, WindowInv
  <2>2. matter_open' \/ ClosedFollows(chipq')
        BY <1>10, <1>t, FromTheFront DEF WindowClosed, Dispatch, WindowInv
  <2>3. QED
        BY <2>1, <2>2, <1>c
<1>11. CASE CommissioningComplete
  <2>1. ~proto'.active
        BY <1>11, <1>m DEF CommissioningComplete, GattMarkCommissioned, WindowInv
  <2>2. matter_open' \/ ClosedFollows(chipq')
        BY <1>11, <1>t, FromTheFront DEF CommissioningComplete, Dispatch, WindowInv
  <2>3. QED
        BY <2>1, <2>2, <1>c
<1>12. CASE SessionReleased
      BY <1>12, <1>r DEF SessionReleased, GattRelease, Dispatch
<1>13. CASE open_commissioning_work
  <2>1. chipq # <<>> /\ Head(chipq) = "open_work"
        BY <1>13 DEF open_commissioning_work, Dispatch
  <2>2. /\ Has(chipq, "open_work") /\ Tail(chipq) \in Seq(Items)
        /\ Has(chipq, "closed") <=> Has(Tail(chipq), "closed")
        /\ ClosedFollows(chipq) => ClosedFollows(Tail(chipq))
        BY <1>t, <2>1, FromTheFront
  <2>3. proto.active => OpenFor(proto) = 0
        BY <2>2 DEF WindowInv, PressUnderWay
  <2>4. UNCHANGED <<switch, claim_ready>>
        BY <1>13 DEF open_commissioning_work
  <2>5. CASE matter_open /\ chipq' = Tail(chipq) /\ UNCHANGED <<gattVars, matter_open, matter_left>>
        BY <1>t, <2>2, <2>3, <2>4, <2>5 DEF WindowInv, PressUnderWay
  <2>6. CASE matter_open' /\ matter_left' = MatterTimeout /\ UNCHANGED gattVars
        BY <1>t, <2>3, <2>4, <2>6 DEF WindowInv, PressUnderWay
  <2>7. CASE ~matter_open /\ GattCancel /\ chipq' = Tail(chipq)
        BY <1>m, <1>c, <2>2, <2>7 DEF WindowInv, GattCancel
  <2>8. QED
        BY <1>13, <2>5, <2>6, <2>7 DEF open_commissioning_work
<1>14. CASE FactoryReset
  <2>1. ClosedFollows(<<>>)
        BY DEF ClosedFollows
  <2>2. QED
        BY <1>14, <2>1, <1>m, <1>c DEF FactoryReset, Restart
<1>15. CASE MatterOpens
  <2>1. "opened" \in Items /\ chipq' = Append(chipq, "opened")
        BY <1>15, <1>t, AtTheEnd DEF MatterOpens, Post, Items
  <2>2. /\ Has(chipq', "closed") <=> Has(chipq, "closed")
        /\ Has(chipq', "open_work") <=> Has(chipq, "open_work")
        BY <1>t, <2>1, AtTheEnd
  <2>3. QED
        BY <1>15, <1>t, <1>o, <2>2 DEF MatterOpens, WindowInv, PressUnderWay
<1>16. CASE MatterCloses
  <2>1. "closed" \in Items /\ chipq' = Append(chipq, "closed")
        BY <1>16, <1>t, AtTheEnd DEF MatterCloses, Post, Items
  <2>2. QED
        BY <1>16, <1>t, <1>d, <2>1 DEF MatterCloses
<1>17. CASE Commissioned
  <2> DEFINE q == Append(chipq, "complete")
  <2>1. "complete" \in Items
        BY DEF Items
  <2>2. /\ q \in Seq(Items)
        /\ \A item \in Items : Has(chipq, item) => Has(q, item)
        /\ Has(q, "open_work") => Has(chipq, "open_work")
        BY <1>t, <2>1, AtTheEnd
  <2>3. chipq' = Append(q, "closed")
        BY <1>17, <1>t DEF Commissioned, Post
  <2>4. QED
        BY <1>17, <1>d, <2>2, <2>3 DEF Commissioned
<1>18. CASE FabricRemoved
      BY <1>18, <1>k DEF FabricRemoved
<1>19. CASE SessionEnds
  <2>1. chipq' = Append(chipq, "released")
        BY <1>19, <1>t, AtTheEnd DEF SessionEnds, Post, Items
  <2>2. QED
        BY <1>19, <1>a, <2>1 DEF SessionEnds
<1>20. CASE WorkerStep
      BY <1>20, <1>k DEF WorkerStep
<1>21. CASE Tick
  <2>1. chipq = <<>> /\ switch = "idle" /\ ~PressUnderWay /\ ~Has(chipq, "closed")
        BY <1>21 DEF Tick, PressUnderWay, Has
  <2>2. UNCHANGED <<claim_ready, switch, chipq, matter_open>>
        BY <1>21 DEF Tick
  <2>3. ~PressUnderWay'
        BY <2>1, <2>2 DEF PressUnderWay, Has
  <2>4. /\ proto' = Later(proto) /\ age' = (IF age < Duration THEN age + 1 ELSE age)
        /\ matter_left' = (IF matter_open THEN matter_left - 1 ELSE 0)
        /\ matter_open => matter_left > 0
        BY <1>21 DEF Tick
  <2>5. /\ proto'.active <=> proto.active
        /\ proto.active => matter_open /\ OpenFor(proto) + matter_left <= MatterTimeout
        /\ proto.active => OpenFor(proto') = OpenFor(proto) + 1
        BY <1>t, <1>m, <1>o, <2>1, <2>4 DEF WindowInv
  <2>6. QED
        BY <1>t, <1>o, <2>1, <2>2, <2>3, <2>4, <2>5 DEF WindowInv
<1>22. CASE PowerLoss
  <2>1. ClosedFollows(<<>>)
        BY DEF ClosedFollows
  <2>2. QED
        BY <1>22, <2>1, <1>m, <1>c DEF PowerLoss, Restart
<1>23. ASSUME NEW c \in Connections, LookAtWindow(c)
     PROVE  WindowInv'
      BY <1>23, <1>m, <1>o, <1>k DEF LookAtWindow
<1>24. ASSUME NEW c \in Connections, WriteCancel(c)
     PROVE  WindowInv'
      BY <1>24, <1>m, <1>c DEF WriteCancel, GattCancel, WindowInv
<1>25. ASSUME NEW c \in Connections, NEW challenge \in Challenges, WriteChallenge(c, challenge)
     PROVE  WindowInv'
  <2>1. CASE proto' = is_active(proto)
        BY <1>25, <2>1, <1>m, <1>o, <1>k DEF WriteChallenge
  <2>2. CASE proto' = Answered(is_active(proto), challenge) /\ is_active(proto).active
    <3>1. proto'.active /\ OpenFor(proto') = OpenFor(is_active(proto))
          BY <1>t, <2>2, AnswerMethod, OpenForFacts
    <3>2. QED
          BY <1>25, <2>2, <3>1, <1>m, <1>o, <1>k DEF WriteChallenge
  <2>3. QED
        BY <1>25, <2>1, <2>2 DEF WriteChallenge, MayAnswer
<1>26. CASE UNCHANGED vars
      BY <1>26, <1>k DEF vars
<1>27. QED
      BY <1>1, <1>2, <1>3, <1>4, <1>5, <1>6, <1>7, <1>8, <1>9, <1>10, <1>11,
         <1>12, <1>13, <1>14, <1>15, <1>16, <1>17, <1>18, <1>19, <1>20, <1>21,
         <1>22, <1>23, <1>24, <1>25, <1>26
      DEF Next, SwitchStep, ChipStep, ClientStep, StackStep, ReadIdentity, ReadState

(* Every step keeps the claimed flag on its way to NVS. *)
LEMMA ClaimedStep ==
  LifecycleTypeOK /\ ClaimStoreTypeOK /\ ClaimedInv /\ [Next]_vars => ClaimedInv'
<1> SUFFICES ASSUME LifecycleTypeOK, ClaimStoreTypeOK, ClaimedInv, [Next]_vars
             PROVE  ClaimedInv'
    OBVIOUS
<1>t. /\ proto \in Protocols /\ is_active(proto) \in Protocols /\ nvs.claimed \in BOOLEAN
      /\ proto.claimed \in BOOLEAN
      BY ProtocolTypes DEF LifecycleTypeOK, ClaimStoreTypeOK, Store!ClaimStates, Protocols
<1>m. /\ close(proto).claimed = proto.claimed /\ open_window(proto).claimed = proto.claimed
      /\ is_active(proto).claimed = proto.claimed /\ Later(proto).claimed = proto.claimed
      /\ mark_commissioned(proto).claimed /\ ~factory_reset(proto).claimed
      /\ Initialized(nvs.claimed).claimed = nvs.claimed
      /\ mark_commissioned(proto).claimed \in BOOLEAN
      BY <1>t, Methods, ProtocolTypes DEF Protocols
(* A step that leaves the claimed flag and the store alone. *)
<1>k. ASSUME proto'.claimed = proto.claimed,
             UNCHANGED <<up, claim_ready, claimVars>>,
             \/ switch' = switch
             \/ (up \/ switch # "idle") /\ {switch, switch'} \cap {"clear", "erase"} = {}
      PROVE  ClaimedInv'
      BY <1>k DEF ClaimedInv, OnItsWay, claimVars
(* save() of the flag that the protocol then has. *)
<1>s. ASSUME NEW state, Store!Save(state), up', switch' = switch, switch # "clear",
             claim_ready' => state.claimed = proto'.claimed
      PROVE  ClaimedInv'
      BY <1>s DEF ClaimedInv, OnItsWay, Store!Save
(* A reset: the flag wanted is the one that the next boot loads. *)
<1>r. ASSUME Restart
      PROVE  ClaimedInv'
      BY <1>r DEF Restart, ClaimedInv, OnItsWay
<1> USE DEF gattVars, bootVars, claimVars
<1>1. CASE Start
  <2>1. ~up /\ up' /\ UNCHANGED switch
        BY <1>1 DEF Start
  <2>2. /\ ~claim_ready /\ wanted = nvs /\ slot = {} /\ worker = "none" /\ switch = "idle"
        /\ io_mutex = "free"
        BY <2>1, <1>t DEF ClaimedInv, ClaimStoreTypeOK
  <2>3. CASE /\ proto' = Initialized(nvs.claimed) /\ UNCHANGED claimVars
        BY <2>1, <2>2, <2>3, <1>m DEF ClaimedInv, OnItsWay
  <2>4. CASE /\ Store!Save([nvs EXCEPT !.counters = FALSE])
             /\ proto' = Initialized(nvs.claimed) \/ ~claim_ready'
    <3>1. [nvs EXCEPT !.counters = FALSE].claimed = nvs.claimed
          BY DEF ClaimStoreTypeOK, Store!ClaimStates
    <3>2. QED
          BY <2>1, <2>2, <2>4, <3>1, <1>m, <1>s
  <2>5. CASE UNCHANGED <<claim_ready, proto, claimVars>>
        BY <2>1, <2>2, <2>5 DEF ClaimedInv, OnItsWay
  <2>6. QED
        BY <1>1, <2>2, <2>3, <2>4, <2>5 DEF Start
<1>2. CASE CommissioningPress
      BY <1>2, <1>m, <1>k DEF CommissioningPress, GattOpenWindow, GattOpenFails
<1>3. CASE ResetPress
  <2>1. up /\ switch = "idle" /\ UNCHANGED <<up, claim_ready, claimVars>>
        BY <1>3 DEF ResetPress
  <2>2. CASE proto' = factory_reset(proto) /\ switch' = "clear"
        BY <2>1, <2>2, <1>m DEF ClaimedInv, OnItsWay
  <2>3. CASE UNCHANGED proto /\ switch' = "matter_reset"
        BY <2>1, <2>3, <1>k
  <2>4. QED
        BY <1>3, <2>2, <2>3 DEF ResetPress, GattFactoryReset
<1>4. CASE PressSchedule
      BY <1>4, <1>k DEF PressSchedule
<1>5. CASE PressCancel
      BY <1>5, <1>m, <1>k DEF PressCancel, GattCancel
<1>6. CASE ResetClear
  <2>1. /\ switch = "clear" /\ UNCHANGED <<up, claim_ready, proto, worker, request, nvs>>
        /\ io_mutex = "free" /\ wanted' = Store!Unclaimed
        /\ switch' = IF io_mutex' = "clear" THEN "erase" ELSE "idle"
        BY <1>6 DEF ResetClear, Store!ClearBegin
  <2>2. /\ up /\ proto.claimed = FALSE /\ wanted'.claimed = FALSE
        /\ worker \in {"none", "receive", "take"}
        BY <2>1, <1>t DEF ClaimedInv, ClaimStoreTypeOK, Store!Unclaimed
  <2>3. CASE io_mutex' = "clear" /\ slot' = {} /\ overtaken' = (worker = "take")
        BY <2>1, <2>2, <2>3 DEF ClaimedInv, OnItsWay
  <2>4. CASE worker = "none" /\ claim_lost' = TRUE /\ UNCHANGED <<io_mutex, slot>>
        BY <2>1, <2>2, <2>4 DEF ClaimedInv, OnItsWay
  <2>5. QED
        BY <1>6, <2>3, <2>4 DEF ResetClear, Store!ClearBegin
<1>7. CASE ResetErase
  <2>1. /\ switch = "erase" /\ io_mutex = "clear" /\ io_mutex' = "free"
        /\ switch' \in {"idle", "matter_reset"}
        /\ UNCHANGED <<up, claim_ready, proto, slot, worker, request, wanted, overtaken>>
        /\ nvs' = Store!Unclaimed \/ claim_lost'
        BY <1>7 DEF ResetErase, Store!ClearErase
  <2>2. up /\ slot = {} /\ wanted = Store!Unclaimed /\ worker \notin {"counters", "claimed"}
        BY <2>1 DEF ClaimedInv
  <2>3. OnItsWay'
    <3>1. CASE nvs' = wanted /\ worker \in {"none", "receive"}
          BY <2>1, <2>2, <3>1 DEF OnItsWay
    <3>2. CASE claim_lost'
          BY <3>2 DEF OnItsWay
    <3>3. CASE worker = "take" /\ UNCHANGED claim_lost
          BY <2>1, <2>2, <3>3 DEF OnItsWay, ClaimedInv
    <3>4. claim_lost' \/ UNCHANGED claim_lost
          BY <1>7 DEF ResetErase, Store!ClearErase
    <3>5. QED
          BY <2>1, <2>2, <3>1, <3>2, <3>3, <3>4 DEF ClaimStoreTypeOK
  <2>4. QED
        BY <2>1, <2>2, <2>3 DEF ClaimedInv
<1>8. CASE MatterReset
      BY <1>8, <1>k DEF MatterReset
<1>9. CASE WindowOpened
      BY <1>9, <1>m, <1>k DEF WindowOpened, GattOpenWindow, GattOpenFails
<1>10. CASE WindowClosed
      BY <1>10, <1>m, <1>k DEF WindowClosed, GattCancel
<1>11. CASE CommissioningComplete
  <2>1. CASE claim_ready
    <3>1. /\ proto' = mark_commissioned(proto)
          /\ Store!Save([counters |-> FALSE, claimed |-> TRUE])
          /\ UNCHANGED <<up, claim_ready, switch>> /\ switch # "clear"
          BY <1>11, <2>1 DEF CommissioningComplete, GattMarkCommissioned, MutexFree
    <3>2. up
          BY <2>1 DEF ClaimedInv
    <3>3. QED
          BY <3>1, <3>2, <1>m, <1>s
  <2>2. CASE ~claim_ready
        BY <1>11, <2>2, <1>k DEF CommissioningComplete
  <2>3. QED
        BY <2>1, <2>2
<1>12. CASE SessionReleased
      BY <1>12, <1>k DEF SessionReleased, GattRelease
<1>13. CASE open_commissioning_work
      BY <1>13, <1>m, <1>k DEF open_commissioning_work, GattCancel
<1>14. CASE FactoryReset
      BY <1>14, <1>r DEF FactoryReset
<1>15. CASE MatterOpens
      BY <1>15, <1>k DEF MatterOpens
<1>16. CASE MatterCloses
      BY <1>16, <1>k DEF MatterCloses
<1>17. CASE Commissioned
      BY <1>17, <1>k DEF Commissioned
<1>18. CASE FabricRemoved
      BY <1>18, <1>k DEF FabricRemoved
<1>19. CASE SessionEnds
      BY <1>19, <1>k DEF SessionEnds
<1>20. CASE WorkerStep
  <2>1. UNCHANGED <<up, claim_ready, proto, switch, wanted, overtaken>> /\ Store!Worker
        BY <1>20 DEF WorkerStep, Store!Worker, Store!WorkerReceive, Store!WorkerTake,
                     Store!WriteCounters, Store!WriteClaimed
  <2>2. up
        BY <2>1 DEF ClaimedInv, Store!Worker, Store!WorkerReceive, Store!WorkerTake,
                    Store!WriteCounters, Store!WriteClaimed
  <2>3. CASE Store!WorkerReceive
        BY <2>1, <2>2, <2>3 DEF Store!WorkerReceive, ClaimedInv, OnItsWay
  <2>4. CASE Store!WorkerTake
        BY <2>1, <2>2, <2>4 DEF Store!WorkerTake, ClaimedInv, OnItsWay
  <2>5. ASSUME worker \in {"counters", "claimed"}, Store!WriteFails, UNCHANGED <<slot, request>>
        PROVE  ClaimedInv'
        BY <2>1, <2>2, <2>5 DEF Store!WriteFails, ClaimedInv, OnItsWay
  <2>6. CASE Store!WriteCounters
    <3>1. CASE /\ nvs' = [nvs EXCEPT !.counters = request.counters] /\ worker' = "claimed"
               /\ UNCHANGED <<io_mutex, claim_lost>>
      <4>1. nvs'.counters = request.counters
            BY <3>1 DEF ClaimStoreTypeOK, Store!ClaimStates
      <4>2. QED
            BY <2>1, <2>2, <2>6, <3>1, <4>1 DEF Store!WriteCounters, ClaimedInv, OnItsWay
    <3>2. QED
          BY <2>5, <2>6, <3>1 DEF Store!WriteCounters
  <2>7. CASE Store!WriteClaimed
    <3>1. CASE /\ nvs' = [nvs EXCEPT !.claimed = request.claimed] /\ worker' = "receive"
               /\ io_mutex' = "free" /\ claim_lost' = (claim_lost /\ request # wanted)
      <4>1. nvs' = request
        <5>1. nvs.counters = request.counters
              BY <2>7 DEF Store!WriteClaimed, ClaimedInv
        <5>2. QED
              BY <3>1, <5>1 DEF ClaimStoreTypeOK, Store!ClaimStates
      <4>2. slot' = slot /\ request' = request /\ worker = "claimed" /\ io_mutex = "worker"
            BY <2>7 DEF Store!WriteClaimed, ClaimedInv
      <4>3. OnItsWay'
        <5>1. CASE slot = {wanted}
              BY <2>1, <4>2, <5>1 DEF OnItsWay
        <5>2. CASE slot = {} /\ request = wanted
              BY <2>1, <3>1, <4>1, <4>2, <5>2 DEF OnItsWay
        <5>3. CASE overtaken
              BY <2>1, <5>3 DEF OnItsWay
        <5>4. CASE claim_lost /\ request # wanted
              BY <3>1, <5>4 DEF OnItsWay
        <5>5. QED
              BY <4>2, <5>1, <5>2, <5>3, <5>4 DEF ClaimedInv, OnItsWay
      <4>4. QED
            BY <2>1, <2>2, <3>1, <4>2, <4>3 DEF ClaimedInv
    <3>2. QED
          BY <2>5, <2>7, <3>1 DEF Store!WriteClaimed
  <2>8. QED
        BY <2>1, <2>3, <2>4, <2>6, <2>7 DEF Store!Worker
<1>21. CASE Tick
      BY <1>21, <1>m, <1>k DEF Tick
<1>22. CASE PowerLoss
      BY <1>22, <1>r DEF PowerLoss
<1>23. ASSUME NEW c \in Connections, LookAtWindow(c)
     PROVE  ClaimedInv'
      BY <1>23, <1>m, <1>k DEF LookAtWindow
<1>24. ASSUME NEW c \in Connections, WriteCancel(c)
     PROVE  ClaimedInv'
      BY <1>24, <1>m, <1>k DEF WriteCancel, GattCancel
<1>25. ASSUME NEW c \in Connections, NEW challenge \in Challenges, WriteChallenge(c, challenge)
     PROVE  ClaimedInv'
  <2>1. Answered(is_active(proto), challenge).claimed = proto.claimed
        BY <1>t, <1>m, AnswerMethod
  <2>2. proto'.claimed = proto.claimed
        BY <1>25, <2>1, <1>m DEF WriteChallenge
  <2>3. QED
        BY <1>25, <2>2, <1>k DEF WriteChallenge
<1>26. CASE UNCHANGED vars
      BY <1>26, <1>k DEF vars
<1>27. QED
      BY <1>1, <1>2, <1>3, <1>4, <1>5, <1>6, <1>7, <1>8, <1>9, <1>10, <1>11,
         <1>12, <1>13, <1>14, <1>15, <1>16, <1>17, <1>18, <1>19, <1>20, <1>21,
         <1>22, <1>23, <1>24, <1>25, <1>26
      DEF Next, SwitchStep, ChipStep, ClientStep, StackStep, ReadIdentity, ReadState

-----------------------------------------------------------------------------
(* The states in which the device may be switched on. *)
LEMMA ClaimInit == Init => ClaimInv
<1> SUFFICES ASSUME Init PROVE ClaimInv
    OBVIOUS
<1>1. /\ Initialized(FALSE) \in Protocols /\ ~Initialized(FALSE).active
      /\ ~Initialized(FALSE).claimed /\ Flagged(Initialized(FALSE))
  <2>1. PICK p : p = [active |-> FALSE, over |-> 0, nonce |-> "zero", replay |-> <<>>,
                      claimed |-> FALSE, flags |-> [commissionable |-> FALSE, claimed |-> FALSE]]
        OBVIOUS
  <2>2. <<>> \in Seq(Challenges) /\ 0 \in 0..TimeModulus - 1
        BY ProtocolAssumption
  <2>3. p \in Protocols
        BY <2>1, <2>2 DEF Protocols, Nonces
  <2>4. QED
        BY <2>3, ProtocolTypes, Methods, MethodsFlagged
<1>2. LifecycleTypeOK
  <2>1. <<>> \in Seq(Items) /\ 0 \in 0..MatterTimeout /\ Duration \in 0..Duration
        BY ProtocolAssumption, LifecycleAssumption
  <2>2. QED
        BY <1>1, <2>1 DEF Init, RamInit, LifecycleTypeOK
<1>3. ClaimStoreTypeOK
  <2>1. Store!Unclaimed \in Store!ClaimStates
        BY DEF Store!Unclaimed, Store!ClaimStates
  <2>2. QED
        BY <2>1 DEF Init, Store!Init, ClaimStoreTypeOK
<1>4. SessionInv
      BY <1>1 DEF Init, RamInit, SessionInv, NonceOnOfferIsFresh, FlagsAreCurrent, Flagged
<1>5. WindowInv
  <2>1. ClosedFollows(<<>>)
        BY DEF ClosedFollows
  <2>2. QED
        BY <1>1, <2>1 DEF Init, RamInit, WindowInv
<1>6. ClaimedInv
      BY <1>1 DEF Init, RamInit, Store!Init, ClaimedInv, OnItsWay
<1>7. QED
      BY <1>2, <1>3, <1>4, <1>5, <1>6 DEF ClaimInv

(***************************************************************************)
(* The inductive invariant of the claim lifecycle: types, session, window  *)
(* and claimed flag, through every step of the three tasks, of the worker  *)
(* and of the stack, and through every reset of the chip.                  *)
(***************************************************************************)
THEOREM ClaimInvariant == Spec => []ClaimInv
<1>1. ClaimInv /\ [Next]_vars => ClaimInv'
      BY LifecycleTypeStep, ClaimStoreTypeStep, SessionStep, WindowStep, ClaimedStep DEF ClaimInv
<1>2. QED
      BY <1>1, ClaimInit, PTL DEF Spec

(* No proof is computed over a used nonce or over the zeros of close(). *)
THEOREM ClaimNonceFresh == Spec => []NonceOnOfferIsFresh
<1>1. ClaimInv => NonceOnOfferIsFresh
      BY DEF ClaimInv, SessionInv
<1>2. QED
      BY <1>1, ClaimInvariant, PTL

(* refresh_flags is called wherever a method changes what it reads. *)
THEOREM ClaimFlagsCurrent == Spec => []FlagsAreCurrent
<1>1. ClaimInv => FlagsAreCurrent
      BY DEF ClaimInv, SessionInv
<1>2. QED
      BY <1>1, ClaimInvariant, PTL

(* read_response gives a client only the proof computed for its session. *)
THEOREM ClaimProofHasSession == Spec => []ProofHasSession
<1>1. ClaimInv => ProofHasSession
      BY DEF ClaimInv, SessionInv, ProofHasSession, Readable
<1>2. QED
      BY <1>1, ClaimInvariant, PTL

(***************************************************************************)
(* With the queue empty and no press under way an open claim window is     *)
(* under an open Matter window, whatever the order of presses, events and  *)
(* failed calls was.                                                       *)
(***************************************************************************)
THEOREM ClaimNoOrphanWindow == Spec => []NoOrphanWindow
<1>1. ClaimInv => NoOrphanWindow
      BY DEF ClaimInv, WindowInv, NoOrphanWindow, PressUnderWay, Has
<1>2. QED
      BY <1>1, ClaimInvariant, PTL

(***************************************************************************)
(* At rest NVS has the claimed flag of the protocol, unless a write was    *)
(* lost or the last clear() was overtaken by the worker.                   *)
(***************************************************************************)
THEOREM ClaimFlagSurvives == Spec => []ClaimSurvives
<1>1. ClaimInv => ClaimSurvives
      BY DEF ClaimInv, ClaimedInv, OnItsWay, ClaimSurvives, Store!ClaimSettled
<1>2. QED
      BY <1>1, ClaimInvariant, PTL

(***************************************************************************)
(* respond() computes a proof only within Duration of the last             *)
(* open_window, although the expiry is noticed lazily and the clock wraps. *)
(* It says nothing of read_response, which gives an older proof again.     *)
(***************************************************************************)
THEOREM ClaimProofComputedInWindow == Spec => ProofComputedInWindow
<1>1. ASSUME ClaimInv, NEW c \in Connections, NEW challenge \in Challenges,
             WriteChallenge(c, challenge), response_valid'
      PROVE  age < Duration
  <2>1. proto \in Protocols /\ MayAnswer(is_active(proto), challenge)
        BY <1>1 DEF ClaimInv, LifecycleTypeOK, WriteChallenge
  <2>2. proto.active /\ ~Expired(proto)
        BY <2>1, Methods DEF MayAnswer
  <2>3. OpenFor(proto) <= MatterTimeout /\ age = IF OpenFor(proto) < Duration
                                                 THEN OpenFor(proto) ELSE Duration
        BY <1>1, <2>2 DEF ClaimInv, WindowInv
  <2>4. OpenFor(proto) < Duration
        BY <2>1, <2>2, <2>3, OpenForFacts
  <2>5. QED
        BY <2>3, <2>4
<1>2. ClaimInv => [\A c \in Connections, challenge \in Challenges :
                     WriteChallenge(c, challenge) /\ response_valid' => age < Duration]_vars
      BY <1>1
<1>3. QED
      BY <1>2, ClaimInvariant, PTL DEF ProofComputedInWindow

=============================================================================
