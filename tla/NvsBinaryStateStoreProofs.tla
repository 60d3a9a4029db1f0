---------------------- MODULE NvsBinaryStateStoreProofs ----------------------
(***************************************************************************)
(* What the relay-state store promises, for every set of failing calls.    *)
(***************************************************************************)
EXTENDS NvsBinaryStateStoreHistory, SequenceTheorems, TLAPS

(***************************************************************************)
(* The strengthening of SettledIsDurable: wherever save() and the flush    *)
(* are, somebody still owes NVS the value of pending_on_, or NVS has it.   *)
(***************************************************************************)
FlushOwed ==
  \/ save_pc # "idle"
  \/ timer = "armed"
  \/ flush_pc = "load"
  \/ flush_pc \in {"schema", "relay"} /\ flush_on = pending_on

StoreInv ==
  /\ StoreTypeOK
  /\ timer = "none" => save_pc = "idle" /\ flush_pc = "idle"
  /\ flush_pc = "relay" => nvs_schema
  /\ timer = "none" \/ store_lost \/ FlushOwed
       \/ (flush_pc = "idle" /\ nvs_schema /\ nvs_relay = Stored(pending_on))

(* The store as a reset leaves it satisfies the strengthened invariant. *)
LEMMA StoreInit == Init => StoreInv
  BY DEF Init, StoreRamInit, StoreInv, StoreTypeOK

(* Every step of save(), of the flush and of a power loss preserves it. *)
LEMMA StoreStep == StoreInv /\ [Next]_storeVars => StoreInv'
<1> SUFFICES ASSUME StoreInv, [Next]_storeVars PROVE StoreInv'
    OBVIOUS
<1> USE DEF StoreInv, StoreTypeOK, FlushOwed, Stored
<1>1. ASSUME NEW on \in BOOLEAN, SaveBegin(on) PROVE StoreInv'
      BY <1>1 DEF SaveBegin
<1>2. CASE SaveStop
      BY <1>2 DEF SaveStop
<1>3. CASE SaveStart
      BY <1>3 DEF SaveStart
<1>4. CASE TimerFires
      BY <1>4 DEF TimerFires
<1>5. CASE FlushLoad
      BY <1>5 DEF FlushLoad, CommitFails
<1>6. CASE FlushSchema
      BY <1>6 DEF FlushSchema, CommitFails
<1>7. CASE FlushRelay
      BY <1>7 DEF FlushRelay, CommitFails
<1>8. CASE StorePowerLoss
      BY <1>8 DEF StorePowerLoss
<1>9. CASE UNCHANGED storeVars
      BY <1>9 DEF storeVars
<1>10. QED
      BY <1>1, <1>2, <1>3, <1>4, <1>5, <1>6, <1>7, <1>8, <1>9 DEF Next, Save, Flush

(* The strengthened invariant always holds. *)
THEOREM StoreInvariant == Spec => []StoreInv
  BY StoreInit, StoreStep, PTL DEF Spec

(* Every variable of the store keeps its type. *)
THEOREM StoreTypeCorrect == Spec => []StoreTypeOK
<1>1. StoreInv => StoreTypeOK
      BY DEF StoreInv
<1>2. QED
      BY <1>1, StoreInvariant, PTL

(***************************************************************************)
(* At rest NVS holds the last value save() was given, unless a call of     *)
(* the timer or of NVS failed and no save or flush has made it good.       *)
(***************************************************************************)
THEOREM StoreDurable == Spec => []SettledIsDurable
<1>1. StoreInv => SettledIsDurable
      BY DEF StoreInv, StoreTypeOK, FlushOwed, Stored, SettledIsDurable, Settled,
             LoadOk, Loaded
<1>2. QED
      BY <1>1, StoreInvariant, PTL

-----------------------------------------------------------------------------
(* Sequences of saved values, apart from the store. *)
LEMMA AppendIs ==
  ASSUME NEW T, NEW s \in Seq(T), NEW v \in T
  PROVE  /\ Append(s, v) \in Seq(T) /\ Append(s, v) # <<>> /\ Len(Append(s, v)) = Len(s) + 1
         /\ Append(s, v)[Len(Append(s, v))] = v
         /\ \A i \in 1..Len(s) : Append(s, v)[i] = s[i]
BY AppendProperties

LEMMA RestIs ==
  ASSUME NEW T, NEW s \in Seq(T), NEW k \in 0..Len(s)
  PROVE  /\ SubSeq(s, k + 1, Len(s)) \in Seq(T)
         /\ k = 0 => SubSeq(s, k + 1, Len(s)) = s
         /\ k = Len(s) => SubSeq(s, k + 1, Len(s)) = <<>>
         /\ k < Len(s) => /\ SubSeq(s, k + 1, Len(s)) # <<>>
                          /\ SubSeq(s, k + 1, Len(s))[Len(SubSeq(s, k + 1, Len(s)))] = s[Len(s)]
<1> DEFINE r == SubSeq(s, k + 1, Len(s))
<1>1. Len(s) \in Nat /\ k + 1 \in 1..Len(s) + 1 /\ k \in Nat
      OBVIOUS
<1>2. r \in Seq(T) /\ Len(r) = Len(s) - k /\ \A i \in 1..Len(s) - k : r[i] = s[k + i]
      BY <1>1, SubSeqProperties
<1> HIDE DEF r
<1>3. k = 0 => r = s
  <2>1. ASSUME k = 0 PROVE Len(r) = Len(s) /\ \A i \in 1..Len(s) : r[i] = s[i]
        BY <1>1, <1>2, <2>1
  <2>2. QED
        BY <1>2, <2>1, SeqEqual
<1>4. k = Len(s) => r = <<>>
      BY <1>1, <1>2, EmptySeq
<1>5. k < Len(s) => r # <<>> /\ r[Len(r)] = s[Len(s)]
  <2>1. ASSUME k < Len(s) PROVE Len(r) \in 1..Len(s) - k /\ k + Len(r) = Len(s)
        BY <1>1, <1>2, <2>1
  <2>2. QED
        BY <1>2, <2>1, EmptySeq
<1>6. QED
      BY <1>2, <1>3, <1>4, <1>5 DEF r

-----------------------------------------------------------------------------
(***************************************************************************)
(* What the history of saves has to do with the keys: pending_on_ is the   *)
(* value saved last, the flush carries one of the values that NVS does not *)
(* have yet or the one it has, and the schema key is there before any      *)
(* relay key, so that writing it never changes what load() returns.        *)
(***************************************************************************)
Has(on) == LoadOk /\ Loaded = on

HistoryInv ==
  /\ StoreInv
  /\ ahead \in Seq(BOOLEAN) /\ flush_at \in 0..Len(ahead)
  /\ nvs_relay # "absent" => nvs_schema
  /\ IF timer = "none" THEN ahead = <<>>
     ELSE IF ahead = <<>> THEN Has(pending_on) ELSE ahead[Len(ahead)] = pending_on
  /\ flush_pc \in {"schema", "relay"} =>
       IF flush_at = 0 THEN Has(flush_on) ELSE ahead[flush_at] = flush_on

(* The steps with their history are steps of the store. *)
LEMMA HistoryIsStore == [HistoryNext]_historyVars => [Next]_storeVars
BY DEF HistoryNext, historyVars, SaveBeginH, FlushLoadH, FlushRelayH, StorePowerLossH, Next, Save,
       Flush

LEMMA HistoryStarts == HistoryInit => HistoryInv
BY StoreInit DEF HistoryInit, HistoryInv, Init, StoreRamInit

LEMMA HistoryStep == HistoryInv /\ [HistoryNext]_historyVars => HistoryInv'
<1> SUFFICES ASSUME HistoryInv, [HistoryNext]_historyVars PROVE HistoryInv'
    OBVIOUS
<1>i. StoreInv /\ StoreInv'
      BY HistoryIsStore, StoreStep DEF HistoryInv
<1>t. StoreTypeOK /\ StoreTypeOK'
      BY <1>i DEF StoreInv
<1>l. ahead \in Seq(BOOLEAN) /\ Len(ahead) \in Nat /\ flush_at \in 0..Len(ahead)
      BY DEF HistoryInv
<1>1. ASSUME NEW on \in BOOLEAN, SaveBeginH(on) PROVE HistoryInv'
  <2>1. CASE save_pc' = "idle"
        BY <1>1, <1>i, <2>1 DEF SaveBeginH, SaveBegin, HistoryInv, Has, LoadOk, Loaded
  <2>2. CASE save_pc' # "idle"
    <3>1. /\ ahead' = Append(ahead, on) /\ pending_on' = on /\ timer' # "none"
          /\ UNCHANGED <<flush_at, flush_pc, flush_on, nvs_schema, nvs_relay>>
          BY <1>1, <1>t, <2>2 DEF SaveBeginH, SaveBegin, StoreTypeOK
    <3>2. /\ ahead' \in Seq(BOOLEAN) /\ ahead' # <<>> /\ Len(ahead') = Len(ahead) + 1
          /\ ahead'[Len(ahead')] = on
          /\ \A i \in 1..Len(ahead) : ahead'[i] = ahead[i]
          BY <1>l, <3>1, AppendIs
    <3>3. flush_at' \in 0..Len(ahead') /\ (flush_at # 0 => flush_at \in 1..Len(ahead))
          BY <1>l, <3>1, <3>2
    <3>4. QED
          BY <1>i, <3>1, <3>2, <3>3 DEF HistoryInv, Has, LoadOk, Loaded
  <2>3. QED
        BY <2>1, <2>2
<1>2. CASE FlushLoadH
  <2>1. /\ flush_at' = Len(ahead) /\ flush_on' = pending_on /\ timer # "none"
        /\ UNCHANGED <<ahead, timer, pending_on, nvs_schema, nvs_relay>>
        BY <1>2, <1>i DEF FlushLoadH, FlushLoad, StoreInv
  <2>2. Len(ahead) = 0 <=> ahead = <<>>
        BY <1>l, EmptySeq
  <2>3. QED
        BY <1>i, <1>l, <2>1, <2>2 DEF HistoryInv, Has, LoadOk, Loaded
<1>3. CASE FlushRelayH
  <2> DEFINE rest == SubSeq(ahead, flush_at + 1, Len(ahead))
  <2>1. /\ nvs_schema /\ nvs_schema' = nvs_schema /\ flush_pc = "relay" /\ flush_pc' = "idle"
        /\ UNCHANGED <<timer, pending_on, flush_on>> /\ timer # "none"
        BY <1>3, <1>i DEF FlushRelayH, FlushRelay, CommitFails, StoreInv
  <2>2. /\ rest \in Seq(BOOLEAN) /\ Len(rest) \in Nat
        /\ flush_at = 0 => rest = ahead
        /\ flush_at = Len(ahead) => rest = <<>>
        /\ flush_at < Len(ahead) => rest # <<>> /\ rest[Len(rest)] = ahead[Len(ahead)]
    <3>1. /\ rest \in Seq(BOOLEAN)
          /\ flush_at = 0 => rest = ahead
          /\ flush_at = Len(ahead) => rest = <<>>
          /\ flush_at < Len(ahead) => /\ rest # <<>>
                                     /\ rest[Len(rest)] = ahead[Len(ahead)]
          BY <1>l, RestIs, Zenon
    <3> HIDE DEF rest
    <3>2. Len(rest) \in Nat
          BY <3>1
    <3>3. QED
          BY <3>1, <3>2, Zenon
  <2>3. CASE nvs_relay' = Stored(flush_on)
    <3>1. Has(flush_on)' /\ nvs_relay' # "absent"
          BY <1>t, <2>1, <2>3 DEF Has, LoadOk, Loaded, Stored, StoreTypeOK
    <3>2. ahead' = rest /\ flush_at' = 0
          BY <1>3, <2>3 DEF FlushRelayH
    <3>3. /\ ahead = <<>> => Has(pending_on)
          /\ ahead # <<>> => ahead[Len(ahead)] = pending_on
          /\ IF flush_at = 0 THEN Has(flush_on) ELSE ahead[flush_at] = flush_on
          BY <2>1 DEF HistoryInv
    <3>4. ahead = <<>> <=> Len(ahead) = 0
          BY <1>l, EmptySeq
    <3> HIDE DEF rest
    <3>5. IF ahead' = <<>> THEN Has(pending_on)' ELSE ahead'[Len(ahead')] = pending_on'
      <4>1. CASE flush_at < Len(ahead)
            BY <1>l, <2>1, <2>2, <3>2, <3>3, <3>4, <4>1
      <4>2. CASE flush_at = Len(ahead)
        <5>1. flush_on = pending_on
              BY <1>l, <1>t, <3>3, <3>4, <4>2 DEF Has, StoreTypeOK
        <5>2. QED
              BY <2>1, <2>2, <3>1, <3>2, <4>2, <5>1
      <4>3. QED
            BY <1>l, <4>1, <4>2
    <3>6. QED
          BY <1>i, <2>1, <2>2, <3>2, <3>5 DEF HistoryInv
  <2>4. CASE nvs_relay' # Stored(flush_on)
    <3>1. UNCHANGED <<ahead, flush_at, nvs_relay>>
          BY <1>3, <2>4 DEF FlushRelayH, FlushRelay, CommitFails
    <3>2. QED
          BY <1>i, <1>l, <2>1, <3>1 DEF HistoryInv, Has, LoadOk, Loaded
  <2>5. QED
        BY <2>3, <2>4
<1>4. CASE StorePowerLossH
      BY <1>4, <1>i DEF StorePowerLossH, StorePowerLoss, HistoryInv
<1>5. CASE (SaveStop \/ SaveStart \/ TimerFires) /\ UNCHANGED <<ahead, flush_at>>
      BY <1>5, <1>i DEF SaveStop, SaveStart, TimerFires, StoreInv, HistoryInv, Has, LoadOk, Loaded
<1>6. CASE FlushSchema /\ UNCHANGED <<ahead, flush_at>>
      BY <1>6, <1>i DEF FlushSchema, CommitFails, HistoryInv, Has, LoadOk, Loaded
<1>7. CASE UNCHANGED historyVars
      BY <1>7, <1>i DEF historyVars, storeVars, HistoryInv, Has, LoadOk, Loaded
<1>8. QED
      BY <1>1, <1>2, <1>3, <1>4, <1>5, <1>6, <1>7 DEF HistoryNext

(* The invariant of the store with its history always holds. *)
THEOREM HistoryInvariant == HistorySpec => []HistoryInv
BY HistoryStarts, HistoryStep, PTL DEF HistorySpec


(***************************************************************************)
(* The store implements the durable register, whatever calls fail and      *)
(* wherever power is lost: a boot finds nothing or a value that was handed *)
(* to save(), and never one older than an earlier boot could have found    *)
(* (NvsBinaryStateStore::load, save, commit).  Which of its steps moves    *)
(* the register is a matter of the invariant, not of the names of the      *)
(* steps: only the write of the relay key does, as the schema key is there *)
(* before any relay key.                                                   *)
(***************************************************************************)
THEOREM StoreIsDurableRegister == HistorySpec => RegisterSpec
<1> DEFINE found == IF LoadOk THEN {Loaded} ELSE {}
<1>1. HistoryInit => Register!Init
      BY DEF HistoryInit, Init, LoadOk, Register!Init
<1>2. HistoryInv /\ [HistoryNext]_historyVars => [Register!Next]_<<found, ahead>>
  <2> SUFFICES ASSUME HistoryInv, [HistoryNext]_historyVars
               PROVE  Register!Next \/ (found' = found /\ ahead' = ahead)
      BY Zenon
  <2>l. /\ ahead \in Seq(BOOLEAN) /\ Len(ahead) \in Nat /\ flush_at \in 0..Len(ahead)
        /\ StoreInv /\ StoreTypeOK
        BY DEF HistoryInv, StoreInv
  <2>1. ASSUME NEW on \in BOOLEAN, SaveBeginH(on)
        PROVE  Register!Next \/ (found' = found /\ ahead' = ahead)
    <3>1. found' = found
          BY <2>1 DEF SaveBeginH, SaveBegin, LoadOk, Loaded
    <3>2. ahead' = ahead \/ ahead' = Append(ahead, on)
          BY <2>1 DEF SaveBeginH
    <3>3. QED
          BY <3>1, <3>2 DEF Register!Next, Register!HandOver
  <2>2. CASE FlushRelayH
    <3>1. CASE nvs_relay' = Stored(flush_on)
      <4>1. /\ nvs_schema /\ flush_pc = "relay" /\ UNCHANGED nvs_schema
            BY <2>2, <2>l DEF FlushRelayH, FlushRelay, StoreInv
      <4>2. found' = {flush_on}
            BY <2>l, <3>1, <4>1 DEF LoadOk, Loaded, Stored, StoreTypeOK
      <4>3. ahead' = SubSeq(ahead, flush_at + 1, Len(ahead))
            BY <2>2, <3>1 DEF FlushRelayH
      <4>4. IF flush_at = 0 THEN Has(flush_on) ELSE ahead[flush_at] = flush_on
            BY <4>1 DEF HistoryInv
      <4>5. CASE flush_at = 0
        <5>1. ahead' = ahead
              BY <2>l, <4>3, <4>5, RestIs, Zenon
        <5>2. found = {flush_on}
              BY <4>4, <4>5 DEF Has
        <5>3. QED
              BY <4>2, <5>1, <5>2, Zenon
      <4>6. CASE flush_at # 0
        <5>1. flush_at \in 1..Len(ahead)
              BY <2>l, <4>6
        <5>2. found' = {ahead[flush_at]}
              BY <4>2, <4>4, <4>6
        <5> HIDE DEF found
        <5>3. Register!Next
              BY <4>3, <5>1, <5>2, Zenon DEF Register!Next, Register!Persist, found
        <5>4. QED
              BY <5>3
      <4>7. QED
            BY <4>5, <4>6
    <3>2. CASE nvs_relay' # Stored(flush_on)
      <4>1. UNCHANGED <<ahead, nvs_relay, nvs_schema>>
            BY <2>2, <3>2 DEF FlushRelayH, FlushRelay, CommitFails
      <4>2. QED
            BY <4>1 DEF LoadOk, Loaded
    <3>3. QED
          BY <3>1, <3>2
  <2>3. CASE StorePowerLossH
    <3>1. found' = found /\ ahead' = <<>>
          BY <2>3 DEF StorePowerLossH, StorePowerLoss, LoadOk, Loaded
    <3>2. QED
          BY <3>1 DEF Register!Next, Register!Crash
  <2>4. CASE FlushSchema /\ UNCHANGED <<ahead, flush_at>>
    <3>1. nvs_relay # "absent" => nvs_schema
          BY DEF HistoryInv
    <3>2. UNCHANGED nvs_relay /\ nvs_schema' \in {nvs_schema, TRUE}
          BY <2>4 DEF FlushSchema
    <3>3. found' = found
          BY <2>l, <3>1, <3>2 DEF LoadOk, Loaded, StoreTypeOK
    <3>4. QED
          BY <2>4, <3>3
  <2>5. CASE FlushLoadH \/ ((SaveStop \/ SaveStart \/ TimerFires) /\ UNCHANGED <<ahead, flush_at>>)
    <3>1. UNCHANGED <<ahead, nvs_schema, nvs_relay>>
          BY <2>5 DEF FlushLoadH, FlushLoad, SaveStop, SaveStart, TimerFires
    <3>2. QED
          BY <3>1 DEF LoadOk, Loaded
  <2>6. CASE UNCHANGED historyVars
        BY <2>6 DEF historyVars, storeVars, LoadOk, Loaded
  <2>7. QED
        BY <2>1, <2>2, <2>3, <2>4, <2>5, <2>6 DEF HistoryNext
<1>3. QED
      BY <1>1, <1>2, HistoryInvariant, PTL
      DEF HistorySpec, RegisterSpec, Register!Spec, Register!registerVars

=============================================================================
