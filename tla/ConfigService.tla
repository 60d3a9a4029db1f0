---------------------------- MODULE ConfigService ----------------------------
(***************************************************************************)
(* The configuration service: records in RAM, and two slots of flash that  *)
(* commit() writes in turn.  A slot carries a sequence number and a CRC;   *)
(* initialize() takes the newer of the slots it can read.                  *)
(*                                                                         *)
(* The service has one caller, so the hard part is not concurrency but     *)
(* what storage calls that fail and a loss of power between the erase and  *)
(* the write leave in the slots.                                           *)
(*                                                                         *)
(* The records are a function of the keys.  A bad key or a value that is   *)
(* too long is refused without a change and is left out.  A full set of    *)
(* records fits in a slot, so that write_slot never lacks room.  The       *)
(* sequence number is a uint32; the flash wears out long before it wraps.  *)
(***************************************************************************)
EXTENDS Naturals, FiniteSets

CONSTANTS
  Keys,                    \* configuration keys
  Values,                  \* the values that fit in a record
  Unused,                  \* what records has at a key without a record
  kConfigRecordCapacity,   \* records in RAM and in a slot
  MaxSequence,             \* bound: commits before the sequence number wraps
  Failures                 \* the storage calls that may fail, and "power"

ASSUME ConfigAssumption ==
  /\ Unused \notin Values
  /\ kConfigRecordCapacity \in Nat
  /\ MaxSequence \in Nat
  /\ Failures \subseteq STRING

Slots   == {0, 1}
Records == [Keys -> Values \cup {Unused}]
Empty   == [k \in Keys |-> Unused]

VARIABLES
  pc,           \* "off"; "ready"; "write": in commit(), the slot erased
  records,      \* records_
  sequence,     \* sequence_
  active_slot,  \* active_slot_
  flash,        \* the two slots; valid: the CRC and the header are right
  committed,    \* history: what was loaded, or committed with success since
  attempted,    \* history: committed, or what a later commit() began to write
  rolled_back   \* history: initialize() passed over a newer slot it could not read

vars == <<pc, records, sequence, active_slot, flash, committed, attempted, rolled_back>>

SlotStates == [valid : BOOLEAN, sequence : Nat, records : Records]
BadSlot    == [valid |-> FALSE, sequence |-> 0, records |-> Empty]

(* Factory-new flash. *)
Init ==
  /\ pc = "off"
  /\ records = Empty /\ sequence = 0 /\ active_slot = 0
  /\ flash = [s \in Slots |-> BadSlot]
  /\ committed = Empty /\ attempted = Empty /\ rolled_back = FALSE

-----------------------------------------------------------------------------
(* Mutant of Selected: the second slot, if it is valid. *)
SelectedSecond(ok) == IF 1 \notin ok THEN 0 ELSE 1

(* The slot initialize() takes of those it could read and found valid. *)
Selected(ok) ==
  IF 1 \notin ok \/ (0 \in ok /\ flash[0].sequence >= flash[1].sequence) THEN 0 ELSE 1

Valid == { s \in Slots : flash[s].valid }

(* What an initialize() without a read error would find. *)
Durable == IF Valid = {} THEN Empty ELSE flash[Selected(Valid)].records

(***************************************************************************)
(* initialize(), with the slots it can read.  Nothing valid in two         *)
(* readable slots is an empty configuration; nothing valid and a read      *)
(* error is reported and changes nothing.                                  *)
(***************************************************************************)
InitializeEmpty ==
  /\ pc = "off" /\ Valid = {}
  /\ pc' = "ready"
  /\ records' = Empty /\ sequence' = 0 /\ active_slot' = 0
  /\ committed' = Empty /\ attempted' = Empty /\ rolled_back' = FALSE
  /\ UNCHANGED flash

InitializeFrom(readable) ==
  /\ pc = "off" /\ readable \cap Valid # {}
  /\ readable = Slots \/ "read" \in Failures
  /\ LET s == Selected(readable \cap Valid) IN
       /\ pc' = "ready"
       /\ active_slot' = s
       /\ sequence' = flash[s].sequence
       /\ records' = flash[s].records
       /\ committed' = flash[s].records /\ attempted' = flash[s].records
       /\ rolled_back' = (s # Selected(Valid))
  /\ UNCHANGED flash

(* set_blob, and set_u32 and set_bool, which use it. *)
SetBlob(key, value) ==
  /\ pc = "ready"
  /\ \/ records[key] # Unused
     \/ Cardinality({ k \in Keys : records[k] # Unused }) < kConfigRecordCapacity
  /\ records' = [records EXCEPT ![key] = value]
  /\ UNCHANGED <<pc, sequence, active_slot, flash, committed, attempted, rolled_back>>

Erase(key) ==
  /\ pc = "ready"
  /\ records[key] # Unused
  /\ records' = [records EXCEPT ![key] = Unused]
  /\ UNCHANGED <<pc, sequence, active_slot, flash, committed, attempted, rolled_back>>

(* Mutant of Target: the slot in use is overwritten. *)
TargetActive == active_slot

(* The slot commit() writes. *)
Target == 1 - active_slot

(* commit() up to the erase; one that failed may have destroyed the slot. *)
CommitErase ==
  /\ pc = "ready"
  /\ sequence < MaxSequence
  /\ \/ /\ flash' = [flash EXCEPT ![Target] = BadSlot]
        /\ attempted' = records
        /\ pc' = "write"
     \/ /\ "erase" \in Failures
        /\ flash' \in {flash, [flash EXCEPT ![Target] = BadSlot]}
        /\ UNCHANGED <<pc, attempted>>
  /\ UNCHANGED <<records, sequence, active_slot, committed, rolled_back>>

Written ==
  [flash EXCEPT ![Target] = [valid |-> TRUE, sequence |-> sequence + 1, records |-> records]]

(* The write; one that failed may have left nothing, or everything. *)
CommitWrite ==
  /\ pc = "write"
  /\ pc' = "ready"
  /\ \/ /\ flash' = Written
        /\ active_slot' = Target
        /\ sequence' = sequence + 1
        /\ committed' = records
        /\ rolled_back' = FALSE
     \/ /\ "write" \in Failures
        /\ flash' \in {flash, Written}
        /\ UNCHANGED <<active_slot, sequence, committed, rolled_back>>
  /\ UNCHANGED <<records, attempted>>

(* A reset, in a write with part or all of the slot written. *)
PowerLoss ==
  /\ "power" \in Failures
  /\ pc' = "off"
  /\ records' = Empty /\ sequence' = 0 /\ active_slot' = 0
  /\ IF pc = "write" THEN flash' \in {flash, Written} ELSE UNCHANGED flash
  /\ UNCHANGED <<committed, attempted, rolled_back>>

Next ==
  \/ InitializeEmpty
  \/ \E readable \in SUBSET Slots : InitializeFrom(readable)
  \/ \E key \in Keys : Erase(key) \/ \E value \in Values : SetBlob(key, value)
  \/ CommitErase \/ CommitWrite
  \/ PowerLoss

Spec == Init /\ [][Next]_vars

-----------------------------------------------------------------------------
(* The state is well formed. *)
ConfigTypeOK ==
  /\ pc \in {"off", "ready", "write"}
  /\ records \in Records
  /\ sequence \in Nat /\ active_slot \in Slots
  /\ flash \in [Slots -> SlotStates]
  /\ committed \in Records /\ attempted \in Records
  /\ rolled_back \in BOOLEAN

(***************************************************************************)
(* commit() is atomic: whatever storage call fails and wherever power is   *)
(* lost, the next boot finds either the configuration of the last commit   *)
(* that succeeded or all of the one that was being written since, never a  *)
(* mixture, an older one or none; after a success the two are the same.    *)
(* Excused is a service that runs on an older slot because it could not    *)
(* read the newer one.                                                     *)
(***************************************************************************)
CommitIsAtomic == ~rolled_back => Durable \in {committed, attempted}

=============================================================================
