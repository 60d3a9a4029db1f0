----------------------------- MODULE ButtonInput -----------------------------
(***************************************************************************)
(* libraries::ButtonInput: debouncing of one push button and the meaning   *)
(* of a press by how long it was held.  An object is a record; update() is *)
(* the pair of operators Updated (the object after the call) and EventOf   *)
(* (what the call returns).                                                *)
(*                                                                         *)
(* The code keeps the times of the last raw change and of the start of the *)
(* press and only ever uses their distance from now_ms, in uint32          *)
(* arithmetic.  The record keeps the two distances, which advance with the *)
(* clock modulo TimeModulus.  A distance the code does not read until it   *)
(* has been set again does not advance.                                    *)
(***************************************************************************)
EXTENDS Naturals

CONSTANTS
  debounce_ms, short_press_max_ms, commissioning_press_min_ms,
  factory_reset_press_min_ms,   \* ButtonInputConfig
  TimeModulus                   \* 2^32 in the code

(* The order of the thresholds SwitchRuntime configures: 25, 1000, 3000, 10000. *)
ASSUME ButtonAssumption ==
  /\ debounce_ms \in Nat \ {0}
  /\ short_press_max_ms \in Nat /\ commissioning_press_min_ms \in Nat
  /\ factory_reset_press_min_ms \in Nat /\ TimeModulus \in Nat
  /\ debounce_ms < commissioning_press_min_ms
  /\ short_press_max_ms < commissioning_press_min_ms
  /\ commissioning_press_min_ms < factory_reset_press_min_ms
  /\ factory_reset_press_min_ms < TimeModulus

ButtonEvents == {"none", "press_started", "short_press", "commissioning_press",
                 "factory_reset_press"}

ButtonStates == [raw_last : BOOLEAN, debouncing : BOOLEAN, stable_pressed : BOOLEAN,
                 since_change : 0..TimeModulus - 1, since_press : 0..TimeModulus - 1]

NewButton == [raw_last |-> FALSE, debouncing |-> FALSE, stable_pressed |-> FALSE,
              since_change |-> 0, since_press |-> 0]

(* The raw level has been the same for the debounce time. *)
DebounceOver(b, raw) ==
  raw = b.raw_last /\ b.debouncing /\ b.since_change >= debounce_ms

(* Mutant of Updated: the start of a press is not noted. *)
UpdatedKeepsPress(b, raw) ==
  IF raw # b.raw_last
    THEN [b EXCEPT !.raw_last = raw, !.debouncing = TRUE, !.since_change = 0]
  ELSE IF ~DebounceOver(b, raw) THEN b
  ELSE [b EXCEPT !.debouncing = FALSE, !.stable_pressed = raw]

Updated(b, raw) ==
  IF raw # b.raw_last
    THEN [b EXCEPT !.raw_last = raw, !.debouncing = TRUE, !.since_change = 0]
  ELSE IF ~DebounceOver(b, raw) THEN b
  ELSE [b EXCEPT !.debouncing = FALSE,
                 !.stable_pressed = raw,
                 !.since_press = IF raw /\ ~b.stable_pressed THEN 0 ELSE @]

(* A release by the time held; between the two gestures nothing is meant. *)
Classify(held_ms) ==
  IF held_ms >= factory_reset_press_min_ms THEN "factory_reset_press"
  ELSE IF held_ms >= commissioning_press_min_ms THEN "commissioning_press"
  ELSE IF held_ms <= short_press_max_ms THEN "short_press"
  ELSE "none"

EventOf(b, raw) ==
  IF ~DebounceOver(b, raw) \/ b.stable_pressed = raw THEN "none"
  ELSE IF raw THEN "press_started"
  ELSE Classify(b.since_press)

(* Mutant of is_active: the debounce time alone keeps nobody awake. *)
is_active_pressed(b) == b.stable_pressed

is_active(b) == b.debouncing \/ b.stable_pressed

(* One millisecond passes. *)
Aged(b) ==
  [b EXCEPT !.since_change = IF b.debouncing THEN (@ + 1) % TimeModulus ELSE @,
            !.since_press = IF b.stable_pressed THEN (@ + 1) % TimeModulus ELSE @]

=============================================================================
