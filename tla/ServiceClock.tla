---------------------------- MODULE ServiceClock ----------------------------
(***************************************************************************)
(* The time of the polled services.  Each poll is given now_ms, a uint32   *)
(* that wraps; a service subtracts two readings modulo the width, or casts *)
(* the difference to int32 to ask whether an instant has come.             *)
(***************************************************************************)
EXTENDS Integers

CONSTANTS
  TimeModulus,  \* 2^32 milliseconds
  PollGaps      \* what may pass between two polls

ASSUME ClockAssumption ==
  /\ TimeModulus \in Nat \ {0} /\ TimeModulus % 2 = 0
  /\ PollGaps \subseteq 0..TimeModulus-1

VARIABLE now    \* the now_ms of the last call

(* uint32 addition and subtraction. *)
After(t, d)   == (t + d) % TimeModulus
Elapsed(t, s) == (t - s) % TimeModulus

(* static_cast<std::int32_t>(t - at) >= 0 *)
Due(t, at) == Elapsed(t, at) < TimeModulus \div 2

Pass(d) == now' = After(now, d)

(* A history of elapsed time, up to a limit. *)
Aged(age, d, limit) == IF age + d > limit THEN limit ELSE age + d

=============================================================================
