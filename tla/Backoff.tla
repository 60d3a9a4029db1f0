------------------------------- MODULE Backoff -------------------------------
(* The retry policy: an attempt number that selects a delay. *)
EXTENDS Integers, Sequences

CONSTANTS
  kDelays,      \* kDelaysMs, 30 to 300 seconds
  MaxAttempts   \* max_attempts_

ASSUME BackoffAssumption ==
  kDelays \in Seq(Nat \ {0}) /\ kDelays # <<>> /\ MaxAttempts \in Nat

Attempts == 0..MaxAttempts

(* What next_delay_ms returns, and the attempt it leaves. *)
next_delay(attempt)   == kDelays[IF attempt < Len(kDelays) THEN attempt + 1 ELSE Len(kDelays)]
next_attempt(attempt) == IF attempt < MaxAttempts THEN attempt + 1 ELSE attempt

exhausted(attempt) == attempt >= MaxAttempts

=============================================================================
