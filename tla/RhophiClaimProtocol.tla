------------------------- MODULE RhophiClaimProtocol -------------------------
(***************************************************************************)
(* RhophiClaimProtocol: the claim window, the nonce on offer, the cache of *)
(* answered challenges and the claimed flag.  A protocol object is a       *)
(* record and every method an operator from the object before the call to  *)
(* the object after it.                                                    *)
(*                                                                         *)
(* The code keeps the time expires_ms_ at which the window ends and looks  *)
(* at the sign of now_ms - expires_ms_, an int32.  The record keeps that   *)
(* difference modulo TimeModulus; it advances with the clock.              *)
(*                                                                         *)
(* Of a nonce only this matters: whether it is all zeros, drawn and not    *)
(* used in a proof yet, or used.  Two draws are never equal.               *)
(*                                                                         *)
(* The legacy lockout is gone: initialize() zeroes the three counters and  *)
(* no method sets them again, so is_locked is always false.                *)
(***************************************************************************)
EXTENDS Naturals, Sequences

CONSTANTS
  Challenges,         \* the challenges clients may write
  kReplayCacheSize,   \* challenges the cache remembers
  Duration,           \* kClaimWindowDurationMs, in ticks
  TimeModulus         \* 2^32 in the code

ASSUME ProtocolAssumption ==
  /\ kReplayCacheSize \in Nat \ {0}
  /\ Duration \in Nat \ {0}
  /\ TimeModulus \in Nat
  /\ 2 * Duration < TimeModulus

Nonces == {"zero", "fresh", "used"}

Protocols == [active : BOOLEAN, over : 0..TimeModulus - 1, nonce : Nonces,
              replay : Seq(Challenges), claimed : BOOLEAN,
              flags : [commissionable : BOOLEAN, claimed : BOOLEAN]]

(* refresh_flags: what a client reads in the identity. *)
refresh_flags(p) ==
  [p EXCEPT !.flags = [commissionable |-> p.active, claimed |-> p.claimed]]

(* The object after initialize() with the stored claimed flag. *)
Initialized(claimed) ==
  refresh_flags([active |-> FALSE, over |-> 0, nonce |-> "zero", replay |-> <<>>,
                 claimed |-> claimed,
                 flags |-> [commissionable |-> FALSE, claimed |-> FALSE]])

(* close(), clear_transient() and so cancel(). *)
close(p) ==
  refresh_flags([p EXCEPT !.active = FALSE, !.over = 0, !.nonce = "zero", !.replay = <<>>])

(* open_window, once a nonce could be drawn. *)
open_window(p) ==
  refresh_flags([p EXCEPT !.active = TRUE, !.over = TimeModulus - Duration,
                          !.nonce = "fresh", !.replay = <<>>])

(* Mutant of Expired: the last tick still counts. *)
ExpiredLate(p) == 0 < p.over /\ p.over < TimeModulus \div 2

(* (int32)(now_ms - expires_ms_) >= 0. *)
Expired(p) == p.over < TimeModulus \div 2

(* is_active: expiry is only noticed here.  The result is the active field. *)
is_active(p) == IF p.active /\ Expired(p) THEN close(p) ELSE refresh_flags(p)

challenge_seen(p, challenge) == \E i \in 1..Len(p.replay) : p.replay[i] = challenge

(* remember_challenge: the oldest entry is overwritten when all are taken. *)
remember_challenge(p, challenge) ==
  [p EXCEPT !.replay = Append(IF Len(@) = kReplayCacheSize THEN Tail(@) ELSE @, challenge)]

(* respond() gets as far as the HMAC; p has been through is_active. *)
MayAnswer(p, challenge) == p.active /\ ~challenge_seen(p, challenge)

(* Mutant of Answered: the nonce is not rotated. *)
AnsweredSameNonce(p, challenge) ==
  refresh_flags(remember_challenge([p EXCEPT !.nonce = "used"], challenge))

(* A successful respond(): the nonce it used is replaced by a new one. *)
Answered(p, challenge) ==
  refresh_flags(remember_challenge([p EXCEPT !.nonce = "fresh"], challenge))

mark_commissioned(p) == close([p EXCEPT !.claimed = TRUE])

(* Mutant of factory_reset: the flags are only refreshed by close(). *)
factory_reset_stale_flags(p) == [close(p) EXCEPT !.claimed = FALSE]

factory_reset(p) == refresh_flags([close(p) EXCEPT !.claimed = FALSE])

(* A tick of the clock. *)
Later(p) == IF p.active THEN [p EXCEPT !.over = (@ + 1) % TimeModulus] ELSE p

=============================================================================
