--------------------------- MODULE TimeSyncService ---------------------------
(***************************************************************************)
(* Time synchronisation: the service asks an external time source, takes   *)
(* its answer in a later poll, and asks again when the answer was no good  *)
(* or has become old.                                                      *)
(***************************************************************************)
EXTENDS ServiceClock, Backoff

CONSTANTS
  kResync,     \* a good answer is renewed after six hours
  kStaleAfter  \* and has become stale after twenty-four

ASSUME TimeAssumption == kResync \in Nat /\ kStaleAfter \in Nat

VARIABLES
  quality,     \* quality_
  requested,   \* requested_
  sync_retry,  \* retry_at_
  last_sync,   \* last_sync_ms_
  failures,    \* backoff_
  answer,      \* external: the source's answer: "none", "good", "bad"
  synced_for   \* history: time since the last good answer was taken

timeVars == <<quality, requested, sync_retry, last_sync, failures, answer, synced_for>>

TimeInit ==
  /\ now = 0
  /\ quality = "unsynced" /\ requested = FALSE
  /\ sync_retry = 0 /\ last_sync = 0 /\ failures = 0
  /\ answer = "none" /\ synced_for = 0

-----------------------------------------------------------------------------
(* The connection is back; the source may still answer an older request. *)
OnConnectivityUp ==
  /\ sync_retry' = now /\ requested' = FALSE
  /\ UNCHANGED <<now, quality, last_sync, failures, answer, synced_for>>

(* External: an answer arrives, also that of a request that was given up. *)
SourceAnswers ==
  /\ answer = "none"
  /\ answer' \in {"good", "bad"}
  /\ UNCHANGED <<now, quality, requested, sync_retry, last_sync, failures, synced_for>>

(* What the first half of poll() makes of an answer. *)
Taking == requested /\ answer # "none"
Synced == Taking /\ answer = "good"

BecomesStale(t) == quality = "synced" /\ Elapsed(t, last_sync) >= kStaleAfter

(* Mutant of RetryAfterAnswer: a bad answer leaves the instant of the next request. *)
RetryAfterGood(t) == IF Synced THEN After(t, kResync) ELSE sync_retry

RetryAfterAnswer(t) ==
  IF Synced THEN After(t, kResync)
  ELSE IF Taking THEN After(t, next_delay(failures)) ELSE sync_retry

(* poll(): the answer is taken, its age is looked at, a request is made if due. *)
PollTime(d) ==
  /\ Pass(d)
  /\ answer' = IF Taking THEN "none" ELSE answer
  /\ last_sync' = IF Synced THEN now' ELSE last_sync
  /\ synced_for' = IF Synced THEN 0 ELSE Aged(synced_for, d, TimeModulus)
  /\ quality' = IF Synced THEN "synced" ELSE IF BecomesStale(now') THEN "stale" ELSE quality
  /\ LET waiting == requested /\ ~Taking
         retry   == RetryAfterAnswer(now')
         failed  == IF Synced THEN 0 ELSE IF Taking THEN next_attempt(failures) ELSE failures
     IN \/ /\ waiting \/ ~Due(now', retry)
           /\ requested' = waiting /\ sync_retry' = retry /\ failures' = failed
        \/ /\ ~waiting /\ Due(now', retry)     \* request_sync: ok, or busy
           /\ requested' = TRUE /\ sync_retry' = retry /\ failures' = failed
        \/ /\ ~waiting /\ Due(now', retry)     \* request_sync fails
           /\ requested' = FALSE
           /\ sync_retry' = After(now', next_delay(failed)) /\ failures' = next_attempt(failed)

TimeNext ==
  \/ SourceAnswers \/ OnConnectivityUp
  \/ \E d \in PollGaps : PollTime(d)

TimeSpec == TimeInit /\ [][TimeNext]_<<now, timeVars>>

-----------------------------------------------------------------------------
(***************************************************************************)
(* The time is kept, also across a wrap of now_ms and while connectivity   *)
(* comes and goes: a clock that quality() calls synced had a good answer   *)
(* within the last twenty-four hours, as of the last poll; and a step that *)
(* leaves no request out has the next one due within the renewal period,   *)
(* never so long ago that the signed comparison would take it for one to   *)
(* come.                                                                   *)
(***************************************************************************)
TimeIsKept ==
  [][/\ quality' = "synced" => synced_for' < kStaleAfter
     /\ ~requested' => Elapsed(sync_retry', now') <= kResync]_timeVars

=============================================================================
