-------------------------- MODULE IndicationService --------------------------
(***************************************************************************)
(* The indication service: every source may request a frame, for a while   *)
(* or until it clears it; the request of the highest source is shown.      *)
(* Frames are told apart by value only.                                    *)
(***************************************************************************)
EXTENDS ServiceClock

CONSTANTS
  kIndicationSourceCount,
  Frames, Dark,     \* Dark: the default frame
  Durations,        \* of a request, in time units; 0: until it is cleared
  NotApplied        \* has_applied_ = false

ASSUME IndicationAssumption ==
  /\ kIndicationSourceCount \in Nat /\ Dark \notin Frames
  /\ Durations \subseteq 0..(TimeModulus \div 2 - 1)

IndicationSources == 0..kIndicationSourceCount-1

VARIABLES
  requests,  \* requests_
  applied,   \* applied_ and has_applied_
  lasting,   \* history: for how long each request should still be shown
  shown      \* history: poll() has succeeded since the last call

indicationVars == <<requests, applied, lasting, shown>>

NoRequest == [active |-> FALSE, frame |-> Dark, expires_at |-> 0]
Forever   == TimeModulus

IndicationInit ==
  /\ now = 0
  /\ requests = [i \in IndicationSources |-> NoRequest] /\ applied = NotApplied
  /\ lasting = [i \in IndicationSources |-> 0] /\ shown = FALSE

-----------------------------------------------------------------------------
Request(i, frame, duration) ==
  /\ requests' = [requests EXCEPT ![i] =
       [active |-> TRUE, frame |-> frame,
        expires_at |-> IF duration = 0 THEN 0 ELSE After(now, duration)]]
  /\ lasting' = [lasting EXCEPT ![i] = IF requests'[i].expires_at = 0 THEN Forever ELSE duration]
  /\ shown' = FALSE
  /\ UNCHANGED <<now, applied>>

Clear(i) ==
  /\ requests' = [requests EXCEPT ![i].active = FALSE]
  /\ lasting' = [lasting EXCEPT ![i] = 0]
  /\ shown' = FALSE
  /\ UNCHANGED <<now, applied>>

Expired(r, t) == r.active /\ r.expires_at # 0 /\ Due(t, r.expires_at)

(* Mutant of TopFrame: the first active request wins. *)
BottomFrame(rs, active) ==
  IF active = {} THEN Dark ELSE rs[CHOOSE i \in active : \A j \in active : i <= j].frame

(* The frame of the last active request. *)
TopFrame(rs, active) ==
  IF active = {} THEN Dark ELSE rs[CHOOSE i \in active : \A j \in active : j <= i].frame

(* poll(); a frame that apply() refused is tried again in the next one. *)
PollIndication(d) ==
  /\ Pass(d)
  /\ requests' = [i \in IndicationSources |->
       [requests[i] EXCEPT !.active = @ /\ ~Expired(requests[i], now')]]
  /\ lasting' = [i \in IndicationSources |->
       IF lasting[i] = Forever THEN Forever ELSE IF lasting[i] <= d THEN 0 ELSE lasting[i] - d]
  /\ LET frame == TopFrame(requests', { i \in IndicationSources : requests'[i].active }) IN
       \/ applied' = frame /\ shown' = TRUE
       \/ applied # frame /\ UNCHANGED applied /\ shown' = FALSE

IndicationNext ==
  \/ \E i \in IndicationSources :
       Clear(i) \/ \E frame \in Frames, duration \in Durations : Request(i, frame, duration)
  \/ \E d \in PollGaps : PollIndication(d)

IndicationSpec == IndicationInit /\ [][IndicationNext]_<<now, indicationVars>>

-----------------------------------------------------------------------------
(***************************************************************************)
(* After a poll that succeeded the indicator shows the frame of the        *)
(* highest source whose request was neither cleared nor has lasted for its *)
(* duration, and is dark without one, whatever apply() failed before and   *)
(* wherever the clock wrapped.  A request whose expiry falls on instant 0  *)
(* of the clock counts as one without: the code cannot tell them apart.    *)
(***************************************************************************)
TopRequestIsShown ==
  shown => applied = IF \E i \in IndicationSources : lasting[i] > 0
                     THEN requests[CHOOSE i \in IndicationSources :
                            lasting[i] > 0 /\ \A j \in IndicationSources : lasting[j] > 0 => j <= i].frame
                     ELSE Dark

=============================================================================
