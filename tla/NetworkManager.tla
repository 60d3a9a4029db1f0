--------------------------- MODULE NetworkManager ---------------------------
(***************************************************************************)
(* The network manager: the first link that is up carries the traffic;     *)
(* while none is, links are started again in their order, each after its   *)
(* own delay and within its own budget of attempts.  A link is external:   *)
(* it comes up and goes down by itself, and its start() may fail.          *)
(***************************************************************************)
EXTENDS ServiceClock, Backoff

CONSTANTS
  kNetworkLinkCapacity,
  NoObserver            \* observer_ is null

ASSUME NetAssumption == kNetworkLinkCapacity \in Nat

Links == 0..kNetworkLinkCapacity-1

VARIABLES
  count,     \* count_, the links added
  link_up,   \* external: state() = up
  attempt,   \* backoff_
  retry_at,  \* retry_at_
  active,    \* active_
  net_state, \* state_
  told,      \* observer_, as what it was last told
  idle,      \* history: time since the link's last start, or since boot
  gap,       \* history: the delay set at that start
  passed     \* history: polls, with every link down, since it may start again, that
             \* started another link in its place, by that link; its own: none at all

netVars == <<count, link_up, attempt, retry_at, active, net_state, told, idle, gap, passed>>

ConnectivityStates ==
  {"offline", "connecting", "online_primary", "online_backup", "provisioning_required"}

(* No link has been passed over for any. *)
NonePassed == [i \in Links |-> [j \in Links |-> 0]]

MaxGap   == kDelays[Len(kDelays)]
MaxIdle  == MaxGap + TimeModulus \div 2

NetInit ==
  /\ now = 0
  /\ count = 0
  /\ link_up = [i \in Links |-> FALSE]
  /\ attempt = [i \in Links |-> 0] /\ retry_at = [i \in Links |-> 0]
  /\ active = kNetworkLinkCapacity
  /\ net_state = "provisioning_required" /\ told = NoObserver
  /\ idle = [i \in Links |-> 0] /\ gap = [i \in Links |-> 0]
  /\ passed = NonePassed

Added == 0..count-1
Up    == { i \in Added : link_up[i] }

-----------------------------------------------------------------------------
AddLink ==
  /\ count < kNetworkLinkCapacity
  /\ count' = count + 1
  /\ net_state' = IF net_state = "provisioning_required" THEN "offline" ELSE net_state
  /\ UNCHANGED <<now, link_up, attempt, retry_at, active, told, idle, gap, passed>>

SetObserver ==
  /\ told' \in {NoObserver, "nothing"}
  /\ UNCHANGED <<now, count, link_up, attempt, retry_at, active, net_state, idle, gap, passed>>

(* External: a link comes up or goes down. *)
LinkChanges(i) ==
  /\ i \in Added
  /\ link_up' = [link_up EXCEPT ![i] = ~@]
  /\ UNCHANGED <<now, count, attempt, retry_at, active, net_state, told, idle, gap, passed>>

(* A new state is announced, with a link to describe it. *)
publish(state, i) ==
  /\ net_state' = state
  /\ told' = IF net_state # state /\ told # NoObserver /\ i < count THEN state ELSE told

(* poll() with a link up. *)
PollOnline(d) ==
  /\ Pass(d) /\ Up # {}
  /\ LET i == CHOOSE i \in Up : \A j \in Up : i <= j IN
       /\ active' = i
       /\ attempt' = [attempt EXCEPT ![i] = 0]
       /\ publish(IF i = 0 THEN "online_primary" ELSE "online_backup", i)
  /\ idle' = [i \in Links |-> Aged(idle[i], d, MaxIdle)]
  /\ passed' = NonePassed
  /\ UNCHANGED <<count, link_up, retry_at, gap>>

MayStart(i, t) == i \in Added /\ ~exhausted(attempt[i]) /\ Due(t, retry_at[i])

(* Mutant of Started: a link that may not start ends the loop. *)
StartedBreak(t) ==
  LET due == { i \in Links : \A j \in 0..i : MayStart(j, t) } IN
    IF due = {} THEN {{}} ELSE { { i \in due : i <= last } : last \in due }

(* The links started in one poll: in order, up to one that begins. *)
Started(t) ==
  LET due == { i \in Links : MayStart(i, t) } IN
    IF due = {} THEN {{}} ELSE { { i \in due : i <= last } : last \in due }

(* History: a poll passes over a link that may start, for those it starts. *)
PassedOver(i, started, d) ==
  i \in Added \ started /\ ~exhausted(attempt[i]) /\ idle[i] + d >= gap[i]

For(i, started) == IF started = {} THEN {i} ELSE started

(* poll() with every link down. *)
PollOffline(d) ==
  /\ Pass(d) /\ Up = {}
  /\ active' = kNetworkLinkCapacity
  /\ \E started \in Started(now') :
       /\ retry_at' = [i \in Links |-> IF i \in started THEN After(now', next_delay(attempt[i]))
                                       ELSE retry_at[i]]
       /\ attempt' = [i \in Links |-> IF i \in started THEN next_attempt(attempt[i]) ELSE attempt[i]]
       /\ publish(IF started # {} THEN "connecting" ELSE "offline", 0)
       /\ idle' = [i \in Links |-> IF i \in started THEN 0 ELSE Aged(idle[i], d, MaxIdle)]
       /\ gap' = [i \in Links |-> IF i \in started THEN next_delay(attempt[i]) ELSE gap[i]]
       /\ passed' = [i \in Links |-> [j \in Links |->
            IF ~PassedOver(i, started, d) THEN 0
            ELSE IF j \in For(i, started) THEN Aged(passed[i][j], 1, MaxAttempts + 1)
            ELSE passed[i][j]]]
  /\ UNCHANGED <<count, link_up>>

NetNext ==
  \/ AddLink \/ SetObserver
  \/ \E i \in Links : LinkChanges(i)
  \/ \E d \in PollGaps : PollOnline(d) \/ PollOffline(d)

NetSpec == NetInit /\ [][NetNext]_<<now, netVars>>

-----------------------------------------------------------------------------
(***************************************************************************)
(* While no link is up, a link whose delay is over and whose budget is not *)
(* spent is passed over only for a link before it, and at most as often as *)
(* that link has attempts.  Excused is a link last started half the range  *)
(* of the clock ago: see RetriedInTime.                                    *)
(***************************************************************************)
NoLinkStarves ==
  \A i, j \in Links :
    idle[i] < gap[i] + TimeModulus \div 2 => passed[i][j] <= IF j < i THEN MaxAttempts ELSE 0

(***************************************************************************)
(* The retry cadence of network_manager/README.md: a link that was started *)
(* before, is down and has attempts left is started again when its delay   *)
(* is over.  The code keeps retry_at_ from before the connection: once the *)
(* link was up for half the range of the clock, the signed difference is   *)
(* negative and the retry waits for the clock to come round.               *)
(***************************************************************************)
RetriedInTime == \A i, j \in Links : gap[i] > 0 => passed[i][j] <= MaxAttempts

=============================================================================
