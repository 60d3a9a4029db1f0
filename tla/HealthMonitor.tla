---------------------------- MODULE HealthMonitor ----------------------------
(***************************************************************************)
(* The health monitor feeds the watchdog while every mandatory source has  *)
(* checked in within its deadline, and asks for a reboot otherwise.  The   *)
(* watchdog is external: without food it resets the chip, which restarts   *)
(* the clock and forgets the members.                                      *)
(*                                                                         *)
(* add_source leaves a last_checkin of 0, the time of the boot: sources    *)
(* are added at the start, before time passes.                             *)
(***************************************************************************)
EXTENDS ServiceClock, FiniteSets

CONSTANTS
  Sources,              \* the sources the product adds
  Deadline,             \* the deadline of each
  Mandatory,            \* those that are mandatory
  kHealthSourceCapacity,
  kRebootInterval,      \* between two reboot requests, 600 seconds
  WatchdogTimeout       \* external: a watchdog not fed for longer resets

ASSUME HealthAssumption ==
  /\ Deadline \in [Sources -> Nat] /\ Mandatory \subseteq Sources
  /\ kRebootInterval \in Nat /\ WatchdogTimeout \in Nat

VARIABLES
  sources,       \* sources_, those added
  last_checkin,  \* their last_checkin
  last_reboot,   \* last_reboot_request_
  unfed,         \* external: time since the watchdog was fed
  silence,       \* history: time since a source was added or checked in
  unasked,       \* history: time since the last reboot request, across resets
  spacing        \* history: time between the last two reboot requests

healthVars == <<sources, last_checkin, last_reboot, unfed, silence, unasked, spacing>>

HealthInit ==
  /\ now = 0 /\ sources = {}
  /\ last_checkin = [s \in Sources |-> 0] /\ last_reboot = 0
  /\ unfed = 0 /\ silence = [s \in Sources |-> 0]
  /\ unasked = kRebootInterval /\ spacing = kRebootInterval

-----------------------------------------------------------------------------
AddSource(s) ==
  /\ now = 0 /\ s \notin sources
  /\ Cardinality(sources) < kHealthSourceCapacity
  /\ sources' = sources \cup {s}
  /\ UNCHANGED <<now, last_checkin, last_reboot, unfed, silence, unasked, spacing>>

CheckIn(s) ==
  /\ s \in sources
  /\ last_checkin' = [last_checkin EXCEPT ![s] = now]
  /\ silence' = [silence EXCEPT ![s] = 0]
  /\ UNCHANGED <<now, sources, last_reboot, unfed, unasked, spacing>>

(* Mutant of IsDead: any source that checked in will do. *)
AllDead(t) == \A s \in sources \cap Mandatory : Elapsed(t, last_checkin[s]) > Deadline[s]

IsDead(t) == \E s \in sources \cap Mandatory : Elapsed(t, last_checkin[s]) > Deadline[s]

(* Mutant of MayReboot: a monitor that has not asked yet may ask at once. *)
MayRebootFirst(t) == last_reboot = 0 \/ Elapsed(t, last_reboot) >= kRebootInterval

MayReboot(t) == Elapsed(t, last_reboot) >= kRebootInterval

(* Time passes up to a poll; the watchdog lets no more of it pass. *)
Ages(d) ==
  /\ Pass(d)
  /\ unfed + d <= WatchdogTimeout
  /\ silence' = [s \in Sources |-> IF s \in sources THEN Aged(silence[s], d, TimeModulus) ELSE 0]
  /\ UNCHANGED <<sources, last_checkin>>

(* poll() with every mandatory source alive; feed() may fail. *)
PollAlive(d) ==
  /\ Ages(d) /\ ~IsDead(now')
  /\ unfed' \in {0, unfed + d}
  /\ unasked' = Aged(unasked, d, kRebootInterval)
  /\ UNCHANGED <<last_reboot, spacing>>

(* poll() with one that is not: a reboot is asked for, or was lately. *)
PollDead(d) ==
  /\ Ages(d) /\ IsDead(now')
  /\ unfed' = unfed + d
  /\ IF MayReboot(now')
     THEN /\ last_reboot' = now'
          /\ spacing' = Aged(unasked, d, kRebootInterval) /\ unasked' = 0
     ELSE /\ unasked' = Aged(unasked, d, kRebootInterval)
          /\ UNCHANGED <<last_reboot, spacing>>

(* External: the watchdog, the reboot asked for, or a loss of power. *)
Reset ==
  /\ now' = 0 /\ sources' = {}
  /\ last_checkin' = [s \in Sources |-> 0] /\ last_reboot' = 0
  /\ unfed' = 0 /\ silence' = [s \in Sources |-> 0]
  /\ UNCHANGED <<unasked, spacing>>

HealthNext ==
  \/ Reset
  \/ \E s \in Sources : AddSource(s) \/ CheckIn(s)
  \/ \E d \in PollGaps : PollAlive(d) \/ PollDead(d)

HealthSpec == HealthInit /\ [][HealthNext]_<<now, healthVars>>

-----------------------------------------------------------------------------
(***************************************************************************)
(* When the watchdog has just been fed, every mandatory source has really  *)
(* checked in within its deadline: a silent one is not taken for alive     *)
(* when the clock wraps, for the watchdog resets the chip before that.     *)
(***************************************************************************)
FedOnlyIfAlive ==
  unfed = 0 => \A s \in sources \cap Mandatory : silence[s] <= Deadline[s]

(***************************************************************************)
(* Two reboot requests are at least kRebootInterval apart, also when the   *)
(* chip was reset in between and the monitor has forgotten the first one.  *)
(***************************************************************************)
RebootsAreSpaced == spacing >= kRebootInterval

=============================================================================
