------------------------- MODULE ProvisioningService -------------------------
(***************************************************************************)
(* Provisioning: credentials arrive through a portal, are validated and    *)
(* stored in the configuration.  Portal and validator are external and may *)
(* fail; the configuration is what ConfigService promises: values in RAM   *)
(* that commit() writes, all or nothing, and that the commit() of another  *)
(* client writes too.                                                      *)
(***************************************************************************)
EXTENDS ServiceClock

CONSTANTS
  Credentials, Wiped,     \* network credentials; all zero
  NoRecord,               \* the configuration has none
  kCredentialsSize,       \* sizeof(NetworkCredentials)
  kConfigValueCapacity,   \* the longest value of the configuration
  kPortalTimeout,         \* timeout_ms
  MaxFailures             \* the attempts that lead to failed

ASSUME ProvisioningAssumption ==
  /\ Wiped \notin Credentials /\ NoRecord \notin Credentials \cup {Wiped}
  /\ {kCredentialsSize, kConfigValueCapacity, kPortalTimeout, MaxFailures} \subseteq Nat

VARIABLES
  prov_state,  \* state_
  opened_at,   \* opened_at_
  attempts,    \* failures_
  pending,     \* pending_
  config_ram, config_flash,   \* external: the record of the credentials
  accepted,    \* history: what the validator accepted last
  rejected,    \* history: validation failures since the last success or reset
  half_reset   \* history: a factory reset erased the record and could not commit

provVars == <<prov_state, opened_at, attempts, pending, config_ram, config_flash,
              accepted, rejected, half_reset>>

configVars  == <<config_ram, config_flash>>
historyVars == <<accepted, rejected, half_reset>>

ProvInit ==
  /\ now = 0
  /\ prov_state = "unprovisioned" /\ opened_at = 0 /\ attempts = 0 /\ pending = Wiped
  /\ config_ram = NoRecord /\ config_flash = NoRecord
  /\ accepted = Wiped /\ rejected = 0 /\ half_reset = FALSE

-----------------------------------------------------------------------------
(* start(), if the portal opens. *)
StartPortal ==
  /\ prov_state' = "portal_open" /\ opened_at' = now
  /\ UNCHANGED <<now, attempts, pending, configVars, historyVars>>

(* stop(); a portal that does not close keeps its state. *)
stop ==
  /\ pending' = Wiped
  /\ \/ prov_state' = IF prov_state = "provisioned" THEN prov_state ELSE "unprovisioned"
     \/ UNCHANGED prov_state
  /\ UNCHANGED <<opened_at, attempts, configVars, historyVars>>

StopPortal == UNCHANGED now /\ stop

TimedOut(t) == prov_state = "portal_open" /\ Elapsed(t, opened_at) >= kPortalTimeout

PollTimeout(d) == Pass(d) /\ TimedOut(now') /\ stop

(* poll() without credentials to validate; a failed take may have left some. *)
NothingTaken(d, c) ==
  /\ Pass(d) /\ ~TimedOut(now') /\ prov_state # "validating"
  /\ pending' = IF prov_state = "portal_open" THEN c ELSE pending
  /\ UNCHANGED <<prov_state, opened_at, attempts, configVars, historyVars>>

(* What poll() has to validate: credentials it takes, or took before. *)
Validating(c) ==
  \/ prov_state = "portal_open" /\ c \in Credentials
  \/ prov_state = "validating" /\ c = pending

ValidationBusy(d, c) ==
  /\ Pass(d) /\ ~TimedOut(now') /\ Validating(c)
  /\ pending' = c /\ prov_state' = "validating"
  /\ UNCHANGED <<opened_at, attempts, configVars, historyVars>>

(* Mutant of fail_attempt: the credentials stay. *)
fail_attempt_kept ==
  /\ UNCHANGED pending
  /\ attempts' = IF attempts < MaxFailures THEN attempts + 1 ELSE attempts
  /\ prov_state' = IF attempts + 1 >= MaxFailures THEN "failed" ELSE "portal_open"
  /\ UNCHANGED opened_at

(* failures_ is a uint8; beyond MaxFailures its value makes no difference  *)
(* before it wraps.                                                        *)
fail_attempt ==
  /\ pending' = Wiped
  /\ attempts' = IF attempts < MaxFailures THEN attempts + 1 ELSE attempts
  /\ prov_state' = IF attempts + 1 >= MaxFailures THEN "failed" ELSE "portal_open"
  /\ UNCHANGED opened_at

ValidationFails(d, c) ==
  /\ Pass(d) /\ ~TimedOut(now') /\ Validating(c)
  /\ fail_attempt
  /\ rejected' = Aged(rejected, 1, MaxFailures)
  /\ UNCHANGED <<configVars, accepted, half_reset>>

(* The validator accepts: set_blob, then commit(), each of which may fail; *)
(* a commit that failed may have written everything.                       *)
NotStored(d, c) ==
  /\ Pass(d) /\ ~TimedOut(now') /\ Validating(c)
  /\ fail_attempt
  /\ accepted' = c
  /\ \/ UNCHANGED configVars
     \/ /\ kCredentialsSize <= kConfigValueCapacity
        /\ config_ram' = c /\ config_flash' \in {config_flash, c}
  /\ UNCHANGED <<rejected, half_reset>>

(* Mutant of Stored: what commit() returned is not looked at. *)
StoredUncommitted(d, c) ==
  /\ Pass(d) /\ ~TimedOut(now') /\ Validating(c)
  /\ kCredentialsSize <= kConfigValueCapacity
  /\ config_ram' = c /\ config_flash' \in {config_flash, c}
  /\ pending' = Wiped /\ prov_state' = "provisioned" /\ attempts' = 0
  /\ accepted' = c /\ rejected' = 0 /\ half_reset' = FALSE
  /\ UNCHANGED opened_at

Stored(d, c) ==
  /\ Pass(d) /\ ~TimedOut(now') /\ Validating(c)
  /\ kCredentialsSize <= kConfigValueCapacity
  /\ config_ram' = c /\ config_flash' = c
  /\ pending' = Wiped /\ prov_state' = "provisioned" /\ attempts' = 0
  /\ accepted' = c /\ rejected' = 0 /\ half_reset' = FALSE
  /\ UNCHANGED opened_at

(* factory_reset(): the record is erased and committed. *)
FactoryResetOk ==
  /\ config_ram' = NoRecord /\ config_flash' = NoRecord
  /\ pending' = Wiped /\ prov_state' = "unprovisioned" /\ attempts' = 0
  /\ rejected' = 0 /\ half_reset' = FALSE
  /\ UNCHANGED <<now, opened_at, accepted>>

FactoryResetFails ==
  /\ config_ram' = NoRecord /\ config_flash' \in {config_flash, NoRecord}
  /\ half_reset' = TRUE
  /\ UNCHANGED <<now, prov_state, opened_at, attempts, pending, accepted, rejected>>

(* External: another client of the configuration commits. *)
OtherCommit ==
  /\ config_flash' = config_ram
  /\ UNCHANGED <<now, prov_state, opened_at, attempts, pending, config_ram, historyVars>>

ProvNext ==
  \/ StartPortal \/ StopPortal \/ FactoryResetOk \/ FactoryResetFails \/ OtherCommit
  \/ \E d \in PollGaps : PollTimeout(d)
  \/ \E d \in PollGaps, c \in Credentials \cup {Wiped} :
       NothingTaken(d, c) \/ ValidationBusy(d, c) \/ ValidationFails(d, c) \/ NotStored(d, c) \/ Stored(d, c)

ProvSpec == ProvInit /\ [][ProvNext]_<<now, provVars>>

-----------------------------------------------------------------------------
(***************************************************************************)
(* The credentials are wiped on every way out: they are in RAM only while  *)
(* the portal is open or they are being validated.                         *)
(***************************************************************************)
CredentialsAreWiped == pending # Wiped => prov_state \in {"portal_open", "validating"}

(***************************************************************************)
(* A provisioned device has the credentials that were validated last in    *)
(* flash, whatever failed on the way and whoever else committed.  Excused  *)
(* is a factory reset that could not commit, after which the state is      *)
(* still provisioned and the next commit of anyone erases the record.      *)
(***************************************************************************)
ProvisionedIsStored ==
  prov_state = "provisioned" /\ ~half_reset => config_flash = accepted /\ config_ram = accepted

(***************************************************************************)
(* provisioning/README.md: three validation failures enter failed state.   *)
(* The credentials are longer than any value of the configuration, so that *)
(* set_blob refuses them, and credentials that are right lead there too.   *)
(***************************************************************************)
FailedMeansInvalid == prov_state = "failed" => rejected >= MaxFailures

=============================================================================
