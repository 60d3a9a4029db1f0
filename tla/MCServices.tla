----------------------------- MODULE MCServices -----------------------------
(***************************************************************************)
(* Model checking of the middleware's services and codecs.  They share no  *)
(* state, so that an interleaving of two of them reaches nothing new:      *)
(* every behaviour runs one, chosen at the start.                          *)
(***************************************************************************)
EXTENDS ConfigService, NetworkManager, TimeSyncService, HealthMonitor, IndicationService,
        OtaService, SecurityPolicy, ProvisioningService, EventBus, EnvironmentMonitor,
        Messaging, JsonCodec, FrameCodec, TLC

VARIABLE service   \* the service that runs

Services == {"config", "network", "time", "health", "indication", "ota", "policy",
             "provisioning", "bus", "monitor", "messaging", "json", "frame"}

ServicesInit ==
  /\ service \in Services
  /\ Init /\ NetInit /\ TimeInit /\ HealthInit /\ IndicationInit /\ OtaInit
  /\ PolicyInit /\ ProvInit /\ BusInit /\ MonitorInit
  /\ MessagingInit /\ JsonInit /\ FrameInit

(* The services that were not chosen, and the clock of those without one. *)
Resting(name, state) == IF service = name THEN TRUE ELSE UNCHANGED state

OthersRest ==
  /\ UNCHANGED service
  /\ Resting("config", vars) /\ Resting("network", netVars) /\ Resting("time", timeVars)
  /\ Resting("health", healthVars) /\ Resting("indication", indicationVars)
  /\ Resting("ota", otaVars) /\ Resting("policy", policyVars)
  /\ Resting("provisioning", provVars) /\ Resting("bus", busVars)
  /\ Resting("monitor", monitorVars) /\ Resting("messaging", messagingVars)
  /\ Resting("json", jsonVars) /\ Resting("frame", frameVars)

Untimed == UNCHANGED now

(* Bound: telemetry is published while the cache knows one command at most. *)
FewCommands == next_seq > 0 => Cardinality({ cache[i].id : i \in CacheLines } \ {Blank}) <= 1

ServicesNext ==
  \/ service = "config" /\ Next /\ Untimed /\ OthersRest
  \/ service = "network" /\ NetNext /\ OthersRest
  \/ service = "time" /\ TimeNext /\ OthersRest
  \/ service = "health" /\ HealthNext /\ OthersRest
  \/ service = "indication" /\ IndicationNext /\ OthersRest
  \/ service = "ota" /\ OtaNext /\ Untimed /\ OthersRest
  \/ service = "policy" /\ PolicyNext /\ Untimed /\ OthersRest
  \/ service = "provisioning" /\ ProvNext /\ OthersRest
  \/ service = "bus" /\ BusNext /\ Untimed /\ OthersRest
  \/ service = "monitor" /\ MonitorNext /\ OthersRest
  \/ service = "messaging" /\ MessagingNext /\ FewCommands' /\ Untimed /\ OthersRest
  \/ service = "json" /\ JsonNext /\ Untimed /\ OthersRest
  \/ service = "frame" /\ FrameNext /\ Untimed /\ OthersRest

servicesVars == <<service, now, vars, netVars, timeVars, healthVars, indicationVars, otaVars,
                  policyVars, provVars, busVars, monitorVars,
                  messagingVars, jsonVars, frameVars>>

ServicesSpec == ServicesInit /\ [][ServicesNext]_servicesVars

-----------------------------------------------------------------------------
(* Every storage call may fail and power may go at any step. *)
AllFailures == {"read", "erase", "write", "power"}

(* Two delays, the second for every later attempt, below half the clock's range. *)
TwoDelays == <<1, 2>>

(* Every source has the same deadline. *)
SameDeadline == [s \in Sources |-> 2]

(* Images of two and of three blocks; a size that is wrong; no signature. *)
SmallManifests ==
  LET block == CHOOSE b \in Blocks : TRUE
      other == CHOOSE b \in Blocks : b # block
      image == <<block, other, other>>
  IN { [size |-> 3, digest |-> image, signed |-> TRUE],
       [size |-> 3, digest |-> image, signed |-> FALSE],
       [size |-> 2, digest |-> image, signed |-> TRUE],
       [size |-> 2, digest |-> <<other, block>>, signed |-> TRUE] }

(* The identifiers of commands are alike. *)
Symmetry == Permutations(Ids)

=============================================================================
