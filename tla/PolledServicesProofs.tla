------------------------ MODULE PolledServicesProofs ------------------------
(***************************************************************************)
(* Proofs about the services that are polled with a millisecond clock that *)
(* wraps: the health monitor, the environment monitor, the indication      *)
(* service, time synchronisation and the network manager.  Each invariant  *)
(* ties an instant the service stored to the time that really passed.      *)
(***************************************************************************)
EXTENDS HealthMonitor, EnvironmentMonitor, IndicationService, TimeSyncService,
        NetworkManager, TLAPS

Instants == 0..TimeModulus-1

-----------------------------------------------------------------------------
(* Modular arithmetic, apart from everything else. *)
LEMMA Remainder ==
  ASSUME NEW m \in Nat \ {0}, NEW x \in -m..2*m-1
  PROVE  x % m = IF x < 0 THEN x + m ELSE IF x < m THEN x ELSE x - m
OBVIOUS

LEMMA ClockFacts ==
  /\ TimeModulus \in Nat \ {0} /\ TimeModulus > 0 /\ 0 \in Instants
  /\ \A d \in PollGaps : d \in Instants /\ d \in Nat /\ d < TimeModulus
BY ClockAssumption DEF Instants

(* Reading the clock: the instant after a delay, and the time between two. *)
LEMMA AfterIs ==
  ASSUME NEW t \in Instants, NEW d \in Instants
  PROVE  /\ After(t, d) \in Instants
         /\ After(t, d) = IF t + d < TimeModulus THEN t + d ELSE t + d - TimeModulus
<1>1. t + d \in Nat /\ t + d < 2 * TimeModulus
      BY ClockFacts DEF Instants
<1>2. After(t, d) = IF t + d < TimeModulus THEN t + d ELSE t + d - TimeModulus
  <2>1. ASSUME NEW m \in Nat \ {0}, NEW x \in 0..m-1, NEW y \in 0..m-1
        PROVE  (x + y) % m = IF x + y < m THEN x + y ELSE x + y - m
        OBVIOUS
  <2>2. QED
        BY <2>1, ClockFacts DEF After, Instants
<1>3. QED
      BY <1>1, <1>2, ClockFacts DEF Instants

LEMMA ElapsedIs ==
  ASSUME NEW t \in Instants, NEW s \in Instants
  PROVE  /\ Elapsed(t, s) \in Instants
         /\ Elapsed(t, s) = IF t < s THEN t - s + TimeModulus ELSE t - s
<1>1. t - s \in -TimeModulus..2*TimeModulus-1 /\ t \in Int /\ s \in Int
      BY ClockFacts DEF Instants
<1>2. Elapsed(t, s) = IF t < s THEN t - s + TimeModulus ELSE t - s
      BY <1>1, ClockFacts, Remainder DEF Elapsed, Instants
<1>3. QED
      BY <1>1, <1>2, ClockFacts DEF Instants

(* A delay d later, an instant of the past is d further away, or has come   *)
(* round.                                                                   *)
LEMMA PastRecedes ==
  ASSUME NEW t \in Instants, NEW s \in Instants, NEW d \in Instants
  PROVE  Elapsed(After(t, d), s) =
           IF Elapsed(t, s) + d < TimeModulus THEN Elapsed(t, s) + d
           ELSE Elapsed(t, s) + d - TimeModulus
<1>1. After(t, d) \in Instants
      BY AfterIs
<1>2. After(t, d) = IF t + d < TimeModulus THEN t + d ELSE t + d - TimeModulus
      BY AfterIs
<1>3. Elapsed(t, s) = IF t < s THEN t - s + TimeModulus ELSE t - s
      BY ElapsedIs
<1>4. Elapsed(After(t, d), s) = IF After(t, d) < s THEN After(t, d) - s + TimeModulus
                                ELSE After(t, d) - s
      BY <1>1, ElapsedIs
<1>5. QED
      BY <1>1, <1>2, <1>3, <1>4, ClockFacts DEF Instants

(* A delay d later, an instant to come is d nearer, or past. *)
LEMMA FutureNears ==
  ASSUME NEW t \in Instants, NEW s \in Instants, NEW d \in Instants
  PROVE  /\ d <= Elapsed(s, t) => Elapsed(s, After(t, d)) = Elapsed(s, t) - d
         /\ d >= Elapsed(s, t) => Elapsed(After(t, d), s) = d - Elapsed(s, t)
         /\ d < Elapsed(s, t) => Elapsed(After(t, d), s) = TimeModulus - (Elapsed(s, t) - d)
<1>1. After(t, d) \in Instants
      BY AfterIs
<1>2. After(t, d) = IF t + d < TimeModulus THEN t + d ELSE t + d - TimeModulus
      BY AfterIs
<1>3. Elapsed(s, t) = IF s < t THEN s - t + TimeModulus ELSE s - t
      BY ElapsedIs
<1>4. /\ Elapsed(After(t, d), s) = IF After(t, d) < s THEN After(t, d) - s + TimeModulus
                                   ELSE After(t, d) - s
      /\ Elapsed(s, After(t, d)) = IF s < After(t, d) THEN s - After(t, d) + TimeModulus
                                   ELSE s - After(t, d)
      BY <1>1, ElapsedIs
<1>5. QED
      BY <1>1, <1>2, <1>3, <1>4, ClockFacts DEF Instants

(* The instant after a delay is that delay away. *)
LEMMA DelayAway ==
  ASSUME NEW t \in Instants, NEW d \in Instants
  PROVE  Elapsed(After(t, d), t) = d /\ Elapsed(t, t) = 0
<1>1. After(t, d) \in Instants
      BY AfterIs
<1>2. After(t, d) = IF t + d < TimeModulus THEN t + d ELSE t + d - TimeModulus
      BY AfterIs
<1>3. Elapsed(After(t, d), t) = IF After(t, d) < t THEN After(t, d) - t + TimeModulus
                                ELSE After(t, d) - t
      BY <1>1, ElapsedIs
<1>4. Elapsed(t, t) = IF t < t THEN t - t + TimeModulus ELSE t - t
      BY ElapsedIs
<1>5. QED
      BY <1>1, <1>2, <1>3, <1>4, ClockFacts DEF Instants

-----------------------------------------------------------------------------
(***************************************************************************)
(* The health monitor.  What poll computes from the wrapping clock is the  *)
(* real silence of a mandatory source, because that cannot reach the       *)
(* clock's range: it is at most the deadline at the last feeding, and the  *)
(* watchdog bounds the time since then.  And what poll takes for the time  *)
(* since the last request is never more than what really passed.           *)
(***************************************************************************)
HealthTypeOK ==
  /\ now \in Instants /\ sources \subseteq Sources
  /\ last_checkin \in [Sources -> Instants] /\ last_reboot \in Instants
  /\ unfed \in 0..WatchdogTimeout
  /\ silence \in [Sources -> 0..TimeModulus]
  /\ unasked \in 0..kRebootInterval /\ spacing \in 0..kRebootInterval

SilenceIsReal ==
  \A s \in Sources \cap Mandatory :
    IF s \in sources
    THEN /\ silence[s] = Elapsed(now, last_checkin[s])
         /\ silence[s] <= Deadline[s] + unfed
    ELSE silence[s] = 0 /\ last_checkin[s] = 0

RequestIsOlder ==
  \/ unasked = kRebootInterval
  \/ Elapsed(now, last_reboot) <= unasked

RebootInv == HealthTypeOK /\ RequestIsOlder /\ RebootsAreSpaced

(* The watchdog resets before the clock can hide a missed deadline. *)
WatchdogBeatsWrap == \A s \in Mandatory : Deadline[s] + WatchdogTimeout < TimeModulus

LEMMA HealthInitInv == HealthInit => RebootInv /\ SilenceIsReal
<1> SUFFICES ASSUME HealthInit PROVE RebootInv /\ SilenceIsReal
    OBVIOUS
<1>1. HealthTypeOK
      BY ClockFacts, HealthAssumption DEF HealthInit, HealthTypeOK, Instants
<1>2. QED
      BY <1>1, HealthAssumption
      DEF HealthInit, RebootInv, SilenceIsReal, RequestIsOlder, RebootsAreSpaced

(* Time passes up to a poll. *)
LEMMA AgesFacts ==
  ASSUME HealthTypeOK, NEW d \in PollGaps, Ages(d)
  PROVE  /\ now' = After(now, d) /\ now' \in Instants
         /\ silence' \in [Sources -> 0..TimeModulus]
         /\ Elapsed(now', last_reboot) <= Elapsed(now, last_reboot) + d
         /\ Elapsed(now, last_reboot) \in Nat /\ Elapsed(now', last_reboot) \in Nat
         /\ Elapsed(now', now') = 0
<1>t. /\ now \in Instants /\ last_reboot \in Instants /\ d \in Instants /\ d \in Nat
      /\ silence \in [Sources -> 0..TimeModulus]
      BY ClockFacts DEF HealthTypeOK
<1>1. now' = After(now, d) /\ now' \in Instants
      BY <1>t, AfterIs DEF Ages, Pass
<1>2. silence' = [s \in Sources |->
                    IF s \in sources THEN Aged(silence[s], d, TimeModulus) ELSE 0]
      BY DEF Ages
<1>3. silence' \in [Sources -> 0..TimeModulus]
      BY <1>t, <1>2, ClockFacts DEF Aged
<1>4. Elapsed(now, last_reboot) \in Nat /\ Elapsed(now', last_reboot) \in Nat
      BY <1>t, <1>1, ElapsedIs DEF Instants
<1>5. Elapsed(After(now, d), last_reboot) <= Elapsed(now, last_reboot) + d
      BY <1>t, <1>4, PastRecedes, ClockFacts
<1>6. Elapsed(now', now') = 0
      BY <1>1, DelayAway, ClockFacts
<1>7. QED
      BY <1>1, <1>3, <1>4, <1>5, <1>6

LEMMA RebootStep == RebootInv /\ [HealthNext]_<<now, healthVars>> => RebootInv'
<1> SUFFICES ASSUME RebootInv, [HealthNext]_<<now, healthVars>> PROVE RebootInv'
    OBVIOUS
<1>t. /\ now \in Instants /\ last_reboot \in Instants
      /\ unfed \in Nat /\ WatchdogTimeout \in Nat /\ sources \subseteq Sources
      /\ last_checkin \in [Sources -> Instants] /\ silence \in [Sources -> 0..TimeModulus]
      /\ unasked \in 0..kRebootInterval /\ spacing \in 0..kRebootInterval
      /\ kRebootInterval \in Nat
      BY ClockFacts, HealthAssumption DEF RebootInv, HealthTypeOK
<1>1. ASSUME NEW s \in Sources, AddSource(s) PROVE RebootInv'
      BY <1>1 DEF AddSource, RebootInv, HealthTypeOK, RequestIsOlder, RebootsAreSpaced
<1>2. ASSUME NEW s \in Sources, CheckIn(s) PROVE RebootInv'
  <2>1. HealthTypeOK'
        BY <1>2, <1>t, ClockFacts DEF CheckIn, RebootInv, HealthTypeOK
  <2>2. QED
        BY <1>2, <2>1 DEF CheckIn, RebootInv, RequestIsOlder, RebootsAreSpaced
<1>3. CASE Reset
  <2>1. HealthTypeOK'
        BY <1>3, <1>t, ClockFacts DEF Reset, HealthTypeOK
  <2>2. Elapsed(0, 0) = 0
        BY DelayAway, ClockFacts
  <2>3. RequestIsOlder'
        BY <1>3, <1>t, <2>2 DEF Reset, RequestIsOlder
  <2>4. QED
        BY <1>3, <2>1, <2>3 DEF Reset, RebootInv, RebootsAreSpaced
<1>4. ASSUME NEW d \in PollGaps, PollAlive(d) \/ PollDead(d) PROVE RebootInv'
  <2>1. /\ now' \in Instants /\ silence' \in [Sources -> 0..TimeModulus]
        /\ sources' = sources /\ last_checkin' = last_checkin
        /\ Elapsed(now', last_reboot) <= Elapsed(now, last_reboot) + d
        /\ Elapsed(now, last_reboot) \in Nat /\ Elapsed(now', last_reboot) \in Nat
        /\ Elapsed(now', now') = 0 /\ d \in Nat
        BY <1>4, AgesFacts, ClockFacts DEF RebootInv, PollAlive, PollDead, Ages
  <2>2. unfed' \in 0..WatchdogTimeout
    <3>1. unfed' \in {0, unfed + d} /\ unfed + d <= WatchdogTimeout
          BY <1>4 DEF PollAlive, PollDead, Ages
    <3>2. QED
          BY <3>1, <2>1, <1>t
  <2>3. CASE UNCHANGED <<last_reboot, spacing>> /\ unasked' = Aged(unasked, d, kRebootInterval)
    <3>1. Aged(unasked, d, kRebootInterval) \in 0..kRebootInterval
          BY <1>t, <2>1 DEF Aged
    <3>2. \/ Aged(unasked, d, kRebootInterval) = kRebootInterval
          \/ Elapsed(now', last_reboot) <= Aged(unasked, d, kRebootInterval)
          BY <1>t, <2>1 DEF Aged, RebootInv, RequestIsOlder
    <3>3. RequestIsOlder'
          BY <2>3, <3>2 DEF RequestIsOlder
    <3>4. QED
          BY <1>t, <2>1, <2>2, <2>3, <3>1, <3>3 DEF RebootInv, HealthTypeOK, RebootsAreSpaced
  <2>4. CASE /\ MayReboot(now') /\ last_reboot' = now'
             /\ spacing' = Aged(unasked, d, kRebootInterval) /\ unasked' = 0
    <3>1. Aged(unasked, d, kRebootInterval) = kRebootInterval
          BY <1>t, <2>1, <2>4 DEF Aged, RebootInv, RequestIsOlder, MayReboot
    <3>2. RequestIsOlder' /\ RebootsAreSpaced'
          BY <1>t, <2>1, <2>4, <3>1 DEF RequestIsOlder, RebootsAreSpaced
    <3>3. QED
          BY <1>t, <2>1, <2>2, <2>4, <3>1, <3>2 DEF RebootInv, HealthTypeOK
  <2>5. QED
        BY <1>4, <2>3, <2>4 DEF PollAlive, PollDead
<1>5. CASE UNCHANGED <<now, healthVars>>
      BY <1>5 DEF healthVars, RebootInv, HealthTypeOK, RequestIsOlder, RebootsAreSpaced
<1>6. QED
      BY <1>1, <1>2, <1>3, <1>4, <1>5 DEF HealthNext

THEOREM RebootInvariant == HealthSpec => []RebootInv
<1>1. HealthInit => RebootInv
      BY HealthInitInv
<1>2. QED
      BY <1>1, RebootStep, PTL DEF HealthSpec

(***************************************************************************)
(* Two reboot requests are at least kRebootInterval apart, also across     *)
(* wraps of the clock and resets that make the monitor forget the first.   *)
(***************************************************************************)
THEOREM HealthRebootsAreSpaced == HealthSpec => []RebootsAreSpaced
<1>1. RebootInv => RebootsAreSpaced
      BY DEF RebootInv
<1>2. QED
      BY <1>1, RebootInvariant, PTL

(* Until the watchdog resets, the silence of a mandatory source does not    *)
(* reach the range of the clock.                                            *)
LEMMA SilenceGrows ==
  ASSUME WatchdogBeatsWrap, HealthTypeOK, SilenceIsReal,
         NEW d \in PollGaps, Ages(d), NEW s \in sources \cap Mandatory
  PROVE  /\ silence'[s] = Elapsed(now', last_checkin[s]) /\ silence'[s] = silence[s] + d
         /\ silence[s] <= Deadline[s] + unfed
         /\ silence[s] \in Nat /\ Deadline[s] \in Nat /\ unfed \in Nat /\ d \in Nat
<1>1. /\ s \in Sources /\ s \in Mandatory /\ silence[s] \in Nat
      /\ last_checkin[s] \in Instants /\ unfed \in Nat /\ now \in Instants
      /\ d \in Instants /\ d \in Nat
      BY ClockFacts DEF HealthTypeOK
<1>2. silence[s] = Elapsed(now, last_checkin[s]) /\ silence[s] <= Deadline[s] + unfed
      BY <1>1 DEF SilenceIsReal
<1>3. unfed + d <= WatchdogTimeout
      BY DEF Ages
<1>4. /\ Deadline[s] \in Nat /\ Deadline[s] + WatchdogTimeout < TimeModulus
      /\ WatchdogTimeout \in Nat
      BY <1>1, HealthAssumption DEF WatchdogBeatsWrap
<1>5. silence[s] + d < TimeModulus
      BY <1>1, <1>2, <1>3, <1>4, ClockFacts
<1>6. silence'[s] = silence[s] + d
      BY <1>1, <1>5, ClockFacts DEF Aged, Ages
<1>7. Elapsed(After(now, d), last_checkin[s]) = Elapsed(now, last_checkin[s]) + d
      BY <1>1, <1>2, <1>5, PastRecedes
<1>8. QED
      BY <1>1, <1>2, <1>4, <1>6, <1>7, AgesFacts

LEMMA SilenceStep ==
  ASSUME WatchdogBeatsWrap, HealthTypeOK, SilenceIsReal, [HealthNext]_<<now, healthVars>>
  PROVE  SilenceIsReal'
<1>t. /\ now \in Instants /\ unfed \in Nat /\ sources \subseteq Sources
      /\ last_checkin \in [Sources -> Instants] /\ silence \in [Sources -> 0..TimeModulus]
      /\ Deadline \in [Sources -> Nat]
      BY HealthAssumption DEF HealthTypeOK
<1>1. ASSUME NEW s \in Sources, AddSource(s) PROVE SilenceIsReal'
  <2>1. Elapsed(now, 0) = 0
        BY <1>1, <1>t, DelayAway, ClockFacts DEF AddSource
  <2>2. QED
        BY <1>1, <1>t, <2>1 DEF AddSource, SilenceIsReal
<1>2. ASSUME NEW s \in Sources, CheckIn(s) PROVE SilenceIsReal'
  <2>1. Elapsed(now, now) = 0
        BY <1>t, DelayAway, ClockFacts
  <2>2. QED
        BY <1>2, <1>t, <2>1 DEF CheckIn, SilenceIsReal
<1>3. CASE Reset
      BY <1>3 DEF Reset, SilenceIsReal
<1>4. ASSUME NEW d \in PollGaps, PollAlive(d) \/ PollDead(d) PROVE SilenceIsReal'
  <2>1. /\ Ages(d) /\ sources' = sources /\ last_checkin' = last_checkin
        /\ unfed' = unfed + d \/ (unfed' = 0 /\ ~IsDead(now'))
        BY <1>4 DEF PollAlive, PollDead, Ages
  <2>2. \A s \in Sources \ sources : silence'[s] = 0
        BY <2>1 DEF Ages
  <2>3. ASSUME NEW s \in sources \cap Mandatory
        PROVE  /\ silence'[s] = Elapsed(now', last_checkin'[s])
               /\ silence'[s] <= Deadline[s] + unfed'
    <3>1. /\ silence'[s] = Elapsed(now', last_checkin[s]) /\ silence'[s] = silence[s] + d
          /\ silence[s] <= Deadline[s] + unfed
          /\ silence[s] \in Nat /\ Deadline[s] \in Nat /\ unfed \in Nat /\ d \in Nat
          BY <2>1, SilenceGrows
    <3>2. CASE unfed' = unfed + d
          BY <2>1, <3>1, <3>2
    <3>3. CASE unfed' = 0 /\ ~IsDead(now')
      <4>1. ~(silence[s] + d > Deadline[s])
            BY <3>1, <3>3 DEF IsDead
      <4>2. QED
            BY <2>1, <3>1, <3>3, <4>1
    <3>4. QED
          BY <2>1, <3>2, <3>3
  <2>4. QED
        BY <1>t, <2>1, <2>2, <2>3 DEF SilenceIsReal
<1>5. CASE UNCHANGED <<now, healthVars>>
      BY <1>5 DEF healthVars, SilenceIsReal
<1>6. QED
      BY <1>1, <1>2, <1>3, <1>4, <1>5 DEF HealthNext

(***************************************************************************)
(* HealthMonitor::poll feeds the watchdog only while every mandatory       *)
(* source has checked in within its deadline, also across wraps of the     *)
(* clock, provided that a deadline and the watchdog's timeout together are *)
(* below the clock's range.                                                *)
(***************************************************************************)
THEOREM HealthFedOnlyIfAlive ==
  ASSUME WatchdogBeatsWrap
  PROVE  HealthSpec => []FedOnlyIfAlive
<1>1. HealthInit => SilenceIsReal
      BY HealthInitInv
<1>2. RebootInv /\ SilenceIsReal /\ [HealthNext]_<<now, healthVars>> => SilenceIsReal'
      BY SilenceStep DEF RebootInv
<1>3. SilenceIsReal /\ RebootInv => FedOnlyIfAlive
  <2> SUFFICES ASSUME SilenceIsReal, RebootInv, unfed = 0, NEW s \in sources \cap Mandatory
               PROVE  silence[s] <= Deadline[s]
      BY DEF FedOnlyIfAlive
  <2>1. s \in Sources \cap Mandatory /\ Deadline[s] \in Nat
        BY HealthAssumption
  <2>2. silence[s] <= Deadline[s] + 0
        BY <2>1 DEF SilenceIsReal
  <2>3. QED
        BY <2>1, <2>2
<1>4. QED
      BY <1>1, <1>2, <1>3, RebootInvariant, PTL DEF HealthSpec

-----------------------------------------------------------------------------
(***************************************************************************)
(* The environment monitor.  Until telemetry is due the stored instant     *)
(* tells how long ago it was sent, for the loop comes round before the     *)
(* clock does.                                                             *)
(***************************************************************************)
MonitorInv ==
  /\ now \in Instants /\ last_telemetry \in Instants
  /\ telemetry_pending \in BOOLEAN
  /\ command_length \in Nat /\ line \in Nat
  /\ since_sent = IF telemetry_pending THEN 0 ELSE Elapsed(now, last_telemetry)
  /\ LoopKeepsItsLimits

(* A service that asks whether a period is over is polled before the clock  *)
(* has come round.                                                          *)
PolledWithin(period) == \A d \in PollGaps : period + d <= TimeModulus

LEMMA CliStep ==
  ASSUME MonitorInv, CliIdle \/ CliEnd \/ CliCharacter
  PROVE  /\ \E n \in Nat : command_length' = n
         /\ \E n \in Nat : line' = n
         /\ command_length' < kCommandCapacity
         /\ line' < kCommandCapacity => command_length' = line'
<1>t. /\ kCommandCapacity \in Nat /\ kCommandCapacity > 0
      /\ command_length \in Nat /\ line \in Nat
      /\ command_length < kCommandCapacity
      /\ line < kCommandCapacity => command_length = line
      BY MonitorAssumption DEF MonitorInv, LoopKeepsItsLimits
<1>1. CASE CliIdle \/ CliEnd
      BY <1>1, <1>t DEF CliIdle, CliEnd
<1>2. CASE CliCharacter
  <2>1. line' = line + 1 /\ command_length' = IF CommandTooLong THEN 0 ELSE command_length + 1
        BY <1>2 DEF CliCharacter
  <2>2. CASE CommandTooLong
        BY <1>t, <2>1, <2>2 DEF CommandTooLong
  <2>3. CASE ~CommandTooLong
        BY <1>t, <2>1, <2>3 DEF CommandTooLong
  <2>4. QED
        BY <2>2, <2>3
<1>3. QED
      BY <1>1, <1>2

LEMMA MonitorStep ==
  ASSUME PolledWithin(kTelemetryPeriod), MonitorInv, [MonitorNext]_<<now, monitorVars>>
  PROVE  MonitorInv'
<1>1. ASSUME NEW d \in PollGaps, RunOnce(d) PROVE MonitorInv'
  <2>t. /\ now \in Instants /\ last_telemetry \in Instants /\ d \in Instants /\ d \in Nat
        /\ kTelemetryPeriod \in Nat /\ kTelemetryPeriod > 0
        /\ kTelemetryPeriod + d <= TimeModulus /\ since_sent < kTelemetryPeriod
        BY ClockFacts, MonitorAssumption DEF MonitorInv, LoopKeepsItsLimits, PolledWithin
  <2>1. now' = After(now, d) /\ now' \in Instants
        BY <1>1, <2>t, AfterIs DEF RunOnce, Pass
  <2>2. /\ \E n \in Nat : command_length' = n
        /\ \E n \in Nat : line' = n
        /\ command_length' < kCommandCapacity
        /\ line' < kCommandCapacity => command_length' = line'
    <3>1. CASE is_due(now', last_cli, kCliPeriod)
          BY <1>1, <3>1, CliStep DEF RunOnce
    <3>2. CASE ~is_due(now', last_cli, kCliPeriod)
          BY <1>1, <3>2 DEF RunOnce, MonitorInv, LoopKeepsItsLimits
    <3>3. QED
          BY <3>1, <3>2
  <2>3. CASE TelemetryDue(now')
    <3>1. last_telemetry' = now' /\ telemetry_pending' = FALSE /\ since_sent' = 0
          BY <1>1, <2>3 DEF RunOnce
    <3>2. Elapsed(now', now') = 0
          BY <2>1, DelayAway, ClockFacts
    <3>3. QED
          BY <2>t, <2>1, <2>2, <3>1, <3>2 DEF MonitorInv, LoopKeepsItsLimits
  <2>4. CASE ~TelemetryDue(now')
    <3>1. /\ last_telemetry' = last_telemetry /\ telemetry_pending' = FALSE
          /\ telemetry_pending = FALSE
          /\ since_sent' = Aged(since_sent, d, TimeModulus)
          BY <1>1, <2>4 DEF RunOnce, TelemetryDue, MonitorInv
    <3>2. since_sent = Elapsed(now, last_telemetry) /\ since_sent \in Nat
          BY <2>t, <3>1, ElapsedIs DEF MonitorInv, Instants
    <3>3. since_sent + d < TimeModulus
          BY <2>t, <3>2, ClockFacts
    <3>4. Elapsed(After(now, d), last_telemetry) = since_sent + d
          BY <2>t, <3>2, <3>3, PastRecedes
    <3>5. since_sent + d < kTelemetryPeriod
          BY <2>4, <2>t, <2>1, <3>2, <3>4 DEF TelemetryDue, is_due
    <3>6. since_sent' = since_sent + d
          BY <2>t, <3>1, <3>2, <3>3, ClockFacts DEF Aged
    <3>7. QED
          BY <2>t, <2>1, <2>2, <3>1, <3>4, <3>5, <3>6 DEF MonitorInv, LoopKeepsItsLimits
  <2>5. QED
        BY <2>3, <2>4
<1>2. CASE UNCHANGED <<now, monitorVars>>
      BY <1>2 DEF monitorVars, MonitorInv, LoopKeepsItsLimits
<1>3. QED
      BY <1>1, <1>2 DEF MonitorNext

(***************************************************************************)
(* The command buffer of the environment monitor neither overflows nor     *)
(* loses a character of a line that fits, and telemetry is on time across  *)
(* wraps of the clock, if the loop comes round before the clock does.      *)
(***************************************************************************)
THEOREM MonitorKeepsItsLimits ==
  ASSUME PolledWithin(kTelemetryPeriod)
  PROVE  MonitorSpec => []LoopKeepsItsLimits
<1>1. MonitorInit => MonitorInv
      BY ClockFacts, MonitorAssumption DEF MonitorInit, MonitorInv, LoopKeepsItsLimits
<1>2. MonitorInv /\ [MonitorNext]_<<now, monitorVars>> => MonitorInv'
      BY MonitorStep
<1>3. MonitorInv => LoopKeepsItsLimits
      BY DEF MonitorInv
<1>4. QED
      BY <1>1, <1>2, <1>3, PTL DEF MonitorSpec

-----------------------------------------------------------------------------
(***************************************************************************)
(* Time synchronisation.  A clock that is called synced knows how long ago *)
(* its answer was; without a request out, the instant of the next one is   *)
(* ahead by no more than the renewal period.                               *)
(***************************************************************************)
TimeTypeOK ==
  /\ now \in Instants /\ last_sync \in Instants /\ sync_retry \in Instants
  /\ requested \in BOOLEAN /\ failures \in Nat /\ synced_for \in Nat

SyncIsRecent ==
  quality = "synced" => /\ synced_for = Elapsed(now, last_sync)
                        /\ synced_for < kStaleAfter

RetryIsAhead == ~requested => Elapsed(sync_retry, now) <= kResync

TimeInv == TimeTypeOK /\ SyncIsRecent /\ RetryIsAhead

(* What the periods of the service are to each other and to the clock: the  *)
(* service is polled before the clock has come half round, a retry comes    *)
(* before a renewal, and an answer is good for a while.                     *)
TimesFit ==
  /\ PolledWithin(kStaleAfter) /\ kStaleAfter > 0
  /\ \A d \in PollGaps : d < TimeModulus \div 2
  /\ kResync < TimeModulus
  /\ \A i \in 1..Len(kDelays) : kDelays[i] <= kResync

(* The delay after a failure is one of the table's. *)
LEMMA DelayFits ==
  ASSUME TimesFit, NEW n \in Nat
  PROVE  next_delay(n) \in Instants /\ next_delay(n) <= kResync /\ next_attempt(n) \in Nat
<1>1. Len(kDelays) \in Nat /\ Len(kDelays) > 0 /\ \A i \in 1..Len(kDelays) : kDelays[i] \in Nat
      BY BackoffAssumption
<1>2. \E i \in 1..Len(kDelays) : next_delay(n) = kDelays[i]
      BY <1>1 DEF next_delay
<1>3. next_delay(n) \in Nat /\ next_delay(n) <= kResync
      BY <1>1, <1>2 DEF TimesFit
<1>4. QED
      BY <1>3, ClockFacts, TimeAssumption DEF TimesFit, Instants, next_attempt

(* An instant that is ahead stays ahead or has come. *)
LEMMA AheadOrDue ==
  ASSUME TimesFit, NEW t \in Instants, NEW s \in Instants, NEW d \in PollGaps,
         Elapsed(s, t) <= kResync, ~Due(After(t, d), s)
  PROVE  Elapsed(s, After(t, d)) <= kResync
<1>1. /\ Elapsed(s, t) \in Nat /\ d \in Nat /\ d \in Instants /\ d < TimeModulus \div 2
      /\ kResync \in Nat
      BY ElapsedIs, ClockFacts, TimeAssumption DEF TimesFit, Instants
<1>2. CASE d >= Elapsed(s, t)
  <2>1. Elapsed(After(t, d), s) = d - Elapsed(s, t)
        BY <1>1, <1>2, FutureNears
  <2>2. ASSUME NEW h \in Int, d < h PROVE d - Elapsed(s, t) < h
        BY <1>1, <2>2
  <2>3. TimeModulus \div 2 \in Int
        BY ClockFacts
  <2>4. d - Elapsed(s, t) < TimeModulus \div 2
        BY <1>1, <2>2, <2>3
  <2>5. QED
        BY <2>1, <2>4 DEF Due
<1>3. CASE d < Elapsed(s, t)
  <2>1. Elapsed(s, After(t, d)) = Elapsed(s, t) - d
        BY <1>1, <1>3, FutureNears
  <2>2. QED
        BY <2>1, <1>1
<1>4. QED
      BY <1>1, <1>2, <1>3

LEMMA PollTimeKeepsTimeInv ==
  ASSUME TimesFit, TimeInv, NEW d \in PollGaps, PollTime(d)
  PROVE  TimeInv'
<1>t. /\ now \in Instants /\ last_sync \in Instants /\ sync_retry \in Instants
      /\ requested \in BOOLEAN /\ failures \in Nat /\ synced_for \in Nat
      /\ d \in Instants /\ d \in Nat /\ kStaleAfter \in Nat /\ kStaleAfter > 0
      /\ kStaleAfter + d <= TimeModulus /\ kResync \in Instants /\ 0 \in Nat
      BY ClockFacts, TimeAssumption DEF TimeInv, TimeTypeOK, TimesFit, PolledWithin, Instants
<1>1. now' = After(now, d) /\ After(now, d) \in Instants
      BY <1>t, AfterIs DEF PollTime, Pass
<1>2. last_sync' = (IF Synced THEN now' ELSE last_sync)
      /\ synced_for' = (IF Synced THEN 0 ELSE Aged(synced_for, d, TimeModulus))
      /\ quality' = (IF Synced THEN "synced" ELSE IF BecomesStale(now') THEN "stale" ELSE quality)
      BY DEF PollTime
<1>3. SyncIsRecent' /\ last_sync' \in Instants /\ \E n \in Nat : synced_for' = n
  <2>1. CASE Synced
    <3>1. Elapsed(now', now') = 0
          BY <1>1, DelayAway, ClockFacts
    <3>2. QED
          BY <1>t, <1>1, <1>2, <2>1, <3>1 DEF SyncIsRecent
  <2>2. CASE ~Synced
    <3>1. last_sync' = last_sync /\ \E n \in Nat : synced_for' = n
          BY <1>t, <1>2, <2>2, ClockFacts DEF Aged
    <3>2. ASSUME quality' = "synced"
          PROVE  synced_for' = Elapsed(now', last_sync') /\ synced_for' < kStaleAfter
      <4>1. quality = "synced" /\ ~(Elapsed(now', last_sync) >= kStaleAfter)
            BY <1>2, <2>2, <3>2 DEF BecomesStale
      <4>2. synced_for = Elapsed(now, last_sync) /\ synced_for < kStaleAfter
            BY <4>1 DEF TimeInv, SyncIsRecent
      <4>3. synced_for + d < TimeModulus
            BY <1>t, <4>2, ClockFacts
      <4>4. Elapsed(After(now, d), last_sync) = synced_for + d
            BY <1>t, <4>2, <4>3, PastRecedes
      <4>5. synced_for' = synced_for + d
            BY <1>t, <1>2, <2>2, <4>3, ClockFacts DEF Aged
      <4>6. synced_for + d < kStaleAfter
            BY <1>t, <1>1, <4>1, <4>4
      <4>7. QED
            BY <1>1, <3>1, <4>4, <4>5, <4>6
    <3>3. QED
          BY <1>t, <3>1, <3>2 DEF SyncIsRecent
  <2>3. QED
        BY <2>1, <2>2
<1> DEFINE waiting == requested /\ ~Taking
           retry   == RetryAfterAnswer(now')
           failed  == IF Synced THEN 0 ELSE IF Taking THEN next_attempt(failures) ELSE failures
<1>4. failed \in Nat
      BY <1>t, DelayFits
(* Without a request out and with none due, the next one is ahead. *)
<1>5. retry \in Instants /\ (~waiting /\ ~Due(now', retry) => Elapsed(retry, now') <= kResync)
  <2>1. CASE Synced
    <3>1. retry = After(now', kResync)
          BY <2>1 DEF RetryAfterAnswer
    <3>2. After(now', kResync) \in Instants /\ Elapsed(After(now', kResync), now') = kResync
          BY <1>t, <1>1, AfterIs, DelayAway
    <3>3. kResync <= kResync
          BY TimeAssumption
    <3>4. QED
          BY <3>1, <3>2, <3>3
  <2>2. CASE Taking /\ ~Synced
    <3>1. retry = After(now', next_delay(failures))
          BY <2>2 DEF RetryAfterAnswer
    <3>2. next_delay(failures) \in Instants /\ next_delay(failures) <= kResync
          BY <1>t, DelayFits
    <3>3. QED
          BY <1>t, <1>1, <3>1, <3>2, AfterIs, DelayAway
  <2>3. CASE ~Taking
    <3>1. retry = sync_retry
          BY <2>3 DEF RetryAfterAnswer, Synced
    <3>2. ASSUME ~waiting, ~Due(now', retry) PROVE Elapsed(retry, now') <= kResync
      <4>1. Elapsed(sync_retry, now) <= kResync
            BY <2>3, <3>2 DEF TimeInv, RetryIsAhead
      <4>2. QED
            BY <1>t, <1>1, <3>1, <3>2, <4>1, AheadOrDue
    <3>3. QED
          BY <1>t, <3>1, <3>2
  <2>4. QED
        BY <2>1, <2>2, <2>3 DEF Synced
<1>6. CASE /\ waiting \/ ~Due(now', retry)
           /\ requested' = waiting /\ sync_retry' = retry /\ failures' = failed
  <2>1. RetryIsAhead'
        BY <1>5, <1>6 DEF RetryIsAhead
  <2>2. QED
        BY <1>t, <1>1, <1>3, <1>4, <1>5, <1>6, <2>1 DEF TimeInv, TimeTypeOK
<1>7. CASE requested' = TRUE /\ sync_retry' = retry /\ failures' = failed
  <2>1. RetryIsAhead'
        BY <1>7 DEF RetryIsAhead
  <2>2. QED
        BY <1>t, <1>1, <1>3, <1>4, <1>5, <1>7, <2>1 DEF TimeInv, TimeTypeOK
<1>8. CASE /\ requested' = FALSE /\ sync_retry' = After(now', next_delay(failed))
           /\ failures' = next_attempt(failed)
  <2> HIDE DEF failed
  <2>1. /\ next_delay(failed) \in Instants /\ next_delay(failed) <= kResync
        /\ next_attempt(failed) \in Nat
        BY <1>4, DelayFits
  <2>2. After(now', next_delay(failed)) \in Instants
        /\ Elapsed(After(now', next_delay(failed)), now') = next_delay(failed)
        BY <1>1, <2>1, AfterIs, DelayAway
  <2>3. RetryIsAhead'
        BY <1>8, <2>1, <2>2 DEF RetryIsAhead
  <2>4. QED
        BY <1>t, <1>1, <1>3, <1>8, <2>1, <2>2, <2>3 DEF TimeInv, TimeTypeOK
<1>9. QED
      BY <1>6, <1>7, <1>8 DEF PollTime

LEMMA TimeStep ==
  ASSUME TimesFit, TimeInv, [TimeNext]_<<now, timeVars>>
  PROVE  TimeInv'
<1>1. CASE OnConnectivityUp
  <2>1. now \in Instants
        BY DEF TimeInv, TimeTypeOK
  <2>2. Elapsed(now, now) = 0
        BY <2>1, DelayAway, ClockFacts
  <2>3. RetryIsAhead'
        BY <1>1, <2>2, TimeAssumption DEF OnConnectivityUp, RetryIsAhead
  <2>4. TimeTypeOK' /\ SyncIsRecent'
        BY <1>1 DEF OnConnectivityUp, TimeInv, TimeTypeOK, SyncIsRecent
  <2>5. QED
        BY <2>3, <2>4 DEF TimeInv
<1>2. CASE SourceAnswers \/ UNCHANGED <<now, timeVars>>
      BY <1>2 DEF SourceAnswers, timeVars, TimeInv, TimeTypeOK, SyncIsRecent, RetryIsAhead
<1>3. ASSUME NEW d \in PollGaps, PollTime(d) PROVE TimeInv'
      BY <1>3, PollTimeKeepsTimeInv
<1>4. QED
      BY <1>1, <1>2, <1>3 DEF TimeNext

(***************************************************************************)
(* quality() says synced only with an answer of the last twenty-four       *)
(* hours, and a service without a request out has the next one ahead       *)
(* within the renewal period, for any periods that fit the clock.          *)
(***************************************************************************)
THEOREM TimeSyncTimeIsKept ==
  ASSUME TimesFit
  PROVE  TimeSpec => TimeIsKept
<1>1. TimeInit => TimeInv
  <2>1. Elapsed(0, 0) = 0
        BY DelayAway, ClockFacts
  <2>2. 0 <= kResync
        BY TimeAssumption
  <2>3. 0 \in Instants /\ 0 \in Nat
        BY ClockFacts
  <2>4. TimeInit => TimeTypeOK
        BY <2>3 DEF TimeInit, TimeTypeOK
  <2>5. TimeInit => SyncIsRecent
        BY DEF TimeInit, SyncIsRecent
  <2>6. TimeInit => RetryIsAhead
        BY <2>1, <2>2 DEF TimeInit, RetryIsAhead
  <2>7. QED
        BY <2>4, <2>5, <2>6 DEF TimeInv
<1>2. TimeInv /\ [TimeNext]_<<now, timeVars>> => TimeInv'
      BY TimeStep
<1>3. TimeInv' => [/\ quality' = "synced" => synced_for' < kStaleAfter
                   /\ ~requested' => Elapsed(sync_retry', now') <= kResync]_timeVars
      BY DEF TimeInv, SyncIsRecent, RetryIsAhead
<1>4. QED
      BY <1>1, <1>2, <1>3, PTL DEF TimeSpec, TimeIsKept

-----------------------------------------------------------------------------
(***************************************************************************)
(* The indication service.  A request is active exactly while it should    *)
(* still be shown, and its expiry is that far ahead.                       *)
(***************************************************************************)
IndicationTypeOK ==
  /\ now \in Instants
  /\ requests \in [IndicationSources ->
       [active : BOOLEAN, frame : Frames \cup {Dark}, expires_at : Instants]]
  /\ lasting \in [IndicationSources -> 0..Forever]
  /\ shown \in BOOLEAN

ExpiryIsAhead ==
  \A i \in IndicationSources :
    \/ lasting[i] = 0 /\ ~requests[i].active
    \/ lasting[i] = Forever /\ requests[i].active /\ requests[i].expires_at = 0
    \/ /\ lasting[i] \in 1..(TimeModulus \div 2 - 1)
       /\ requests[i].active /\ requests[i].expires_at # 0
       /\ Elapsed(requests[i].expires_at, now) = lasting[i]

IndicationInv == IndicationTypeOK /\ ExpiryIsAhead /\ TopRequestIsShown

(* The indicator is polled before the clock has come half round. *)
PolledInHalf == \A d \in PollGaps : d <= TimeModulus \div 2

LEMMA HalfFacts ==
  /\ TimeModulus \div 2 \in Nat /\ TimeModulus = 2 * (TimeModulus \div 2)
  /\ TimeModulus \div 2 > 0 /\ Forever = TimeModulus
BY ClockAssumption DEF Forever

(* The frame shown is that of the last source that has something to show.   *)
LEMMA TopOfActive ==
  ASSUME NEW rs, NEW ls,
         \A i \in IndicationSources : rs[i].active <=> ls[i] > 0
  PROVE  TopFrame(rs, { i \in IndicationSources : rs[i].active }) =
           IF \E i \in IndicationSources : ls[i] > 0
           THEN rs[CHOOSE i \in IndicationSources :
                     ls[i] > 0 /\ \A j \in IndicationSources : ls[j] > 0 => j <= i].frame
           ELSE Dark
<1> DEFINE S == { i \in IndicationSources : rs[i].active }
           T == { i \in IndicationSources : ls[i] > 0 }
<1>1. S = T
      OBVIOUS
<1>2. (CHOOSE i \in S : \A j \in S : j <= i) = (CHOOSE i \in T : \A j \in T : j <= i)
      BY <1>1
<1>3. (CHOOSE i \in T : \A j \in T : j <= i) =
      (CHOOSE i \in IndicationSources :
         ls[i] > 0 /\ \A j \in IndicationSources : ls[j] > 0 => j <= i)
  <2>1. \A i : i \in T /\ (\A j \in T : j <= i) <=>
               i \in IndicationSources /\ (ls[i] > 0 /\ \A j \in IndicationSources : ls[j] > 0 => j <= i)
        OBVIOUS
  <2>2. QED
        BY <2>1, Zenon
<1>4. CASE T = {}
  <2>1. TopFrame(rs, S) = Dark
        BY <1>1, <1>4 DEF TopFrame
  <2>2. ~\E i \in IndicationSources : ls[i] > 0
        BY <1>4
  <2>3. QED
        BY <2>1, <2>2, Zenon
<1>5. CASE T # {}
  <2>1. TopFrame(rs, S) = rs[CHOOSE i \in S : \A j \in S : j <= i].frame
    <3>1. S # {}
          BY <1>1, <1>5
    <3>2. QED
          BY <3>1, Zenon DEF TopFrame
  <2>2. \E i \in IndicationSources : ls[i] > 0
        BY <1>5
  <2>3. QED
        BY <1>2, <1>3, <2>1, <2>2, Zenon
<1>6. QED
      BY <1>4, <1>5

LEMMA PollKeepsExpiry ==
  ASSUME PolledInHalf, IndicationTypeOK, ExpiryIsAhead, NEW d \in PollGaps, PollIndication(d)
  PROVE  IndicationTypeOK' /\ ExpiryIsAhead'
<1>t. /\ now \in Instants /\ d \in Instants /\ d \in Nat /\ d <= TimeModulus \div 2
      BY ClockFacts DEF IndicationTypeOK, PolledInHalf
<1>1. now' = After(now, d) /\ now' \in Instants
      BY <1>t, AfterIs DEF PollIndication, Pass
<1>2. ASSUME NEW i \in IndicationSources
      PROVE  /\ requests'[i].active = (requests[i].active /\ ~Expired(requests[i], now'))
             /\ requests'[i].expires_at = requests[i].expires_at
             /\ requests'[i].frame = requests[i].frame
             /\ lasting'[i] = IF lasting[i] = Forever THEN Forever
                              ELSE IF lasting[i] <= d THEN 0 ELSE lasting[i] - d
             /\ requests[i].expires_at \in Instants /\ lasting[i] \in 0..Forever
  <2>1. /\ requests'[i] = [requests[i] EXCEPT !.active = @ /\ ~Expired(requests[i], now')]
        /\ lasting'[i] = IF lasting[i] = Forever THEN Forever
                         ELSE IF lasting[i] <= d THEN 0 ELSE lasting[i] - d
        BY DEF PollIndication
  <2>2. requests[i] \in [active : BOOLEAN, frame : Frames \cup {Dark}, expires_at : Instants]
        /\ lasting[i] \in 0..Forever
        BY DEF IndicationTypeOK
  <2>3. QED
        BY <2>1, <2>2
<1>3. IndicationTypeOK'
  <2>1. requests' \in [IndicationSources ->
          [active : BOOLEAN, frame : Frames \cup {Dark}, expires_at : Instants]]
        BY DEF PollIndication, IndicationTypeOK
  <2>2. lasting' \in [IndicationSources -> 0..Forever]
    <3>1. lasting' = [i \in IndicationSources |->
            IF lasting[i] = Forever THEN Forever
            ELSE IF lasting[i] <= d THEN 0 ELSE lasting[i] - d]
          BY DEF PollIndication
    <3>2. \A i \in IndicationSources :
            (IF lasting[i] = Forever THEN Forever
             ELSE IF lasting[i] <= d THEN 0 ELSE lasting[i] - d) \in 0..Forever
          BY <1>t, HalfFacts DEF IndicationTypeOK
    <3>3. QED
          BY <3>1, <3>2
  <2>3. QED
        BY <1>1, <2>1, <2>2 DEF PollIndication, IndicationTypeOK
<1>4. ExpiryIsAhead'
  <2> SUFFICES ASSUME NEW i \in IndicationSources
               PROVE  \/ lasting'[i] = 0 /\ ~requests'[i].active
                      \/ lasting'[i] = Forever /\ requests'[i].active /\ requests'[i].expires_at = 0
                      \/ /\ lasting'[i] \in 1..(TimeModulus \div 2 - 1)
                         /\ requests'[i].active /\ requests'[i].expires_at # 0
                         /\ Elapsed(requests'[i].expires_at, now') = lasting'[i]
      BY DEF ExpiryIsAhead, Forever
  <2>1. CASE lasting[i] = 0 /\ ~requests[i].active
    <3>1. ~requests'[i].active
          BY <1>2, <2>1
    <3>2. lasting'[i] = 0
          BY <1>2, <1>t, <2>1, HalfFacts
    <3>3. QED
          BY <3>1, <3>2
  <2>2. CASE lasting[i] = Forever /\ requests[i].active /\ requests[i].expires_at = 0
        BY <1>2, <2>2 DEF Expired
  <2>3. CASE /\ lasting[i] \in 1..(TimeModulus \div 2 - 1)
             /\ requests[i].active /\ requests[i].expires_at # 0
             /\ Elapsed(requests[i].expires_at, now) = lasting[i]
    <3> DEFINE e == requests[i].expires_at
    <3>1. e \in Instants /\ lasting[i] \in Nat /\ lasting[i] > 0 /\ lasting[i] < TimeModulus \div 2
          BY <1>2, <2>3, HalfFacts
    <3>e. /\ d <= lasting[i] => Elapsed(e, now') = lasting[i] - d
          /\ d >= lasting[i] => Elapsed(now', e) = d - lasting[i]
          /\ d < lasting[i] => Elapsed(now', e) = TimeModulus - (lasting[i] - d)
      <4>1. Elapsed(e, now) = lasting[i]
            BY <2>3
      <4> HIDE DEF e
      <4>2. /\ d <= Elapsed(e, now) => Elapsed(e, After(now, d)) = Elapsed(e, now) - d
            /\ d >= Elapsed(e, now) => Elapsed(After(now, d), e) = d - Elapsed(e, now)
            /\ d < Elapsed(e, now)
                 => Elapsed(After(now, d), e) = TimeModulus - (Elapsed(e, now) - d)
            BY <1>t, <3>1, FutureNears
      <4>3. QED
            BY <1>1, <4>1, <4>2
    <3>2. CASE d >= lasting[i]
      <4>1. Elapsed(now', e) = d - lasting[i]
            BY <3>2, <3>e
      <4>2. Due(now', e)
            BY <1>t, <3>1, <4>1, HalfFacts DEF Due
      <4>3. ~requests'[i].active
            BY <1>2, <2>3, <4>2 DEF Expired
      <4>4. lasting'[i] = 0
            BY <1>2, <1>t, <3>1, <3>2, HalfFacts
      <4>5. QED
            BY <4>3, <4>4
    <3>3. CASE d < lasting[i]
      <4>1. /\ Elapsed(now', e) = TimeModulus - (lasting[i] - d)
            /\ Elapsed(e, now') = lasting[i] - d
            BY <1>t, <3>1, <3>3, <3>e
      <4>2. ~Due(now', e)
            BY <1>t, <3>1, <3>3, <4>1, HalfFacts DEF Due
      <4>3. requests'[i].active /\ requests'[i].expires_at = e
            BY <1>2, <2>3, <4>2 DEF Expired
      <4>4. lasting'[i] = lasting[i] - d
            BY <1>2, <1>t, <3>1, <3>3, HalfFacts
      <4>5. lasting[i] - d \in 1..(TimeModulus \div 2 - 1)
            BY <1>t, <3>1, <3>3, HalfFacts
      <4>6. QED
            BY <2>3, <4>1, <4>3, <4>4, <4>5
    <3>4. QED
          BY <1>t, <3>1, <3>2, <3>3
  <2>4. QED
        BY <2>1, <2>2, <2>3 DEF ExpiryIsAhead
<1>5. QED
      BY <1>3, <1>4

(* A request and a clear touch one source and leave nothing shown. *)
LEMMA RequestKeepsExpiry ==
  ASSUME IndicationTypeOK, ExpiryIsAhead, NEW i \in IndicationSources,
         NEW frame \in Frames, NEW duration \in Durations, Request(i, frame, duration)
  PROVE  IndicationTypeOK' /\ ExpiryIsAhead'
<1> DEFINE expiry == IF duration = 0 THEN 0 ELSE After(now, duration)
           rest   == IF expiry = 0 THEN Forever ELSE duration
<1>t. /\ now \in Instants /\ duration \in Nat /\ duration < TimeModulus \div 2
      /\ duration \in Instants
      BY ClockFacts, HalfFacts, IndicationAssumption DEF IndicationTypeOK, Instants
<1>1. expiry \in Instants /\ (expiry # 0 => Elapsed(expiry, now) = duration /\ duration > 0)
      BY <1>t, AfterIs, DelayAway, ClockFacts
<1>2. rest \in 0..Forever /\ 0 \in 0..Forever
      BY <1>t, HalfFacts
<1> HIDE DEF expiry
<1>3. /\ requests' = [requests EXCEPT ![i] =
            [active |-> TRUE, frame |-> frame, expires_at |-> expiry]]
      /\ lasting' = [lasting EXCEPT ![i] = IF requests'[i].expires_at = 0 THEN Forever ELSE duration]
      /\ UNCHANGED now /\ shown' = FALSE
      BY DEF Request, expiry
<1>4. requests'[i] = [active |-> TRUE, frame |-> frame, expires_at |-> expiry]
      BY <1>3 DEF IndicationTypeOK
<1>5. lasting' = [lasting EXCEPT ![i] = rest]
  <2>1. requests'[i].expires_at = expiry
        BY <1>4
  <2>2. QED
        BY <1>3, <2>1
<1>6. IndicationTypeOK'
      BY <1>1, <1>2, <1>3, <1>5 DEF IndicationTypeOK
<1>7. ExpiryIsAhead'
  <2> SUFFICES ASSUME NEW j \in IndicationSources
               PROVE  \/ lasting'[j] = 0 /\ ~requests'[j].active
                      \/ lasting'[j] = Forever /\ requests'[j].active /\ requests'[j].expires_at = 0
                      \/ /\ lasting'[j] \in 1..(TimeModulus \div 2 - 1)
                         /\ requests'[j].active /\ requests'[j].expires_at # 0
                         /\ Elapsed(requests'[j].expires_at, now') = lasting'[j]
      BY DEF ExpiryIsAhead, Forever
  <2>1. CASE j # i
    <3>1. requests'[j] = requests[j] /\ lasting'[j] = lasting[j] /\ now' = now
          BY <2>1, <1>3, <1>5 DEF IndicationTypeOK
    <3>2. QED
          BY <3>1 DEF ExpiryIsAhead
  <2>2. CASE j = i
    <3>1. lasting'[i] = rest
          BY <1>5 DEF IndicationTypeOK
    <3>2. /\ requests'[i].active /\ requests'[i].expires_at = expiry /\ now' = now
          BY <1>3, <1>4
    <3>3. CASE expiry = 0
          BY <2>2, <3>1, <3>2, <3>3
    <3>4. CASE expiry # 0
      <4>1. duration \in 1..(TimeModulus \div 2 - 1)
            BY <3>4, <1>1, <1>t, HalfFacts
      <4>2. QED
            BY <2>2, <3>1, <3>2, <3>4, <4>1, <1>1
    <3>5. QED
          BY <3>3, <3>4
  <2>3. QED
        BY <2>1, <2>2
<1>8. QED
      BY <1>6, <1>7

LEMMA ClearKeepsExpiry ==
  ASSUME IndicationTypeOK, ExpiryIsAhead, NEW i \in IndicationSources, Clear(i)
  PROVE  IndicationTypeOK' /\ ExpiryIsAhead'
<1>1. /\ requests' = [requests EXCEPT ![i].active = FALSE] /\ lasting' = [lasting EXCEPT ![i] = 0]
      /\ UNCHANGED now /\ shown' = FALSE
      BY DEF Clear
<1>2. 0 \in 0..Forever
      BY HalfFacts
<1>3. IndicationTypeOK'
      BY <1>1, <1>2 DEF IndicationTypeOK
<1>4. ASSUME NEW j \in IndicationSources, j # i
      PROVE  requests'[j] = requests[j] /\ lasting'[j] = lasting[j]
      BY <1>1, <1>4 DEF IndicationTypeOK
<1>5. lasting'[i] = 0 /\ ~requests'[i].active
      BY <1>1 DEF IndicationTypeOK
<1>6. QED
      BY <1>1, <1>3, <1>4, <1>5 DEF ExpiryIsAhead, Forever

LEMMA IndicationStep ==
  ASSUME PolledInHalf, IndicationInv, [IndicationNext]_<<now, indicationVars>>
  PROVE  IndicationInv'
<1>1. ASSUME NEW i \in IndicationSources,
             Clear(i) \/ \E frame \in Frames, duration \in Durations : Request(i, frame, duration)
      PROVE  IndicationInv'
  <2>1. IndicationTypeOK' /\ ExpiryIsAhead'
        BY <1>1, RequestKeepsExpiry, ClearKeepsExpiry DEF IndicationInv
  <2>2. shown' = FALSE
        BY <1>1 DEF Clear, Request
  <2>3. QED
        BY <2>1, <2>2 DEF IndicationInv, TopRequestIsShown
<1>2. ASSUME NEW d \in PollGaps, PollIndication(d) PROVE IndicationInv'
  <2>1. IndicationTypeOK' /\ ExpiryIsAhead'
        BY <1>2, PollKeepsExpiry DEF IndicationInv
  <2>2. \A i \in IndicationSources : requests'[i].active <=> lasting'[i] > 0
        BY <2>1, HalfFacts DEF ExpiryIsAhead, Forever
  <2>3. TopFrame(requests', { i \in IndicationSources : requests'[i].active }) =
          IF \E i \in IndicationSources : lasting'[i] > 0
          THEN requests'[CHOOSE i \in IndicationSources :
                 lasting'[i] > 0 /\ \A j \in IndicationSources : lasting'[j] > 0 => j <= i].frame
          ELSE Dark
        BY <2>2, TopOfActive, Zenon
  <2>4. shown' => applied' = TopFrame(requests', { i \in IndicationSources : requests'[i].active })
        BY <1>2, Zenon DEF PollIndication
  <2>5. TopRequestIsShown'
        BY <2>3, <2>4, Zenon DEF TopRequestIsShown
  <2>6. QED
        BY <2>1, <2>5 DEF IndicationInv
<1>3. CASE UNCHANGED <<now, indicationVars>>
  <2>1. UNCHANGED <<now, requests, applied, lasting, shown>>
        BY <1>3 DEF indicationVars
  <2>2. IndicationTypeOK' /\ ExpiryIsAhead'
        BY <2>1 DEF IndicationInv, IndicationTypeOK, ExpiryIsAhead, Forever
  <2>3. TopRequestIsShown'
        BY <2>1, Zenon DEF IndicationInv, TopRequestIsShown
  <2>4. QED
        BY <2>2, <2>3 DEF IndicationInv
<1>4. QED
      BY <1>1, <1>2, <1>3 DEF IndicationNext

(***************************************************************************)
(* After a poll that succeeded the indicator shows the frame of the        *)
(* highest source with a request that should still be shown, for any       *)
(* number of sources and wherever the clock wraps, if the service is       *)
(* polled before the clock has come half round.                            *)
(***************************************************************************)
THEOREM IndicationTopRequestIsShown ==
  ASSUME PolledInHalf
  PROVE  IndicationSpec => []TopRequestIsShown
<1>1. IndicationInit => IndicationInv
  <2>1. IndicationInit => IndicationTypeOK /\ ExpiryIsAhead
    <3>1. NoRequest \in [active : BOOLEAN, frame : Frames \cup {Dark}, expires_at : Instants]
          /\ ~NoRequest.active /\ 0 \in 0..Forever /\ 0 \in Instants
          BY ClockFacts, HalfFacts DEF NoRequest
    <3>2. IndicationInit => IndicationTypeOK
          BY <3>1 DEF IndicationInit, IndicationTypeOK
    <3>3. IndicationInit => ExpiryIsAhead
          BY <3>1 DEF IndicationInit, ExpiryIsAhead
    <3>4. QED
          BY <3>2, <3>3
  <2>2. IndicationInit => TopRequestIsShown
        BY Zenon DEF IndicationInit, TopRequestIsShown
  <2>3. QED
        BY <2>1, <2>2 DEF IndicationInv
<1>2. IndicationInv /\ [IndicationNext]_<<now, indicationVars>> => IndicationInv'
      BY IndicationStep
<1>3. IndicationInv => TopRequestIsShown
      BY DEF IndicationInv
<1>4. QED
      BY <1>1, <1>2, <1>3, PTL DEF IndicationSpec

-----------------------------------------------------------------------------
(***************************************************************************)
(* The network manager.  As long as a link's retry is not half the range   *)
(* of the clock ago, the stored instant tells whether its delay is over,   *)
(* and every time the link is passed over costs a link before it an        *)
(* attempt.                                                                *)
(***************************************************************************)
NetTypeOK ==
  /\ now \in Instants /\ count \in 0..kNetworkLinkCapacity
  /\ attempt \in [Links -> 0..MaxAttempts] /\ retry_at \in [Links -> Instants]
  /\ idle \in [Links -> Nat] /\ gap \in [Links -> 0..MaxGap]
  /\ passed \in [Links -> [Links -> Nat]]

(* The link is not excused. *)
Recent(i) == idle[i] < gap[i] + TimeModulus \div 2

RetryIsKnown ==
  \A i \in Links : Recent(i) =>
    IF idle[i] < gap[i] THEN Elapsed(retry_at[i], now) = gap[i] - idle[i]
    ELSE Elapsed(now, retry_at[i]) = idle[i] - gap[i]

PassingCostsAttempts ==
  \A i, j \in Links : Recent(i) => passed[i][j] <= IF j < i THEN attempt[j] ELSE 0

NetInv == NetTypeOK /\ RetryIsKnown /\ PassingCostsAttempts

(* The last delay is the longest, and each is within the clock's range. *)
DelaysFit ==
  \A k \in 1..Len(kDelays) : kDelays[k] <= kDelays[Len(kDelays)] /\ kDelays[k] < TimeModulus

LEMMA NetDelay ==
  ASSUME DelaysFit, NEW n \in Nat
  PROVE  /\ next_delay(n) \in 0..MaxGap /\ next_delay(n) \in Instants
         /\ next_delay(n) \in Nat /\ next_delay(n) > 0
         /\ MaxGap \in Nat /\ MaxIdle = MaxGap + TimeModulus \div 2
<1>1. /\ Len(kDelays) \in Nat /\ Len(kDelays) > 0
      /\ \A i \in 1..Len(kDelays) : kDelays[i] \in Nat /\ kDelays[i] > 0
      BY BackoffAssumption
<1>2. PICK i \in 1..Len(kDelays) : next_delay(n) = kDelays[i]
      BY <1>1 DEF next_delay
<1>3. /\ kDelays[i] <= kDelays[Len(kDelays)] /\ kDelays[i] < TimeModulus
      /\ kDelays[i] \in Nat /\ kDelays[i] > 0 /\ kDelays[Len(kDelays)] \in Nat
      BY <1>1 DEF DelaysFit
<1>4. QED
      BY <1>2, <1>3, ClockFacts DEF MaxGap, MaxIdle, Instants

(* Time passes for a link that is not started. *)
LEMMA LinkAges ==
  ASSUME DelaysFit, NetTypeOK, RetryIsKnown, NEW i \in Links, NEW d \in PollGaps, NEW t,
         t = After(now, d),
         Aged(idle[i], d, MaxIdle) < gap[i] + TimeModulus \div 2
  PROVE  /\ Aged(idle[i], d, MaxIdle) = idle[i] + d /\ Recent(i)
         /\ idle[i] + d < gap[i] => Elapsed(retry_at[i], t) = gap[i] - (idle[i] + d)
         /\ idle[i] + d >= gap[i] => /\ Elapsed(t, retry_at[i]) = (idle[i] + d) - gap[i]
                                     /\ Due(t, retry_at[i])
<1>t. /\ now \in Instants /\ d \in Instants /\ d \in Nat /\ retry_at[i] \in Instants
      /\ idle[i] \in Nat /\ gap[i] \in Nat /\ gap[i] <= MaxGap /\ MaxGap \in Nat
      /\ MaxIdle = MaxGap + TimeModulus \div 2 /\ TimeModulus \div 2 \in Nat
      /\ TimeModulus \in Nat /\ TimeModulus \div 2 < TimeModulus
      BY ClockFacts, HalfFacts, NetDelay DEF NetTypeOK
<1>1. Aged(idle[i], d, MaxIdle) = idle[i] + d
      BY <1>t DEF Aged
<1>2. idle[i] + d < gap[i] + TimeModulus \div 2
      BY <1>1
<1>3. Recent(i)
      BY <1>2, <1>t DEF Recent
<1>4. CASE idle[i] < gap[i]
  <2>1. Elapsed(retry_at[i], now) = gap[i] - idle[i]
        BY <1>3, <1>4 DEF RetryIsKnown
  <2>2. /\ d <= Elapsed(retry_at[i], now)
             => Elapsed(retry_at[i], After(now, d)) = Elapsed(retry_at[i], now) - d
        /\ d >= Elapsed(retry_at[i], now)
             => Elapsed(After(now, d), retry_at[i]) = d - Elapsed(retry_at[i], now)
        BY <1>t, FutureNears
  <2>3. QED
        BY <1>t, <1>1, <1>2, <1>3, <2>1, <2>2 DEF Due
<1>5. CASE idle[i] >= gap[i]
  <2>1. Elapsed(now, retry_at[i]) = idle[i] - gap[i]
        BY <1>3, <1>5, <1>t DEF RetryIsKnown
  <2>2. Elapsed(now, retry_at[i]) + d < TimeModulus
        BY <1>t, <1>2, <2>1
  <2>3. Elapsed(After(now, d), retry_at[i]) = Elapsed(now, retry_at[i]) + d
        BY <1>t, <2>2, PastRecedes
  <2>4. QED
        BY <1>t, <1>1, <1>2, <1>3, <1>5, <2>1, <2>3 DEF Due
<1>6. QED
      BY <1>t, <1>4, <1>5

(* The links started in one poll: those due up to the last one. *)
LEMMA StartedFacts ==
  ASSUME NEW t, NEW started \in Started(t)
  PROVE  /\ \A j \in started : j \in Links /\ MayStart(j, t)
         /\ \A i \in Links : MayStart(i, t) /\ i \notin started
              => started # {} /\ \A j \in started : j < i
<1> DEFINE due == { i \in Links : MayStart(i, t) }
<1>1. CASE due = {}
  <2>1. started = {}
        BY <1>1 DEF Started
  <2>2. QED
        BY <1>1, <2>1
<1>2. CASE due # {}
  <2>1. PICK last \in due : started = { i \in due : i <= last }
        BY <1>2 DEF Started
  <2>2. \A i \in Links : i \in Int
        BY NetAssumption DEF Links
  <2>3. last \in started
        BY <2>1, <2>2
  <2>4. QED
        BY <2>1, <2>2, <2>3
<1>3. QED
      BY <1>1, <1>2

(* A poll with a link up: nobody is passed over, and the retries stay. *)
LEMMA OnlineKeepsNetInv ==
  ASSUME DelaysFit, NetInv, NEW d \in PollGaps, PollOnline(d)
  PROVE  NetInv'
<1>t. /\ now \in Instants /\ d \in Instants /\ d \in Nat /\ MaxIdle \in Nat
      BY ClockFacts, HalfFacts, NetDelay DEF NetInv, NetTypeOK
<1>1. /\ now' = After(now, d) /\ now' \in Instants
      /\ idle' = [i \in Links |-> Aged(idle[i], d, MaxIdle)]
      /\ passed' = NonePassed
      /\ UNCHANGED <<count, retry_at, gap>>
      BY <1>t, AfterIs DEF PollOnline, Pass
<1>2. PICK k : attempt' = [attempt EXCEPT ![k] = 0]
      BY DEF PollOnline
<1>3. attempt' \in [Links -> 0..MaxAttempts]
  <2>1. 0 \in 0..MaxAttempts /\ attempt \in [Links -> 0..MaxAttempts]
        BY BackoffAssumption DEF NetInv, NetTypeOK
  <2>2. QED
        BY <1>2, <2>1
<1>4. idle' \in [Links -> Nat]
      BY <1>t, <1>1 DEF Aged, NetInv, NetTypeOK
<1>5. passed' \in [Links -> [Links -> Nat]]
      BY <1>1 DEF NonePassed
<1>6. NetTypeOK'
      BY <1>1, <1>3, <1>4, <1>5 DEF NetInv, NetTypeOK, MaxGap
<1>7. RetryIsKnown'
  <2> SUFFICES ASSUME NEW i \in Links, idle'[i] < gap'[i] + TimeModulus \div 2
               PROVE  IF idle'[i] < gap'[i] THEN Elapsed(retry_at'[i], now') = gap'[i] - idle'[i]
                      ELSE Elapsed(now', retry_at'[i]) = idle'[i] - gap'[i]
      BY DEF RetryIsKnown, Recent
  <2>1. idle'[i] = Aged(idle[i], d, MaxIdle) /\ gap' = gap /\ retry_at' = retry_at
        BY <1>1
  <2>2. /\ idle'[i] = idle[i] + d
        /\ idle[i] + d < gap[i] => Elapsed(retry_at[i], now') = gap[i] - (idle[i] + d)
        /\ idle[i] + d >= gap[i] => Elapsed(now', retry_at[i]) = (idle[i] + d) - gap[i]
        BY <1>1, <2>1, LinkAges DEF NetInv
  <2>3. idle[i] + d \in Nat /\ gap[i] \in Int
        BY <1>t, NetDelay DEF NetInv, NetTypeOK
  <2>4. QED
        BY <2>1, <2>2, <2>3
<1>8. PassingCostsAttempts'
      BY <1>1, <1>3 DEF PassingCostsAttempts, NonePassed
<1>9. QED
      BY <1>6, <1>7, <1>8 DEF NetInv

LEMMA OfflineKeepsNetInv ==
  ASSUME DelaysFit, NetInv, NEW d \in PollGaps, PollOffline(d)
  PROVE  NetInv'
<1>t. /\ now \in Instants /\ d \in Instants /\ d \in Nat /\ MaxIdle \in Nat /\ MaxGap \in Nat
      /\ TimeModulus \div 2 \in Nat /\ MaxAttempts \in Nat
  <2>1. MaxGap \in Nat /\ MaxIdle = MaxGap + TimeModulus \div 2
        BY NetDelay
  <2>2. TimeModulus \div 2 \in Nat
        BY HalfFacts
  <2>3. QED
        BY <2>1, <2>2, ClockFacts, BackoffAssumption DEF NetInv, NetTypeOK
<1>1. now' = After(now, d) /\ now' \in Instants /\ count' = count
      BY <1>t, AfterIs DEF PollOffline, Pass
<1>2. PICK started \in Started(now') :
        /\ retry_at' = [i \in Links |-> IF i \in started THEN After(now', next_delay(attempt[i]))
                                        ELSE retry_at[i]]
        /\ attempt' = [i \in Links |-> IF i \in started THEN next_attempt(attempt[i]) ELSE attempt[i]]
        /\ idle' = [i \in Links |-> IF i \in started THEN 0 ELSE Aged(idle[i], d, MaxIdle)]
        /\ gap' = [i \in Links |-> IF i \in started THEN next_delay(attempt[i]) ELSE gap[i]]
        /\ passed' = [i \in Links |-> [j \in Links |->
             IF ~PassedOver(i, started, d) THEN 0
             ELSE IF j \in For(i, started) THEN Aged(passed[i][j], 1, MaxAttempts + 1)
             ELSE passed[i][j]]]
      BY DEF PollOffline
<1>3. ASSUME NEW i \in Links
      PROVE  /\ attempt[i] \in Nat /\ attempt[i] <= MaxAttempts
             /\ next_delay(attempt[i]) \in 0..MaxGap /\ next_delay(attempt[i]) \in Instants
             /\ next_delay(attempt[i]) \in Nat /\ next_delay(attempt[i]) > 0
             /\ next_attempt(attempt[i]) \in 0..MaxAttempts
             /\ next_attempt(attempt[i]) >= attempt[i]
             /\ idle[i] \in Nat /\ gap[i] \in Nat
  <2>1. attempt[i] \in 0..MaxAttempts /\ idle[i] \in Nat /\ gap[i] \in 0..MaxGap
        BY DEF NetInv, NetTypeOK
  <2>2. next_attempt(attempt[i]) \in 0..MaxAttempts /\ next_attempt(attempt[i]) >= attempt[i]
        BY <1>t, <2>1 DEF next_attempt
  <2>3. attempt[i] \in Nat
        BY <1>t, <2>1
  <2>4. QED
        BY <1>t, <2>1, <2>2, <2>3, NetDelay
<1>4. NetTypeOK'
  <2>1. attempt' \in [Links -> 0..MaxAttempts]
        BY <1>2, <1>3 DEF NetInv, NetTypeOK
  <2>2. retry_at' \in [Links -> Instants]
        BY <1>1, <1>2, <1>3, AfterIs DEF NetInv, NetTypeOK
  <2>3. idle' \in [Links -> Nat]
        BY <1>t, <1>2, <1>3 DEF Aged
  <2>4. gap' \in [Links -> 0..MaxGap]
        BY <1>2, <1>3 DEF NetInv, NetTypeOK
  <2>5. passed' \in [Links -> [Links -> Nat]]
        BY <1>t, <1>2 DEF Aged, NetInv, NetTypeOK
  <2>6. QED
        BY <1>1, <2>1, <2>2, <2>3, <2>4, <2>5 DEF NetInv, NetTypeOK, MaxGap
<1>5. RetryIsKnown'
  <2> SUFFICES ASSUME NEW i \in Links, idle'[i] < gap'[i] + TimeModulus \div 2
               PROVE  IF idle'[i] < gap'[i] THEN Elapsed(retry_at'[i], now') = gap'[i] - idle'[i]
                      ELSE Elapsed(now', retry_at'[i]) = idle'[i] - gap'[i]
      BY DEF RetryIsKnown, Recent
  <2>1. CASE i \in started
    <3>1. /\ idle'[i] = 0 /\ gap'[i] = next_delay(attempt[i])
          /\ retry_at'[i] = After(now', next_delay(attempt[i]))
          BY <1>2, <2>1
    <3>2. Elapsed(After(now', next_delay(attempt[i])), now') = next_delay(attempt[i])
          BY <1>1, <1>3, DelayAway
    <3>3. 0 < next_delay(attempt[i]) /\ next_delay(attempt[i]) = next_delay(attempt[i]) - 0
          BY <1>3
    <3>4. QED
          BY <3>1, <3>2, <3>3
  <2>2. CASE i \notin started
    <3>1. idle'[i] = Aged(idle[i], d, MaxIdle) /\ gap'[i] = gap[i] /\ retry_at'[i] = retry_at[i]
          BY <1>2, <2>2
    <3>2. /\ idle'[i] = idle[i] + d
          /\ idle[i] + d < gap[i] => Elapsed(retry_at[i], now') = gap[i] - (idle[i] + d)
          /\ idle[i] + d >= gap[i] => Elapsed(now', retry_at[i]) = (idle[i] + d) - gap[i]
          BY <1>1, <3>1, LinkAges DEF NetInv
    <3>3. idle[i] + d \in Nat /\ gap[i] \in Int
          BY <1>t, <1>3
    <3>4. QED
          BY <3>1, <3>2, <3>3
  <2>3. QED
        BY <2>1, <2>2
<1>6. PassingCostsAttempts'
  <2> SUFFICES ASSUME NEW i \in Links, NEW j \in Links, idle'[i] < gap'[i] + TimeModulus \div 2
               PROVE  passed'[i][j] <= IF j < i THEN attempt'[j] ELSE 0
      BY DEF PassingCostsAttempts, Recent
  <2>1. /\ attempt'[j] = IF j \in started THEN next_attempt(attempt[j]) ELSE attempt[j]
        /\ passed'[i][j] = IF ~PassedOver(i, started, d) THEN 0
                           ELSE IF j \in For(i, started) THEN Aged(passed[i][j], 1, MaxAttempts + 1)
                           ELSE passed[i][j]
        BY <1>2
  <2>2. i \in Int /\ j \in Int /\ passed[i][j] \in Nat
        BY NetAssumption DEF NetInv, NetTypeOK, Links
  <2>3. CASE ~PassedOver(i, started, d)
        BY <1>3, <2>1, <2>3
  <2>4. CASE PassedOver(i, started, d)
    <3>1. i \in Added /\ i \notin started /\ ~exhausted(attempt[i]) /\ idle[i] + d >= gap[i]
          BY <2>4 DEF PassedOver
    <3>2. idle'[i] = Aged(idle[i], d, MaxIdle) /\ gap'[i] = gap[i]
          BY <1>2, <3>1
    <3>3. Recent(i) /\ Due(now', retry_at[i])
          BY <1>1, <3>1, <3>2, LinkAges DEF NetInv
    <3>4. started # {} /\ (\A k \in started : k < i) /\ For(i, started) = started
          BY <3>1, <3>3, StartedFacts DEF MayStart, For
    <3>5. passed[i][j] <= IF j < i THEN attempt[j] ELSE 0
          BY <3>3 DEF NetInv, PassingCostsAttempts
    <3>6. CASE j \in started
      <4>1. j < i /\ ~exhausted(attempt[j])
            BY <3>4, <3>6, StartedFacts DEF MayStart
      <4>2. next_attempt(attempt[j]) = attempt[j] + 1
            BY <1>t, <1>3, <4>1 DEF exhausted, next_attempt
      <4>3. Aged(passed[i][j], 1, MaxAttempts + 1) <= attempt[j] + 1
            BY <1>t, <1>3, <2>2, <3>5, <4>1 DEF Aged
      <4>4. QED
            BY <2>1, <2>4, <3>4, <3>6, <4>1, <4>2, <4>3
    <3>7. CASE j \notin started
          BY <2>1, <2>4, <3>4, <3>5, <3>7
    <3>8. QED
          BY <3>6, <3>7
  <2>5. QED
        BY <2>3, <2>4
<1>7. QED
      BY <1>4, <1>5, <1>6 DEF NetInv

LEMMA NetStep ==
  ASSUME DelaysFit, NetInv, [NetNext]_<<now, netVars>>
  PROVE  NetInv'
<1>1. CASE AddLink
  <2>1. count' \in 0..kNetworkLinkCapacity
        BY <1>1, NetAssumption DEF AddLink, NetInv, NetTypeOK
  <2>2. UNCHANGED <<now, attempt, retry_at, idle, gap, passed>>
        BY <1>1 DEF AddLink
  <2>3. QED
        BY <2>1, <2>2
        DEF NetInv, NetTypeOK, RetryIsKnown, PassingCostsAttempts, Recent, MaxGap
<1>2. CASE \/ SetObserver \/ (\E i \in Links : LinkChanges(i)) \/ UNCHANGED <<now, netVars>>
  <2>1. UNCHANGED <<now, count, attempt, retry_at, idle, gap, passed>>
        BY <1>2 DEF SetObserver, LinkChanges, netVars
  <2>2. QED
        BY <2>1 DEF NetInv, NetTypeOK, RetryIsKnown, PassingCostsAttempts, Recent, MaxGap
<1>3. ASSUME NEW d \in PollGaps, PollOnline(d) \/ PollOffline(d) PROVE NetInv'
      BY <1>3, OnlineKeepsNetInv, OfflineKeepsNetInv
<1>4. QED
      BY <1>1, <1>2, <1>3 DEF NetNext

(***************************************************************************)
(* NetworkManager::poll with every link down passes over a link that may   *)
(* start only for a link before it, and at most as often as that one has   *)
(* attempts: for any number of links, any budget, and delays that grow     *)
(* and stay within the clock's range.                                      *)
(***************************************************************************)
THEOREM NetNoLinkStarves ==
  ASSUME DelaysFit
  PROVE  NetSpec => []NoLinkStarves
<1>1. NetInit => NetInv
  <2> SUFFICES ASSUME NetInit PROVE NetInv
      OBVIOUS
  <2>1. /\ 0 \in Instants /\ 0 \in 0..MaxGap /\ 0 \in 0..MaxAttempts
        /\ 0 \in 0..kNetworkLinkCapacity
        BY ClockFacts, NetDelay, NetAssumption, BackoffAssumption
  <2>2. NetTypeOK
        BY <2>1 DEF NetInit, NetTypeOK, NonePassed
  <2>3. Elapsed(0, 0) = 0 - 0
        BY <2>1, DelayAway
  <2>4. RetryIsKnown
        BY <2>3 DEF NetInit, RetryIsKnown
  <2>5. PassingCostsAttempts
        BY DEF NetInit, PassingCostsAttempts, NonePassed
  <2>6. QED
        BY <2>2, <2>4, <2>5 DEF NetInv
<1>2. NetInv /\ [NetNext]_<<now, netVars>> => NetInv'
      BY NetStep
<1>3. NetInv => NoLinkStarves
  <2> SUFFICES ASSUME NetInv, NEW i \in Links, NEW j \in Links, Recent(i)
               PROVE  passed[i][j] <= IF j < i THEN MaxAttempts ELSE 0
      BY DEF NoLinkStarves, Recent
  <2>1. /\ passed[i][j] \in Nat /\ attempt[j] \in 0..MaxAttempts /\ MaxAttempts \in Nat
        BY BackoffAssumption DEF NetInv, NetTypeOK
  <2>2. passed[i][j] <= IF j < i THEN attempt[j] ELSE 0
        BY DEF NetInv, PassingCostsAttempts
  <2>3. QED
        BY <2>1, <2>2
<1>4. QED
      BY <1>1, <1>2, <1>3, PTL DEF NetSpec

=============================================================================
