------------------------- MODULE EnvironmentMonitor -------------------------
(***************************************************************************)
(* The environment monitor: one loop that reads a character of the command *)
(* line, samples the temperature and sends telemetry, each in its period.  *)
(* A command is its length; the temperature is whether it is above 25 C.   *)
(***************************************************************************)
EXTENDS ServiceClock

CONSTANTS
  kCliPeriod, kSensorPeriod, kTelemetryPeriod,
  kCommandCapacity,
  MaxLine            \* bound: the longest line typed

ASSUME MonitorAssumption ==
  {kCliPeriod, kSensorPeriod, kTelemetryPeriod, kCommandCapacity, MaxLine} \subseteq Nat \ {0}

VARIABLES
  last_cli, last_sensor, last_telemetry,  \* last_cli_ms_, last_sensor_ms_, last_telemetry_ms_
  telemetry_pending,                      \* telemetry_pending_
  warm, led_high,                         \* temperature_celsius_ > 25, led_level_
  command_length,                         \* command_length_
  line,        \* history: characters typed since the end of the last line
  since_sent   \* history: time since telemetry was sent, or since the start

monitorVars == <<last_cli, last_sensor, last_telemetry, telemetry_pending, warm, led_high,
                 command_length, line, since_sent>>

MonitorInit ==
  /\ now = 0 /\ last_cli = 0 /\ last_sensor = 0 /\ last_telemetry = 0
  /\ telemetry_pending = TRUE
  /\ warm = FALSE /\ led_high = FALSE
  /\ command_length = 0 /\ line = 0 /\ since_sent = 0

-----------------------------------------------------------------------------
(* Mutant of is_due: the two instants are compared, not their difference. *)
is_dueAbsolute(t, last, period) == t >= last + period

is_due(t, last, period) == Elapsed(t, last) >= period

CommandTooLong == command_length + 1 >= kCommandCapacity

(* run_cli_task with nothing, the end of a line, or a character. *)
CliIdle == UNCHANGED <<command_length, line>>

CliEnd == command_length' = 0 /\ line' = 0

CliCharacter ==
  /\ line < MaxLine
  /\ line' = line + 1
  /\ command_length' = IF CommandTooLong THEN 0 ELSE command_length + 1

SensorTask == warm' \in BOOLEAN /\ led_high' = warm'

TelemetryDue(t) == telemetry_pending \/ is_due(t, last_telemetry, kTelemetryPeriod)

RunOnce(d) ==
  /\ Pass(d)
  /\ IF is_due(now', last_cli, kCliPeriod)
     THEN last_cli' = now' /\ (CliIdle \/ CliEnd \/ CliCharacter)
     ELSE UNCHANGED <<last_cli, command_length, line>>
  /\ IF is_due(now', last_sensor, kSensorPeriod)
     THEN last_sensor' = now' /\ SensorTask
     ELSE UNCHANGED <<last_sensor, warm, led_high>>
  /\ IF TelemetryDue(now')
     THEN last_telemetry' = now' /\ telemetry_pending' = FALSE /\ since_sent' = 0
     ELSE /\ UNCHANGED <<last_telemetry, telemetry_pending>>
          /\ since_sent' = Aged(since_sent, d, TimeModulus)

MonitorNext == \E d \in PollGaps : RunOnce(d)

MonitorSpec == MonitorInit /\ [][MonitorNext]_<<now, monitorVars>>

-----------------------------------------------------------------------------
(***************************************************************************)
(* The command buffer holds the whole line as long as the line fits, and   *)
(* there is always room for the terminator; of a longer line only a tail   *)
(* is left, which the end of the line runs as a command.  Meanwhile        *)
(* telemetry is sent every kTelemetryPeriod, late by no more than the loop *)
(* itself, also when the clock wraps.                                      *)
(***************************************************************************)
LoopKeepsItsLimits ==
  /\ command_length < kCommandCapacity
  /\ line < kCommandCapacity => command_length = line
  /\ since_sent < kTelemetryPeriod

=============================================================================
