-------------------------- MODULE MCSwitchControl --------------------------
(* Model checking of the on/off path. *)
EXTENDS SwitchControl

(* Everything between the switch and the controller may fail. *)
ReportFailures == {"runtime_start", "matter_start", "schedule_work", "attribute_update"}

(* Everything between the switch and NVS may fail, and power may go. *)
StoreFailures == {"gpio", "timer_create", "timer_stop", "timer_start", "nvs", "power"}

=============================================================================
