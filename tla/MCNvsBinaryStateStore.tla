----------------------- MODULE MCNvsBinaryStateStore -----------------------
(* Model checking of the relay-state store on its own. *)
EXTENDS NvsBinaryStateStoreHistory

(* Every external call may fail and power may go at any step. *)
AllFailures == {"timer_create", "timer_stop", "timer_start", "nvs", "power"}

=============================================================================
