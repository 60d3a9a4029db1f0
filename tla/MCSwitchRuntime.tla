-------------------------- MODULE MCSwitchRuntime --------------------------
(***************************************************************************)
(* Model checking of the switch task's loop and the button.  A tick stands *)
(* for the debounce time's order of magnitude; the thresholds keep their   *)
(* order and are far enough apart for the sampling slack not to blur them. *)
(***************************************************************************)
EXTENDS SwitchRuntime
=============================================================================
