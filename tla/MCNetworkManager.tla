-------------------------- MODULE MCNetworkManager --------------------------
(* Model checking of the network manager's retries. *)
EXTENDS NetworkManager

(* Two delays, well below half the clock's range. *)
TwoDelays == <<1, 2>>

=============================================================================
