-------------------------- MODULE MCClaimLifecycle --------------------------
(* Model checking of the claim lifecycle on small instances. *)
EXTENDS ClaimLifecycle

(* What may fail while a client claims the device. *)
SessionFailures == {"hmac", "random", "open_window", "schedule_work"}

(* What may fail between the start and the end of an ownership. *)
OwnershipFailures == {"material", "nvs", "gatt_register", "worker_create", "mutex_create",
                      "open_window", "schedule_work", "matter_reset", "power"}

=============================================================================
