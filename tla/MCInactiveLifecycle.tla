------------------------- MODULE MCInactiveLifecycle -------------------------
(* Model checking InactiveLifecycle.  The clock counts in units of about four *)
(* minutes: one is the idle threshold, two to three the re-alert time.        *)
EXTENDS InactiveLifecycle

=============================================================================
