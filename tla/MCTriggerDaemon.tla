--------------------------- MODULE MCTriggerDaemon ---------------------------
(* Model checking TriggerDaemon.                                             *)
EXTENDS TriggerDaemon

=============================================================================
