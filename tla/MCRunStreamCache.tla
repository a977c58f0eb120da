-------------------------- MODULE MCRunStreamCache --------------------------
(* Model checking RunStreamCache. *)
EXTENDS RunStreamCache

=============================================================================
