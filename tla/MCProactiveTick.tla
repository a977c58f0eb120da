--------------------------- MODULE MCProactiveTick ---------------------------
(* Model checking ProactiveTick. *)
EXTENDS ProactiveTick

=============================================================================
