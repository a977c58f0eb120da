---------------------------- MODULE MCEventStream ----------------------------
(* Model checking EventStream: every stream is the first student's. *)
EXTENDS EventStream

CONSTANTS s1, s2, c1

\* What goes to the other student moves the shared revision only.
MCOwner == [c \in Streams |-> s1]

=============================================================================
