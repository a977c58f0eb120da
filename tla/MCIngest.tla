------------------------------ MODULE MCIngest ------------------------------
(* Model checking Ingest: the students are interchangeable in a safety run.  *)
EXTENDS Ingest, TLC

Symmetry == Permutations(Students)

=============================================================================
