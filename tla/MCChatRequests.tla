--------------------------- MODULE MCChatRequests ---------------------------
(* Model checking ChatRequests: the threads and the browsers are alike.      *)
EXTENDS ChatRequests, TLC

Symmetry == Permutations(Threads) \cup Permutations(Keys)

=============================================================================
