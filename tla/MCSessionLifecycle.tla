------------------------ MODULE MCSessionLifecycle ------------------------
(* Instances of SessionLifecycle for TLC.                                   *)
EXTENDS SessionLifecycle, TLC

(* Clients that leave any two requests in flight together.                 *)
FreeClients(r, q) == TRUE

Symmetry == Permutations(Workers) \cup Permutations(Sessions) \cup Permutations(Windows)
===========================================================================
