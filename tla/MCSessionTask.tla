---------------------------- MODULE MCSessionTask ----------------------------
(* Instances of SessionTask for TLC.                                        *)
EXTENDS SessionTask, TLC

Symmetry == Permutations(Workers) \cup Permutations(Sessions)
=============================================================================
