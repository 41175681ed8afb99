--------------------------- MODULE MCViewRegistry ---------------------------
(* An instance of ViewRegistry for TLC.                                     *)
EXTENDS ViewRegistry, TLC
=============================================================================
